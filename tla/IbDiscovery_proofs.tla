------------------------- MODULE IbDiscovery_proofs -------------------------
(***************************************************************************)
(* The safety properties of the InfiniBand traversal for every fabric: the *)
(* graph is well formed whatever fails and whatever is unplugged, and its  *)
(* links are cables of the fabric. When nothing fails and nothing is       *)
(* unplugged, it finds everything a route can reach; when one exchange     *)
(* fails, it still links the switches it traverses wherever it has records *)
(* of both ports.                                                          *)
(***************************************************************************)
EXTENDS IbDiscovery, NodeDiscovery_proofs

-----------------------------------------------------------------------------
(* The inductive invariant.                                                *)

(* The two lists of the end are filled when the traversal is over.         *)
ListsOK ==
    /\ switches \in Seq(Node) /\ hcas \in Seq(Node)
    /\ pc # "done" => switches = <<>> /\ hcas = <<>>
    /\ switches # <<>> \/ hcas # <<>> => /\ ToSet(switches) = ToSet(nodes) \cap Switches
                                         /\ ToSet(hcas) = ToSet(nodes) \ Switches

PlaceOK ==
    /\ pc \in {"idle", "root", "first", "probe", "loop", "done", "failed"}
    /\ pc \in {"root", "first", "loop"} <=> job.phase # "none"

(* What the loop waits for is behind its current port.                     *)
TraversalOK ==
    /\ QueueOK(stack) /\ first \in Seq(PortRecord)
    /\ item \in [port : Ports \cup {Nowhere}, path : Path]
    /\ pc \in {"probe", "loop"} => ItemOK(item)
    /\ probed \in AllPorts \cup {Nowhere}
    /\ pc = "loop" => /\ job.path = item.path
                      /\ probed = Arrival(cabling, item.path) /\ probed # Nowhere

RemoteOK ==
    /\ DOMAIN remote \subseteq Ports /\ ConnectedOK(remote)
    /\ IsCabling(cabling) => LinksOK(remote)

IInv == GraphInv /\ ListsOK /\ PlaceOK /\ TraversalOK /\ RemoteOK

(* The invariant says what the properties say.                             *)
LEMMA IInvImplies ==
    IInv => /\ TypeOK /\ Enumerated /\ LidPropagated /\ GapsAreCounted /\ LinksAsConnected
            /\ IsCabling(cabling) => LinksTrue
<1> SUFFICES ASSUME IInv
             PROVE  /\ TypeOK /\ Enumerated /\ LidPropagated /\ GapsAreCounted
                    /\ LinksAsConnected
                    /\ IsCabling(cabling) => LinksTrue
  OBVIOUS
<1>1. NodeInv /\ EnumOK /\ LidInv /\ GapInv /\ ListsOK /\ PlaceOK /\ TraversalOK /\ RemoteOK
  BY DEF IInv, GraphInv
<1>2. FabricOK /\ MapOK /\ CountersOK /\ JobOK
  BY <1>1 DEF NodeInv
<1>3. GraphTypeOK
  BY <1>1, GraphTypes DEF RemoteOK, ListsOK
<1>4. TypeOK
  <2>1. stack \in Seq([port : Ports, path : Path])
    BY <1>1 DEF TraversalOK, QueueOK, QueueEntry
  <2> QED BY <1>1, <1>3, <2>1 DEF TypeOK, PlaceOK, TraversalOK
<1>5. Enumerated
  BY <1>1 DEF EnumOK, ListsOK, Enumerated
<1> QED BY <1>1, <1>2, <1>4, <1>5, LidInvImplies, GapInvImplies, LinksTrueIs,
           LinksAsConnectedIs
        DEF RemoteOK

(* A traversal starts with nothing found and nothing under way.            *)
LEMMA Initially == Init => IInv
<1> SUFFICES ASSUME Init PROVE IInv
  OBVIOUS
<1>1. CommonInit /\ GraphInv
  BY GraphInvInit DEF Init
<1>2. <<>> \in Seq(Node) /\ <<>> \in Seq(PortRecord) /\ DOMAIN <<>> = {}
  OBVIOUS
<1>3. ListsOK /\ PlaceOK
  BY <1>1, <1>2 DEF Init, CommonInit, ListsOK, PlaceOK, Idle
<1>4. TraversalOK
  BY <1>2, QueueEmpty, RoutesArePaths DEF Init, TraversalOK, NoItem
<1>5. RemoteOK
  BY <1>1, <1>2 DEF CommonInit, RemoteOK, LinksOK, ConnectedOK
<1> QED BY <1>1, <1>3, <1>4, <1>5 DEF IInv

-----------------------------------------------------------------------------
(* Pieces of the steps.                                                    *)

(* The next port is taken, or the traversal is over.                       *)
LEMMA TraverseFacts ==
    ASSUME FabricOK, EnumOK, UNCHANGED <<fabric, found>>, switches = <<>>, hcas = <<>>,
           NEW queue, QueueOK(queue), NEW links, Traverse(queue, links)
    PROVE  /\ pc' \in {"done", "probe"} /\ job' = Idle
           /\ QueueOK(stack') /\ first' = <<>>
           /\ item' \in [port : Ports \cup {Nowhere}, path : Path]
           /\ pc' = "probe" => ItemOK(item')
           /\ ListsOK'
<1> DEFINE open == {i \in DOMAIN queue : IsOpen(queue[i], links)}
<1>1. job' = Idle /\ first' = <<>>
  BY DEF Traverse
<1>2. CASE open = {}
  <2>1. pc' = "done" /\ stack' = <<>> /\ item' = NoItem /\ Categorize
    BY <1>2 DEF Traverse
  <2>2. ListsOK'
    BY <2>1, Categorized DEF ListsOK, found
  <2> QED BY <1>1, <2>1, <2>2, QueueEmpty, RoutesArePaths DEF NoItem
<1>3. CASE open # {}
  <2> DEFINE i == Min(open)
             entry == queue[i]
  <2>1. /\ pc' = "probe" /\ stack' = SubSeq(queue, i + 1, Len(queue))
        /\ item' = [port |-> entry.port, path |-> RouteAcross(entry)]
        /\ UNCHANGED <<switches, hcas>>
    BY <1>3 DEF Traverse
  <2>2. i \in open
    <3>1. open \in SUBSET DOMAIN queue
      OBVIOUS
    <3> HIDE DEF open
    <3> QED BY <1>3, <3>1, LeastIndex
  <2>3. i \in DOMAIN queue /\ HasRoom(entry.path)
    BY <2>2 DEF IsOpen
  <2> HIDE DEF i
  <2>4. EntryOK(entry)
    BY <2>3 DEF QueueOK
  <2>5. QueueOK(stack')
    BY <2>1, <2>3, QueueRest
  <2> HIDE DEF entry
  <2>6. ItemOK(item')
    BY <2>1, <2>3, <2>4, RouteAcrossOK
  <2>7. item' \in [port : Ports \cup {Nowhere}, path : Path]
    BY <2>6 DEF ItemOK, QueueEntry
  <2>8. ListsOK'
    <3>1. <<>> \in Seq(Node)
      OBVIOUS
    <3> QED BY <2>1, <3>1 DEF ListsOK
  <2> QED BY <1>1, <2>1, <2>5, <2>6, <2>7, <2>8
<1> QED BY <1>2, <1>3

(* The traversal's own steps: how far they keep the invariant.             *)
LEMMA TraverseKeeps ==
    ASSUME IInv, UNCHANGED <<fabric, counters, found>>, pc # "done",
           NEW queue, QueueOK(queue), NEW links, Traverse(queue, links),
           RemoteOK', probed' \in AllPorts \cup {Nowhere}
    PROVE  IInv'
<1>1. FabricOK /\ EnumOK /\ GraphInv
  BY DEF IInv, GraphInv, NodeInv
<1>2. switches = <<>> /\ hcas = <<>>
  BY DEF IInv, ListsOK
<1>3. /\ pc' \in {"done", "probe"} /\ job' = Idle
      /\ QueueOK(stack') /\ first' = <<>>
      /\ item' \in [port : Ports \cup {Nowhere}, path : Path]
      /\ pc' = "probe" => ItemOK(item')
      /\ ListsOK'
  BY <1>1, <1>2, TraverseFacts
<1>4. GraphInv'
  BY <1>1, <1>3, CallKeepsGraphInv
<1>5. PlaceOK'
  BY <1>3 DEF PlaceOK, Idle
<1>6. TraversalOK'
  <2>1. QueueOK(stack)' /\ (pc' = "probe" => ItemOK(item)')
    BY <1>3, SameCables DEF fabric
  <2>2. first' \in Seq(PortRecord)
    BY <1>3
  <2> QED BY <1>3, <2>1, <2>2 DEF TraversalOK
<1> QED BY <1>3, <1>4, <1>5, <1>6 DEF IInv

(* Links stay true while neither they nor the cables change.               *)
LEMMA RemoteStays == ASSUME IInv, UNCHANGED <<cabling, remote>> PROVE RemoteOK'
BY DEF IInv, RemoteOK, LinksOK, ConnectedOK, IsPrivate

(* Linking the port left by with the port arrived at is true of the cable  *)
(* between them.                                                           *)
LEMMA RemoteLinked ==
    ASSUME IInv, UNCHANGED fabric, pc \in {"probe", "loop"},
           NEW port, port = Arrival(cabling, item.path), port # Nowhere,
           remote' = Linked(item.port, port)
    PROVE  RemoteOK'
<1>1. FabricOK /\ ItemOK(item) /\ DOMAIN remote \subseteq Ports
  BY DEF IInv, GraphInv, NodeInv, TraversalOK, RemoteOK
<1>2. port = cabling[item.port] /\ item.port \in DOMAIN cabling /\ DOMAIN remote' \subseteq Ports
  BY <1>1, LinkedPorts
<1>3. cabling' = cabling
  BY DEF fabric
<1>4. ASSUME IsCabling(cabling) PROVE LinksOK(remote')
  BY <1>2, <1>4, LinkedOK DEF IInv, RemoteOK
<1>5. IsCabling(cabling) => LinksOK(remote)'
  BY <1>3, <1>4 DEF LinksOK
<1>6. ConnectedOK(remote')
  BY <1>1, <1>2, LinkedConnected DEF IInv, RemoteOK
<1>7. ConnectedOK(remote)'
  BY <1>3, <1>6 DEF ConnectedOK, IsPrivate
<1> QED BY <1>2, <1>3, <1>5, <1>7 DEF RemoteOK

(* What a node that has been found adds to the stack leads across its      *)
(* ports.                                                                  *)
LEMMA EntriesOK ==
    ASSUME NodeInv, job.phase = "found" PROVE QueueOK(Entries(job.node, job.path))
<1>1. RecordOK(job.node) /\ IsRoute(job.path) /\ LeadsTo(job.path, job.node.guid)
  BY DEF NodeInv, JobOK
<1> DEFINE indices == {i \in DOMAIN job.node.ports : IsEligible(job.node.ports[i])}
           ports == Kept(job.node.ports, indices)
<1>2. EligiblePorts(job.node) = ports
  BY DEF EligiblePorts, Filter
<1>3. indices \in SUBSET DOMAIN job.node.ports /\ \A i \in indices : job.node.ports[i].number # 0
  BY DEF IsEligible
<1> HIDE DEF indices
<1>4. /\ ports \in Seq(PortRecord)
      /\ \A k \in DOMAIN ports : <<job.node.guid, ports[k].number>> \in Ports
  BY <1>1, <1>3, KeptPorts
<1> HIDE DEF ports
<1>5. QueueOK([k \in DOMAIN ports |-> [port |-> <<job.node.guid, ports[k].number>>, path |-> job.path]])
  BY <1>1, <1>4, EntriesQueue
<1> QED BY <1>2, <1>5, QueueEmpty DEF Entries

(* The ports followed are records of ports.                                *)
LEMMA EligibleType ==
    ASSUME NEW node, RecordOK(node) PROVE EligiblePorts(node) \in Seq(PortRecord)
<1> DEFINE indices == {i \in DOMAIN node.ports : IsEligible(node.ports[i])}
<1>1. indices \in SUBSET DOMAIN node.ports /\ node.ports \in Seq(PortRecord)
  BY DEF RecordOK, NodeShape
<1>2. EligiblePorts(node) = Kept(node.ports, indices)
  BY DEF EligiblePorts, Filter
<1> HIDE DEF indices
<1> QED BY <1>1, <1>2, KeptElements

(* A route of one hop.                                                     *)
LEMMA FirstHopRoute ==
    ASSUME NEW port \in PortRecord PROVE IsRoute(FirstHopPath(port.number))
<1> DEFINE p == port.number
           path == FirstHopPath(p)
<1>1. p \in 0..255
  BY DEF PortRecord
<1> HIDE DEF p
<1>2. StartPath \in [Index -> 0..255] /\ 0 \in Index /\ 1 \in Index
  BY IndexFacts DEF StartPath
<1>3. path \in [Index -> 0..255] /\ \A i \in Index : i > 1 => path[i] = 0
  BY <1>1, <1>2, IndexFacts DEF FirstHopPath, StartPath
<1> HIDE DEF path
<1>4. \A i \in 1..(PathLen - 1) : i \in Index
  BY RouteAssumption DEF Index
<1> QED BY <1>3, <1>4, RouteAssumption DEF IsRoute, path, p

-----------------------------------------------------------------------------
(* The steps.                                                              *)
LEMMA StartKeepsIInv == ASSUME IInv, Start PROVE IInv'
<1>1. /\ Forget /\ pc' = "root"
      /\ stack' = <<>> /\ first' = <<>> /\ item' = NoItem /\ probed' = Nowhere
  BY DEF Start
<1>2. GraphInv'
  BY <1>1, ForgetKeepsGraphInv DEF IInv
<1>3. /\ remote' = <<>> /\ switches' = <<>> /\ hcas' = <<>> /\ job' = Call(StartPath)
  BY <1>1 DEF Forget
<1>4. <<>> \in Seq(Node) /\ <<>> \in Seq(PortRecord) /\ DOMAIN <<>> = {}
  OBVIOUS
<1>5. ListsOK' /\ PlaceOK'
  BY <1>1, <1>3, <1>4 DEF ListsOK, PlaceOK, Call
<1>6. QueueOK(stack)'
  BY <1>1, <1>4 DEF QueueOK
<1>7. TraversalOK'
  BY <1>1, <1>4, <1>6, RoutesArePaths DEF TraversalOK, NoItem
<1>8. RemoteOK'
  BY <1>3, <1>4 DEF RemoteOK, LinksOK, ConnectedOK
<1> QED BY <1>2, <1>5, <1>7, <1>8 DEF IInv

(* A step of discover_node.                                                *)
LEMMA DiscoverKeepsIInv == ASSUME IInv, DiscoverNode, UNCHANGED traversal PROVE IInv'
<1>1. GraphInv' /\ job'.path = job.path
  BY DiscoverNodeKeepsGraphInv DEF IInv
<1>2. /\ UNCHANGED fabric /\ UNCHANGED <<remote, switches, hcas>>
      /\ job.phase \in {"nodeInfo", "nodeDesc", "portInfo"}
  BY DEF DiscoverNode, FetchNodeInfo, FetchNodeDesc, FetchPortInfo, graph
<1>3. job'.phase # "none"
  <2>1. job \in JobShape /\ job' \in JobShape
    BY <1>1 DEF IInv, GraphInv, NodeInv, JobOK
  <2>2. CASE FetchNodeInfo
    BY <2>1, <2>2 DEF FetchNodeInfo, Found, Lost, JobShape
  <2>3. CASE FetchNodeDesc
    BY <2>1, <2>3 DEF FetchNodeDesc, Lost, JobShape
  <2>4. CASE FetchPortInfo
    <3>1. (\E r : PortStep(r)) \/ Lost
      BY <2>4, FetchPortInfoSteps DEF IInv, GraphInv
    <3> QED BY <2>1, <3>1 DEF PortStep, NextRecord, Continued, Completed, Lost, JobShape
  <2> QED BY <2>2, <2>3, <2>4 DEF DiscoverNode
<1>4. UNCHANGED pc /\ UNCHANGED stack /\ UNCHANGED first /\ UNCHANGED item /\ UNCHANGED probed
  BY DEF traversal
<1>5. pc \in {"root", "first", "loop"}
  BY <1>2 DEF IInv, PlaceOK
<1>6. ListsOK' /\ PlaceOK'
  BY <1>2, <1>3, <1>4, <1>5 DEF IInv, ListsOK, PlaceOK
<1>7. TraversalOK'
  BY <1>1, <1>2, <1>4, SameCables DEF IInv, TraversalOK, fabric
<1>8. RemoteOK'
  BY <1>2, RemoteStays DEF fabric
<1> QED BY <1>1, <1>6, <1>7, <1>8 DEF IInv

(* Cables and nodes go away: what is recorded of them is past, what is     *)
(* under way is cut off.                                                   *)
LEMMA UnplugKeepsIInv == ASSUME IInv, Unplug, UNCHANGED traversal PROVE IInv'
<1>1. GraphInv'
  BY UnplugKeepsGraphInv DEF IInv
<1>2. /\ root_port' = root_port /\ cabling' = cabling /\ job' = job /\ nodes' = nodes
      /\ UNCHANGED <<remote, switches, hcas>>
  BY DEF Unplug, graph, found
<1>3. UNCHANGED pc /\ UNCHANGED stack /\ UNCHANGED first /\ UNCHANGED item /\ UNCHANGED probed
  BY DEF traversal
<1>4. ListsOK' /\ PlaceOK'
  BY <1>2, <1>3 DEF IInv, ListsOK, PlaceOK
<1>5. TraversalOK'
  BY <1>2, <1>3, SameCables DEF IInv, TraversalOK
<1>6. RemoteOK'
  BY <1>2, RemoteStays
<1> QED BY <1>1, <1>4, <1>5, <1>6 DEF IInv

(* Nothing happens.                                                        *)
LEMMA StutterKeepsIInv == ASSUME IInv, UNCHANGED vars PROVE IInv'
<1>1. UNCHANGED common /\ UNCHANGED traversal
  BY DEF vars
<1>2. /\ UNCHANGED fabric /\ UNCHANGED found /\ UNCHANGED job
      /\ UNCHANGED <<remote, switches, hcas>>
  BY <1>1 DEF common, graph
<1>3. GraphInv'
  BY <1>1, StutterKeepsGraphInv DEF IInv
<1>4. ListsOK' /\ PlaceOK'
  BY <1>1, <1>2 DEF IInv, ListsOK, PlaceOK, traversal, found
<1>5. TraversalOK'
  BY <1>1, <1>2, SameCables DEF IInv, TraversalOK, traversal, fabric
<1>6. RemoteOK'
  BY <1>2, RemoteStays DEF fabric
<1> QED BY <1>3, <1>4, <1>5, <1>6 DEF IInv

(* The next entry of the stack is taken and probed.                        *)
LEMMA ProbeKeepsIInv == ASSUME IInv, Probe PROVE IInv'
<1> DEFINE port == Arrival(Cable, item.path)
<1>1. /\ pc = "probe" /\ UNCHANGED fabric /\ UNCHANGED counters /\ UNCHANGED found
      /\ UNCHANGED <<fabric, counters, found>>
  BY DEF Probe
<1>2. FabricOK /\ ItemOK(item) /\ QueueOK(stack) /\ probed \in AllPorts \cup {Nowhere}
  BY <1>1 DEF IInv, GraphInv, NodeInv, TraversalOK
<1>3. PICK outcome \in Outcome(item.path) :
         \/ /\ outcome.kind = "Ok" /\ IsKnown(port[1])
            /\ probed' = port /\ remote' = Linked(item.port, port)
            /\ Traverse(stack, remote')
         \/ /\ outcome.kind = "Ok" /\ ~IsKnown(port[1])
            /\ probed' = port /\ pc' = "loop" /\ job' = Call(item.path)
            /\ UNCHANGED <<remote, switches, hcas, stack, first, item>>
         \/ /\ outcome.kind # "Ok" /\ Traverse(stack, remote) /\ UNCHANGED <<remote, probed>>
  BY DEF Probe
<1>4. outcome.kind = "Ok" =>
         port # Nowhere /\ port = Arrival(cabling, item.path) /\ port \in AllPorts
  BY <1>2, OutcomeFacts, Reached
<1> HIDE DEF port
<1>5. CASE /\ outcome.kind = "Ok" /\ probed' = port /\ remote' = Linked(item.port, port)
           /\ Traverse(stack, remote')
  <2>1. RemoteOK'
    BY <1>1, <1>4, <1>5, RemoteLinked
  <2> QED BY <1>1, <1>2, <1>4, <1>5, <2>1, TraverseKeeps
<1>6. CASE /\ outcome.kind = "Ok" /\ probed' = port /\ pc' = "loop" /\ job' = Call(item.path)
           /\ UNCHANGED <<remote, switches, hcas, stack, first, item>>
  <2>1. IsRoute(item.path)
    BY <1>2 DEF ItemOK
  <2>2. GraphInv'
    BY <1>1, <1>6, <2>1, CallKeepsGraphInv DEF IInv
  <2>3. ListsOK' /\ PlaceOK'
    BY <1>1, <1>6 DEF IInv, ListsOK, PlaceOK, Call, found
  <2>4. TraversalOK'
    <3>1. job'.path = item.path
      BY <1>6 DEF Call
    <3>2. Arrival(cabling, item.path)' = Arrival(cabling, item.path)
      BY <1>1, <1>6, SameCables DEF fabric
    <3>3. QueueOK(stack)' /\ ItemOK(item)'
      BY <1>1, <1>2, <1>6, SameCables DEF fabric
    <3>4. first' \in Seq(PortRecord) /\ item' \in [port : Ports \cup {Nowhere}, path : Path]
      BY <1>6 DEF IInv, TraversalOK
    <3> QED BY <1>4, <1>6, <3>1, <3>2, <3>3, <3>4 DEF TraversalOK
  <2>5. RemoteOK'
    BY <1>1, <1>6, RemoteStays DEF fabric
  <2> QED BY <2>2, <2>3, <2>4, <2>5 DEF IInv
<1>7. CASE Traverse(stack, remote) /\ UNCHANGED <<remote, probed>>
  <2>1. RemoteOK'
    BY <1>1, <1>7, RemoteStays DEF fabric
  <2> QED BY <1>1, <1>2, <1>7, <2>1, TraverseKeeps
<1> QED BY <1>3, <1>5, <1>6, <1>7

(* The call of discover_node in the loop has returned, with a node or      *)
(* without.                                                                *)
LEMMA LoopKeepsIInv == ASSUME IInv, LoopFound \/ LoopLost PROVE IInv'
<1>1. /\ pc = "loop" /\ UNCHANGED fabric /\ UNCHANGED <<fabric, counters, found>> /\ probed' = probed
  BY DEF LoopFound, LoopLost
<1>2. FabricOK /\ NodeInv /\ JobOK /\ QueueOK(stack) /\ probed \in AllPorts \cup {Nowhere}
  BY DEF IInv, GraphInv, NodeInv, TraversalOK
<1>3. CASE LoopFound
  <2>1. /\ job.phase = "found" /\ remote' = Linked(item.port, <<job.node.guid, probed[2]>>)
        /\ Traverse(stack \o Entries(job.node, job.path), remote')
    BY <1>3 DEF LoopFound
  <2>2. /\ job.path = item.path /\ probed = Arrival(cabling, item.path) /\ probed # Nowhere
    BY <1>1 DEF IInv, TraversalOK
  <2>3. probed[1] = job.node.guid
    BY <1>2, <2>1, <2>2 DEF JobOK, LeadsTo
  <2>4. probed = <<job.node.guid, probed[2]>>
    BY <1>2, <2>2, <2>3, PortFacts
  <2>5. remote' = Linked(item.port, probed)
    BY <2>1, <2>4, Zenon
  <2>6. RemoteOK'
    BY <1>1, <2>2, <2>5, RemoteLinked
  <2>7. QueueOK(stack \o Entries(job.node, job.path))
    BY <1>2, <2>1, EntriesOK, QueueConcat
  <2> QED BY <1>1, <1>2, <2>1, <2>6, <2>7, TraverseKeeps
<1>4. CASE LoopLost
  <2>1. Traverse(stack, remote) /\ UNCHANGED remote
    BY <1>4 DEF LoopLost
  <2>2. RemoteOK'
    BY <1>1, <2>1, RemoteStays DEF fabric
  <2> QED BY <1>1, <1>2, <2>1, <2>2, TraverseKeeps
<1> QED BY <1>3, <1>4

(* The first hop: the next port of the first node, or the loop.            *)
LEMMA FirstHopKeepsIInv ==
    ASSUME IInv, pc \in {"root", "first"},
           NEW ports \in Seq(PortRecord), NEW queue, QueueOK(queue), FirstHop(ports, queue)
    PROVE  IInv'
<1>1. /\ UNCHANGED fabric /\ UNCHANGED found /\ UNCHANGED <<fabric, counters, found>>
      /\ remote' = remote /\ probed' = probed
  BY DEF FirstHop
<1>2. probed \in AllPorts \cup {Nowhere}
  BY DEF IInv, TraversalOK
<1>3. RemoteOK'
  BY <1>1, RemoteStays DEF fabric
<1>4. CASE Traverse(queue, remote)
  BY <1>1, <1>2, <1>3, <1>4, TraverseKeeps
<1>5. CASE /\ ports # <<>> /\ pc' = "first"
           /\ job' = Call(FirstHopPath(Head(ports).number))
           /\ first' = Tail(ports) /\ stack' = queue
           /\ UNCHANGED <<switches, hcas, item>>
  <2>1. Head(ports) \in PortRecord /\ Tail(ports) \in Seq(PortRecord)
    BY <1>5
  <2>2. IsRoute(FirstHopPath(Head(ports).number))
    BY <2>1, FirstHopRoute
  <2>3. GraphInv'
    BY <1>1, <1>5, <2>2, CallKeepsGraphInv DEF IInv
  <2>4. ListsOK' /\ PlaceOK'
    BY <1>1, <1>5 DEF IInv, ListsOK, PlaceOK, Call, found
  <2>5. TraversalOK'
    <3>1. QueueOK(stack)'
      BY <1>1, <1>5, SameCables DEF fabric
    <3> QED BY <1>1, <1>2, <1>5, <2>1, <3>1 DEF IInv, TraversalOK
  <2> QED BY <1>3, <2>3, <2>4, <2>5 DEF IInv
<1> QED BY <1>4, <1>5 DEF FirstHop

(* The calls for the root and for the first node behind it have returned.  *)
LEMMA FirstKeepsIInv == ASSUME IInv, RootFound \/ FirstFound \/ FirstLost PROVE IInv'
<1>1. NodeInv /\ JobOK /\ QueueOK(stack) /\ first \in Seq(PortRecord)
  BY DEF IInv, GraphInv, NodeInv, TraversalOK
<1>2. CASE RootFound
  <2>1. pc = "root" /\ job.phase = "found" /\ FirstHop(EligiblePorts(job.node), stack)
    BY <1>2 DEF RootFound
  <2>2. EligiblePorts(job.node) \in Seq(PortRecord)
    BY <1>1, <2>1, EligibleType DEF JobOK
  <2> QED BY <1>1, <2>1, <2>2, FirstHopKeepsIInv
<1>3. CASE FirstFound
  <2>1. /\ pc = "first" /\ job.phase = "found"
        /\ FirstHop(first, stack \o Entries(job.node, job.path))
    BY <1>3 DEF FirstFound
  <2>2. QueueOK(stack \o Entries(job.node, job.path))
    BY <1>1, <2>1, EntriesOK, QueueConcat
  <2> QED BY <1>1, <2>1, <2>2, FirstHopKeepsIInv
<1>4. CASE FirstLost
  BY <1>1, <1>4, FirstHopKeepsIInv DEF FirstLost
<1> QED BY <1>2, <1>3, <1>4

(* The root itself did not answer: the traversal ends.                     *)
LEMMA RootLostKeepsIInv == ASSUME IInv, RootLost PROVE IInv'
<1>1. /\ pc = "root" /\ pc' = "failed" /\ job' = Idle
      /\ UNCHANGED fabric /\ UNCHANGED graph /\ UNCHANGED counters
      /\ UNCHANGED <<stack, first, item, probed>>
  BY DEF RootLost
<1>2. UNCHANGED <<fabric, found, counters>> /\ UNCHANGED <<nodes, remote, switches, hcas>>
  BY <1>1 DEF graph, found
<1>3. GraphInv'
  BY <1>1, <1>2, CallKeepsGraphInv DEF IInv
<1>4. ListsOK' /\ PlaceOK'
  BY <1>1, <1>2 DEF IInv, ListsOK, PlaceOK, Idle
<1>5. TraversalOK'
  BY <1>1, SameCables DEF IInv, TraversalOK, fabric
<1>6. RemoteOK'
  BY <1>1, <1>2, RemoteStays DEF fabric
<1> QED BY <1>3, <1>4, <1>5, <1>6 DEF IInv

(* Every step keeps the invariant, whatever fails and whatever is          *)
(* unplugged.                                                              *)
LEMMA Inductive == IInv /\ [Next]_vars => IInv'
<1> SUFFICES ASSUME IInv, [Next]_vars PROVE IInv'
  OBVIOUS
<1> QED BY StartKeepsIInv, DiscoverKeepsIInv, UnplugKeepsIInv, StutterKeepsIInv, ProbeKeepsIInv,
           LoopKeepsIInv, FirstKeepsIInv, RootLostKeepsIInv
        DEF Next, Progress

-----------------------------------------------------------------------------
(* The invariant that the theorems rest on.                                *)
LEMMA Invariance == Spec => []IInv
BY Initially, Inductive, PTL DEF Spec

(* The state of a discovery stays well typed, and it knows of a call of    *)
(* discover_node exactly when it waits for one.                            *)
THEOREM Types == Spec => []TypeOK
<1>1. IInv => TypeOK
  BY IInvImplies
<1> QED BY Invariance, <1>1, PTL

(* The nodes of a fabric are enumerated once each, and sorted by type,     *)
(* whatever fails and whatever is unplugged meanwhile.                     *)
THEOREM EnumeratedOnce == Spec => []Enumerated
<1>1. IInv => Enumerated
  BY IInvImplies
<1> QED BY Invariance, <1>1, PTL

(* The LID of a switch is that of its port 0, and its ports have it too.   *)
THEOREM LidsPropagated == Spec => []LidPropagated
<1>1. IInv => LidPropagated
  BY IInvImplies
<1> QED BY Invariance, <1>1, PTL

(* As long as nothing is unplugged every gap in the records is counted.    *)
THEOREM GapsCounted == Spec => []GapsAreCounted
<1>1. IInv => GapsAreCounted
  BY IInvImplies
<1> QED BY Invariance, <1>1, PTL

(* In fabrics whose cables are plugged in at both ends every link that is  *)
(* recorded is a cable, and is recorded at both of its ends.               *)
THEOREM LinksAreCables ==
    ASSUME \A cable \in Cablings : IsCabling(cable) PROVE Spec => []LinksTrue
<1>1. IInv => LinksTrue
  BY IInvImplies DEF IInv, GraphInv, NodeInv, FabricOK
<1> QED BY Invariance, <1>1, PTL

(* In any fabric, ports connected again and again included, links follow   *)
(* connections, and those across a private cable are the cable.            *)
THEOREM LinksFollowConnections == Spec => []LinksAsConnected
<1>1. IInv => LinksAsConnected
  BY IInvImplies
<1> QED BY Invariance, <1>1, PTL

-----------------------------------------------------------------------------
(* What the traversal has found, and has left to do, while nothing fails.  *)

(* The level of a switch is the depth of its entries in the stack: those   *)
(* of the root come from a route that leads back to it.                    *)
Level(n) == IF n = Root THEN 1 ELSE DistOf(n)
Near(depth) == \A n \in DOMAIN node_map : DistOf(n) <= depth

(* The switches whose ports get into the stack.                            *)
Looped == \E p \in PortsOf(Root) \cap DOMAIN Cable : Cable[p][1] = Root
Source(n) == IsKnown(n) /\ n \in Switches /\ (n = Root => Looped)

(* The stack is in order of depth, and no node is known that is more than  *)
(* a hop beyond the first of its ports.                                    *)
EntrySees(e) ==
    /\ IsRegular(e.path) /\ Finds(e.path, e.port[1])
    /\ Source(e.port[1]) /\ Depth(e.path) = Level(e.port[1])
QueueSees(queue) ==
    \A i \in DOMAIN queue :
        /\ EntrySees(queue[i]) /\ Near(Depth(queue[i].path) + 1)
        /\ \A j \in DOMAIN queue : i <= j => Depth(queue[i].path) <= Depth(queue[j].path)

(* The current port and the route across it.                               *)
ItemSees(it, queue) ==
    /\ IsRegular(it.path) /\ Source(it.port[1])
    /\ Depth(it.path) = Level(it.port[1]) + 1 /\ Near(Depth(it.path))
    /\ Arrival(Cable, it.path) = IF it.port \in DOMAIN Cable THEN Cable[it.port] ELSE Nowhere
    /\ \A i \in DOMAIN queue : Depth(it.path) <= Depth(queue[i].path) + 1

(* What is left to do for a node: discover_node has been called for it, or *)
(* will be for a port of the root.                                         *)
ToCall(ports, n) == \E i \in DOMAIN ports : Finds(FirstHopPath(ports[i].number), n)
Called(n) == pc \in {"first", "loop"} /\ Finds(job.path, n)
InQueue(queue, p) == \E i \in DOMAIN queue : queue[i].port = p
IsNext(p) == pc \in {"probe", "loop"} /\ item.port = p

(* What has been done: a cable is recorded, and the node behind it known.  *)
Settled(p, links) ==
    p \in DOMAIN links /\ IsKnown(Cable[p][1]) /\ DistOf(Cable[p][1]) <= Level(p[1]) + 1
Neighbour(n) == IsKnown(n) /\ DistOf(n) <= 1
LinksSeen(links) ==
    \A p \in DOMAIN links :
        /\ p \in DOMAIN Cable /\ IsKnown(p[1]) /\ IsKnown(Cable[p][1])
        /\ Traversed(p[1]) \/ Traversed(Cable[p][1])

(* The phases of the traversal, and what each of them knows.               *)
Begun == pc \in {"first", "probe", "loop", "done"}
KnownSees == \A n \in DOMAIN node_map : KnownAt(n)
StackSees ==
    /\ QueueSees(stack)
    /\ pc = "done" => stack = <<>>
    /\ pc \in {"probe", "loop"} => ItemSees(item, stack)
FirstSees ==
    /\ \A i \in DOMAIN first : first[i].number \in 1..NPorts[Root]
    /\ pc \in {"probe", "loop", "done"} => first = <<>>
CallSees ==
    /\ pc \in {"root", "first", "loop"} => JobSees
    /\ pc = "root" => /\ job.path = StartPath /\ stack = <<>> /\ remote = <<>>
                      /\ DOMAIN node_map = IF job.phase = "found" THEN {Root} ELSE {}
    /\ pc = "first" => /\ Near(1) /\ \A i \in DOMAIN stack : Depth(stack[i].path) = 1
                       /\ \E q \in 1..NPorts[Root] : job.path = FirstHopPath(q)
    /\ pc = "loop" => /\ job.path = item.path /\ Arrival(Cable, job.path) # Nowhere
                      /\ IF job.phase = "found" THEN DistOf(job.node.guid) = Depth(job.path)
                         ELSE ~IsKnown(Arrival(Cable, job.path)[1])
RootSees ==
    Begun => /\ IsKnown(Root)
             /\ \A p \in DOMAIN Cable : p[1] = Root =>
                   \/ pc = "first" /\ (Called(Cable[p][1]) \/ ToCall(first, Cable[p][1]))
                   \/ Neighbour(Cable[p][1])
DoneSees ==
    Begun => \A p \in DOMAIN Cable : Traversed(p[1]) =>
                \/ Called(p[1]) \/ ToCall(first, p[1])
                \/ InQueue(stack, p) \/ IsNext(p) \/ Settled(p, remote)

QuietOK ==
    KnownSees /\ StackSees /\ FirstSees /\ CallSees /\ RootSees /\ LinksSeen(remote) /\ DoneSees
QInv == CutOK /\ (quiet => QuietOK)

(* What a node that gets known leaves as it is.                            *)
LEMMA MapGrows ==
    ASSUME UNCHANGED fabric, DOMAIN node_map \subseteq DOMAIN node_map',
           \A n \in DOMAIN node_map : node_map'[n] = node_map[n]
    PROVE  /\ \A n \in DOMAIN node_map : IsKnown(n)' /\ DistOf(n)' = DistOf(n) /\ Level(n)' = Level(n)
           /\ Looped' = Looped
           /\ \A n : Source(n) => Source(n)'
           /\ \A n \in DOMAIN node_map : Traversed(n)' = Traversed(n)
           /\ \A n \in DOMAIN node_map : KnownAt(n) => KnownAt(n)'
           /\ \A e : EntrySees(e) => EntrySees(e)'
           /\ \A p : p[1] \in DOMAIN node_map =>
                 \A links : Settled(p, links) => Settled(p, links)'
           /\ \A n : Neighbour(n) => Neighbour(n)'
           /\ \A links : LinksSeen(links) => LinksSeen(links)'
<1>1. /\ Cable' = Cable /\ Root' = Root /\ RootIsSwitch' = RootIsSwitch
      /\ \A k : Ball(Cable, k)' = Ball(Cable, k)
      /\ \A path : IsRegular(path)' = IsRegular(path)
      /\ \A path, n : Finds(path, n)' = Finds(path, n)
      /\ \A node, last : IsWhole(node, last)' = IsWhole(node, last)
  BY SameFabric
<1>2. \A n \in DOMAIN node_map : IsKnown(n)' /\ DistOf(n)' = DistOf(n)
  BY DEF IsKnown, DistOf
<1>3. \A n \in DOMAIN node_map : Level(n)' = Level(n)
  BY <1>1, <1>2 DEF Level
<1>4. Looped' = Looped
  BY <1>1 DEF Looped
<1>5. \A n : Source(n) => Source(n)'
  BY <1>1, <1>2, <1>4 DEF Source, IsKnown
<1>6. \A n \in DOMAIN node_map : Traversed(n)' = Traversed(n)
  BY <1>1 DEF Traversed, IsKnown
<1>7. \A n \in DOMAIN node_map : KnownAt(n) => KnownAt(n)'
  <2> SUFFICES ASSUME NEW n \in DOMAIN node_map, KnownAt(n) PROVE KnownAt(n)'
    OBVIOUS
  <2>1. DistOf(n)' = DistOf(n) /\ node_map'[n] = node_map[n]
    BY <1>2
  <2>2. \A k : Ball(Cable, k)' = Ball(Cable, k)
    BY <1>1
  <2>3. Ball(Cable, DistOf(n))' = Ball(Cable, DistOf(n))
    BY <2>1, <2>2
  <2>4. IsRegular(node_map[n].path)' /\ IsWhole(node_map[n], NPorts[n])'
    BY <1>1, <2>1 DEF KnownAt
  <2> QED BY <1>1, <2>1, <2>3, <2>4 DEF KnownAt
<1>8. \A e : EntrySees(e) => EntrySees(e)'
  <2> SUFFICES ASSUME NEW e, EntrySees(e) PROVE EntrySees(e)'
    OBVIOUS
  <2>1. e.port[1] \in DOMAIN node_map
    BY DEF EntrySees, Source, IsKnown
  <2> QED BY <1>1, <1>3, <1>5, <2>1 DEF EntrySees
<1>9. \A p : p[1] \in DOMAIN node_map => \A links : Settled(p, links) => Settled(p, links)'
  <2> SUFFICES ASSUME NEW p, p[1] \in DOMAIN node_map, NEW links, Settled(p, links)
               PROVE Settled(p, links)'
    OBVIOUS
  <2>1. Cable[p][1] \in DOMAIN node_map
    BY DEF Settled, IsKnown
  <2>2. DistOf(Cable[p][1])' = DistOf(Cable[p][1]) /\ IsKnown(Cable[p][1])'
    BY <1>1, <1>2, <2>1
  <2>3. Level(p[1])' = Level(p[1])
    BY <1>3
  <2> QED BY <2>2, <2>3 DEF Settled
<1>10. \A n : Neighbour(n) => Neighbour(n)'
  BY <1>2 DEF Neighbour, IsKnown
<1>11. \A links : LinksSeen(links) => LinksSeen(links)'
  <2> SUFFICES ASSUME NEW links, LinksSeen(links), NEW p \in DOMAIN links
               PROVE  /\ p \in DOMAIN Cable' /\ IsKnown(p[1])' /\ IsKnown(Cable[p][1])'
                      /\ Traversed(p[1])' \/ Traversed(Cable[p][1])'
    BY DEF LinksSeen
  <2>1. /\ p \in DOMAIN Cable /\ p[1] \in DOMAIN node_map /\ Cable[p][1] \in DOMAIN node_map
        /\ Traversed(p[1]) \/ Traversed(Cable[p][1])
    BY DEF LinksSeen, IsKnown
  <2>2. PICK far : far = Cable[p][1] /\ far = Cable'[p][1]
    BY <1>1
  <2>3. far \in DOMAIN node_map /\ (Traversed(p[1]) \/ Traversed(far))
    BY <2>1, <2>2
  <2>4. IsKnown(far)' /\ IsKnown(p[1])' /\ (Traversed(p[1])' \/ Traversed(far)')
    BY <1>2, <1>6, <2>1, <2>3
  <2> QED BY <1>1, <2>1, <2>2, <2>4
<1> QED BY <1>2, <1>3, <1>4, <1>5, <1>6, <1>7, <1>8, <1>9, <1>10, <1>11

(* While no node gets known either nothing that is said changes.           *)
LEMMA SameView ==
    ASSUME UNCHANGED fabric, node_map' = node_map
    PROVE  /\ \A n : IsKnown(n)' = IsKnown(n) /\ DistOf(n)' = DistOf(n)
           /\ \A n : Level(n)' = Level(n) /\ Source(n)' = Source(n) /\ Traversed(n)' = Traversed(n)
           /\ \A n : Near(n)' = Near(n)
           /\ \A n : KnownAt(n)' = KnownAt(n)
           /\ \A queue : QueueSees(queue)' = QueueSees(queue)
           /\ \A it, queue : ItemSees(it, queue)' = ItemSees(it, queue)
           /\ \A p, links : Settled(p, links)' = Settled(p, links)
           /\ \A n : Neighbour(n)' = Neighbour(n)
           /\ \A links : LinksSeen(links)' = LinksSeen(links)
           /\ \A ports, n : ToCall(ports, n)' = ToCall(ports, n)
           /\ KnownSees' = KnownSees
<1>1. /\ Cable' = Cable /\ Root' = Root /\ RootIsSwitch' = RootIsSwitch
      /\ \A path : Arrival(Cable, path)' = Arrival(Cable, path)
      /\ \A k : Ball(Cable, k)' = Ball(Cable, k)
      /\ \A path : IsRegular(path)' = IsRegular(path)
      /\ \A path, n : Finds(path, n)' = Finds(path, n)
      /\ \A node, last : IsWhole(node, last)' = IsWhole(node, last)
  BY SameFabric
<1>2. \A n : IsKnown(n)' = IsKnown(n) /\ DistOf(n)' = DistOf(n)
  BY DEF IsKnown, DistOf
<1>3. \A n : Level(n)' = Level(n)
  BY <1>1, <1>2 DEF Level
<1>4. Looped' = Looped
  BY <1>1 DEF Looped
<1>5. \A n : Source(n)' = Source(n)
  BY <1>1, <1>2, <1>4 DEF Source
<1>6. \A n : Traversed(n)' = Traversed(n)
  BY <1>1 DEF Traversed, IsKnown
<1>7. \A n : Near(n)' = Near(n)
  BY <1>2 DEF Near
<1>8. \A n : KnownAt(n)' = KnownAt(n)
  <2> TAKE n
  <2>1. DistOf(n)' = DistOf(n)
    BY <1>2
  <2>2. Ball(Cable, DistOf(n))' = Ball(Cable, DistOf(n))
    BY <2>1, <1>1
  <2>3. IsRegular(node_map[n].path)' = IsRegular(node_map[n].path)
    BY <1>1
  <2>4. IsWhole(node_map[n], NPorts[n])' = IsWhole(node_map[n], NPorts[n])
    BY <1>1
  <2> QED BY <1>1, <2>1, <2>2, <2>3, <2>4 DEF KnownAt
<1>9. \A e : EntrySees(e)' = EntrySees(e)
  BY <1>1, <1>3, <1>5 DEF EntrySees
<1>10. \A queue : QueueSees(queue)' = QueueSees(queue)
  BY <1>7, <1>9 DEF QueueSees
<1>11. \A it, queue : ItemSees(it, queue)' = ItemSees(it, queue)
  BY <1>1, <1>3, <1>5, <1>7 DEF ItemSees
<1>12. \A p, links : Settled(p, links)' = Settled(p, links)
  BY <1>1, <1>2, <1>3 DEF Settled
<1>13. \A n : Neighbour(n)' = Neighbour(n)
  BY <1>2 DEF Neighbour
<1>14. \A links : LinksSeen(links)' = LinksSeen(links)
  BY <1>1, <1>2, <1>6 DEF LinksSeen
<1>15. \A ports, n : ToCall(ports, n)' = ToCall(ports, n)
  BY <1>1 DEF ToCall, FirstHopPath
<1>16. KnownSees' = KnownSees
  BY <1>8 DEF KnownSees
<1> QED BY <1>2, <1>3, <1>5, <1>6, <1>7, <1>8, <1>10, <1>11, <1>12, <1>13, <1>14, <1>15, <1>16

(* A switch that is traversed has room for a hop more at its level.        *)
LEMMA LevelFacts ==
    ASSUME KnownSees, NEW n
    PROVE  /\ IsKnown(n) => /\ DistOf(n) \in Nat /\ Level(n) \in Nat /\ DistOf(n) <= Level(n)
                            /\ Level(n) >= 1 /\ Level(n) <= DistOf(n) + 1
                            /\ DistOf(n) <= Farthest
                            /\ n # Root => Level(n) = DistOf(n)
           /\ Traversed(n) => IsKnown(n) /\ n \in Switches /\ Level(n) < Farthest
           /\ Source(n) /\ DistOf(n) < Farthest => Traversed(n)
<1>1. PathLen \in Nat /\ PathLen >= 2
  BY RouteAssumption
<1>2. IsKnown(n) => KnownAt(n)
  BY DEF KnownSees, IsKnown
<1>3. IsKnown(n) => /\ DistOf(n) \in Nat /\ DistOf(n) <= Farthest
                    /\ HasRoom(node_map[n].path) <=> DistOf(n) < Farthest
  BY <1>2, DepthFacts DEF KnownAt, DistOf, HasRoom
<1>4. IsKnown(n) => (n = Root <=> DistOf(n) = 0)
  BY <1>2 DEF KnownAt
<1>5. IsKnown(n) => /\ DistOf(n) \in Nat /\ Level(n) \in Nat /\ DistOf(n) <= Level(n)
                    /\ Level(n) >= 1 /\ Level(n) <= DistOf(n) + 1
                    /\ DistOf(n) <= Farthest
                    /\ n # Root => Level(n) = DistOf(n)
  BY <1>3, <1>4 DEF Level
<1>6. Traversed(n) => IsKnown(n) /\ n \in Switches /\ Level(n) < Farthest
  <2>1. CASE n = Root
    BY <2>1, <1>1 DEF Traversed, Level, Farthest, RootIsSwitch
  <2>2. CASE n # Root
    BY <2>2, <1>3, <1>5 DEF Traversed
  <2> QED BY <2>1, <2>2
<1>7. Source(n) /\ DistOf(n) < Farthest => Traversed(n)
  BY <1>3 DEF Source, Traversed, Looped
<1> QED BY <1>5, <1>6, <1>7

(* The route across the port of an entry that is taken.                    *)
LEMMA ItemTaken ==
    ASSUME FabricOK, CutOK, IsCabling(cabling), KnownSees,
           NEW e, EntryOK(e), EntrySees(e), HasRoom(e.path), Near(Depth(e.path) + 1),
           NEW rest, \A i \in DOMAIN rest : Depth(e.path) <= Depth(rest[i].path) /\ EntrySees(rest[i])
    PROVE  ItemSees([port |-> e.port, path |-> RouteAcross(e)], rest)
<1> DEFINE path == RouteAcross(e)
           it == [port |-> e.port, path |-> path]
<1>1. e.port \in Ports /\ e.port = <<e.port[1], e.port[2]>> /\ e.port[2] \in 1..255
  <2>1. e.port \in Ports
    BY DEF EntryOK, QueueEntry
  <2>2. e.port \in AllPorts /\ e.port[2] # 0
    BY <2>1, PortFacts
  <2> QED BY <2>1, <2>2, PortFacts
<1>2. /\ IsRegular(e.path) /\ Finds(e.path, e.port[1]) /\ Source(e.port[1])
      /\ Depth(e.path) = Level(e.port[1]) /\ GetHopCount(e.path) + 1 < PathLen
  BY DEF EntrySees, HasRoom
<1>3. Depth(e.path) \in Nat /\ Depth(e.path) >= 1
  BY <1>2, LevelFacts DEF Source
<1>4. e.path # StartPath
  BY <1>3, StartDepth
<1>5. /\ IsRegular(path) /\ Depth(path) = Depth(e.path) + 1
      /\ Arrival(Cable, path) = Across(Cable, Arrival(Cable, e.path), e.port[2])
  BY <1>1, <1>2, <1>4, DepthAcross DEF RouteAcross
<1> HIDE DEF path
<1>6. Across(Cable, Arrival(Cable, e.path), e.port[2]) =
         IF e.port \in DOMAIN Cable THEN Cable[e.port] ELSE Nowhere
  BY <1>1, <1>2 DEF Across, Finds
<1>7. ASSUME NEW i \in DOMAIN rest PROVE Depth(path) <= Depth(rest[i].path) + 1
  <2>1. Depth(e.path) <= Depth(rest[i].path) /\ Depth(rest[i].path) \in Nat
    BY <1>7, DepthFacts DEF EntrySees
  <2> QED BY <2>1, <1>3, <1>5
<1>8. it.port = e.port /\ it.path = path
  OBVIOUS
<1> HIDE DEF it
<1>9. ItemSees(it, rest)
  BY <1>2, <1>5, <1>6, <1>7, <1>8 DEF ItemSees
<1> QED BY <1>9 DEF it, path

(* An entry that is skipped: its cable is recorded, or not to be followed. *)
LEMMA EntrySkipped ==
    ASSUME FabricOK, CutOK, IsCabling(cabling), KnownSees,
           NEW e, EntrySees(e), Near(Depth(e.path) + 1),
           NEW links, LinksSeen(links), ~IsOpen(e, links),
           NEW p \in DOMAIN Cable, Traversed(p[1]), e.port = p
    PROVE  Settled(p, links)
<1>1. p[2] # 0
  BY CablePairs
<1>2. IsRegular(e.path) /\ Depth(e.path) = Level(p[1])
  BY DEF EntrySees
<1>3. Level(p[1]) < Farthest
  BY LevelFacts
<1>4. HasRoom(e.path)
  BY <1>2, <1>3, DepthFacts DEF HasRoom
<1>5. p \in DOMAIN links
  BY <1>1, <1>4 DEF IsOpen
<1>6. IsKnown(Cable[p][1])
  BY <1>5 DEF LinksSeen
<1>7. DistOf(Cable[p][1]) <= Level(p[1]) + 1
  BY <1>2, <1>6 DEF Near, IsKnown
<1> QED BY <1>5, <1>6, <1>7 DEF Settled

(* The next port is taken, or the traversal is over: what is settled stays *)
(* so, and what is skipped is settled.                                     *)
LEMMA TraverseSees ==
    ASSUME FabricOK, CutOK, IsCabling(cabling), UNCHANGED fabric, node_map' = node_map, KnownSees,
           NEW queue, QueueOK(queue), QueueSees(queue),
           NEW links, LinksSeen(links), remote' = links, Traverse(queue, links),
           IsKnown(Root), \A p \in DOMAIN Cable : p[1] = Root => Neighbour(Cable[p][1]),
           \A p \in DOMAIN Cable : Traversed(p[1]) => InQueue(queue, p) \/ Settled(p, links)
    PROVE  QuietOK'
<1> DEFINE open == {i \in DOMAIN queue : IsOpen(queue[i], links)}
<1>1. first' = <<>> /\ job' = Idle
  BY DEF Traverse
<1>2. Cable' = Cable /\ Root' = Root
  BY SameFabric
<1>3. KnownSees' /\ LinksSeen(remote)'
  BY SameView
<1>4. FirstSees'
  BY <1>1 DEF FirstSees
<1>5. RootSees'
  <2>1. IsKnown(Root)' /\ \A p \in DOMAIN Cable' : p[1] = Root' => Neighbour(Cable[p][1])'
    BY <1>2, SameView
  <2> QED BY <2>1 DEF RootSees
<1>6. ASSUME NEW i \in DOMAIN queue, i \notin open, NEW p \in DOMAIN Cable, Traversed(p[1]),
             queue[i].port = p
      PROVE  Settled(p, links)
  <2>1. EntrySees(queue[i]) /\ Near(Depth(queue[i].path) + 1)
    BY DEF QueueSees
  <2> QED BY <2>1, <1>6, EntrySkipped
<1>7. CASE open = {}
  <2>1. pc' = "done" /\ stack' = <<>>
    BY <1>7 DEF Traverse
  <2>2. StackSees' /\ CallSees'
    BY <2>1 DEF StackSees, QueueSees, CallSees
  <2>3. ASSUME NEW p \in DOMAIN Cable, Traversed(p[1]) PROVE Settled(p, links)
    BY <1>6, <1>7, <2>3 DEF InQueue
  <2>4. \A p \in DOMAIN Cable' : Traversed(p[1])' => Settled(p, remote)'
    <3>1. \A p : Traversed(p[1])' = Traversed(p[1]) /\ Settled(p, links)' = Settled(p, links)
      BY SameView
    <3> QED BY <1>2, <2>3, <3>1
  <2>5. DoneSees'
    BY <2>4 DEF DoneSees
  <2> QED BY <1>3, <1>4, <1>5, <2>2, <2>5 DEF QuietOK
<1>8. CASE open # {}
  <2> DEFINE i == Min(open)
             e == queue[i]
  <2>1. /\ pc' = "probe" /\ stack' = SubSeq(queue, i + 1, Len(queue))
        /\ item' = [port |-> e.port, path |-> RouteAcross(e)]
    BY <1>8 DEF Traverse
  <2>2. i \in open /\ \A j \in open : i <= j
    <3>1. open \in SUBSET DOMAIN queue
      OBVIOUS
    <3>2. DOMAIN queue \subseteq Nat
      BY DEF QueueOK
    <3> HIDE DEF open
    <3>3. \E k \in open : \A j \in open : k <= j
      BY <1>8, <3>1, <3>2, LeastNat
    <3> QED BY <3>3 DEF Min
  <2>3. i \in DOMAIN queue /\ HasRoom(e.path)
    BY <2>2 DEF IsOpen
  <2> HIDE DEF i
  <2>4. PICK rest : rest = SubSeq(queue, i + 1, Len(queue))
    OBVIOUS
  <2>5. /\ \A j \in DOMAIN rest : j + i \in DOMAIN queue /\ rest[j] = queue[j + i] /\ j \in Nat
        /\ \A j \in DOMAIN queue : i < j => j - i \in DOMAIN rest /\ rest[j - i] = queue[j]
    <3>1. queue \in Seq(QueueEntry)
      BY DEF QueueOK
    <3>2. \A j \in DOMAIN rest : j + i \in DOMAIN queue /\ rest[j] = queue[j + i] /\ j \in Nat
      BY <2>3, <2>4, <3>1, SMTT(30)
    <3>3. \A j \in DOMAIN queue : i < j => j - i \in DOMAIN rest /\ rest[j - i] = queue[j]
      BY <2>3, <2>4, <3>1, SMTT(30)
    <3> QED BY <3>2, <3>3
  <2>6. EntryOK(e) /\ EntrySees(e) /\ Near(Depth(e.path) + 1) /\ i \in Nat
    BY <2>3 DEF QueueOK, QueueSees
  <2>7. \A j \in DOMAIN rest : Depth(e.path) <= Depth(rest[j].path) /\ EntrySees(rest[j])
    <3> TAKE j \in DOMAIN rest
    <3>1. j + i \in DOMAIN queue /\ rest[j] = queue[j + i] /\ i <= j + i
      BY <2>5, <2>6
    <3> QED BY <3>1, <2>3 DEF QueueSees
  <2>8. QueueSees(rest)
    <3> SUFFICES ASSUME NEW j \in DOMAIN rest
                 PROVE  /\ EntrySees(rest[j]) /\ Near(Depth(rest[j].path) + 1)
                        /\ \A k \in DOMAIN rest :
                              j <= k => Depth(rest[j].path) <= Depth(rest[k].path)
      BY DEF QueueSees
    <3>1. j + i \in DOMAIN queue /\ rest[j] = queue[j + i] /\ j \in Nat
      BY <2>5
    <3>2. ASSUME NEW k \in DOMAIN rest, j <= k PROVE Depth(rest[j].path) <= Depth(rest[k].path)
      <4>1. k + i \in DOMAIN queue /\ rest[k] = queue[k + i] /\ j + i <= k + i
        BY <2>5, <2>6, <3>1, <3>2
      <4> QED BY <3>1, <4>1 DEF QueueSees
    <3>3. EntrySees(rest[j]) /\ Near(Depth(rest[j].path) + 1)
      BY <3>1 DEF QueueSees
    <3> QED BY <3>2, <3>3
  <2>9. PICK it : it = [port |-> e.port, path |-> RouteAcross(e)]
    OBVIOUS
  <2>10. ItemSees(it, rest)
    BY <2>3, <2>6, <2>7, <2>9, ItemTaken
  <2>11. StackSees'
    <3>1. QueueSees(rest)' /\ ItemSees(it, rest)'
      BY <2>8, <2>10, SameView
    <3>2. stack' = rest /\ item' = it
      BY <2>1, <2>4, <2>9
    <3> QED BY <2>1, <3>1, <3>2 DEF StackSees
  <2>12. CallSees'
    BY <2>1 DEF CallSees
  <2>13. ASSUME NEW p \in DOMAIN Cable, Traversed(p[1])
         PROVE  InQueue(rest, p) \/ it.port = p \/ Settled(p, links)
    <3>1. CASE Settled(p, links)
      BY <3>1
    <3>2. ASSUME NEW j \in DOMAIN queue, queue[j].port = p
          PROVE  InQueue(rest, p) \/ it.port = p \/ Settled(p, links)
      <4>0. j \in Nat
        BY DEF QueueOK
      <4>1. CASE i < j
        BY <4>1, <2>5, <3>2 DEF InQueue
      <4>2. CASE i = j
        BY <4>2, <2>9, <3>2
      <4>3. CASE j < i
        <5>1. j \notin open
          BY <2>2, <2>6, <4>0, <4>3
        <5> QED BY <5>1, <1>6, <2>13, <3>2
      <4> QED BY <4>0, <4>1, <4>2, <4>3, <2>6
    <3> QED BY <3>1, <3>2, <2>13 DEF InQueue
  <2>14. \A p \in DOMAIN Cable' : Traversed(p[1])' =>
            InQueue(stack', p) \/ item'.port = p \/ Settled(p, remote)'
    <3>1. \A p : Traversed(p[1])' = Traversed(p[1]) /\ Settled(p, links)' = Settled(p, links)
      BY SameView
    <3>2. stack' = rest /\ item' = it
      BY <2>1, <2>4, <2>9
    <3> QED BY <1>2, <2>13, <3>1, <3>2
  <2>15. DoneSees'
    BY <2>1, <2>14 DEF DoneSees, IsNext, InQueue
  <2> QED BY <1>3, <1>4, <1>5, <2>11, <2>12, <2>15 DEF QuietOK
<1> QED BY <1>7, <1>8

(* The ports followed are ports of the node, and every cabled one is.      *)
LEMMA EligibleCovers ==
    ASSUME FabricOK, CutOK, IsCabling(cabling), NEW node, RecordOK(node)
    PROVE  /\ \A k \in DOMAIN EligiblePorts(node) :
                 EligiblePorts(node)[k].number \in 1..NPorts[node.guid]
           /\ IsWhole(node, NPorts[node.guid]) =>
                 \A p \in DOMAIN Cable : p[1] = node.guid =>
                    \E k \in DOMAIN EligiblePorts(node) : EligiblePorts(node)[k].number = p[2]
<1> DEFINE indices == {i \in DOMAIN node.ports : IsEligible(node.ports[i])}
           ports == EligiblePorts(node)
<1>1. indices \in SUBSET DOMAIN node.ports /\ node.ports \in Seq(PortRecord)
  BY DEF RecordOK, NodeShape
<1>2. \A i \in indices : IsEligible(node.ports[i]) /\ i \in DOMAIN node.ports
  OBVIOUS
<1>3. \A i \in DOMAIN node.ports : IsEligible(node.ports[i]) => i \in indices
  OBVIOUS
<1>4. ports = Kept(node.ports, indices)
  BY DEF EligiblePorts, Filter
<1> HIDE DEF indices, ports
<1>5. /\ \A k \in DOMAIN ports : \E i \in indices : ports[k] = node.ports[i]
      /\ \A i \in indices : \E k \in DOMAIN ports : ports[k] = node.ports[i]
  BY <1>1, <1>4, KeptElements
<1>6. ASSUME NEW k \in DOMAIN ports PROVE ports[k].number \in 1..NPorts[node.guid]
  <2>1. PICK i \in indices : ports[k] = node.ports[i]
    BY <1>5, <1>6
  <2>2. node.ports[i].number \in 0..255 /\ node.ports[i].number # 0
    BY <1>2, PortNumberType DEF RecordOK, IsEligible
  <2>3. node.ports[i].number <= NPorts[node.guid]
    BY <1>2 DEF RecordOK
  <2>4. NPorts[node.guid] \in 1..255
    BY RouteAssumption DEF RecordOK, NodeShape
  <2>5. \A a \in 0..255, b \in 1..255 : a # 0 /\ a <= b => a \in 1..b
    OBVIOUS
  <2>6. node.ports[i].number \in 1..NPorts[node.guid]
    BY <2>2, <2>3, <2>4, <2>5, ZenonT(30)
  <2> QED BY <2>1, <2>6, ZenonT(30)
<1>7. ASSUME IsWhole(node, NPorts[node.guid]), NEW p \in DOMAIN Cable, p[1] = node.guid
      PROVE  \E k \in DOMAIN ports : ports[k].number = p[2]
  <2>1. p = <<node.guid, p[2]>> /\ p[2] \in 1..NPorts[node.guid]
    BY <1>7, CablePairs
  <2>2. PICK i \in DOMAIN node.ports : node.ports[i].number = p[2] /\ IsEligible(node.ports[i])
    BY <1>7, <2>1 DEF IsWhole
  <2> QED BY <2>2, <1>3, <1>5
<1> QED BY <1>6, <1>7 DEF ports

(* What a switch that has been found adds to the stack: an entry for every *)
(* cabled port.                                                            *)
LEMMA EntriesCover ==
    ASSUME FabricOK, CutOK, IsCabling(cabling), NEW node, RecordOK(node), NEW path
    PROVE  LET queue == Entries(node, path)
           IN  /\ \A k \in DOMAIN queue : /\ queue[k].path = path /\ queue[k].port[1] = node.guid
                                          /\ node.guid \in Switches
               /\ node.guid \in Switches /\ IsWhole(node, NPorts[node.guid]) =>
                     \A p \in DOMAIN Cable : p[1] = node.guid => InQueue(queue, p)
<1> DEFINE ports == EligiblePorts(node)
           queue == Entries(node, path)
<1>1. /\ IsWhole(node, NPorts[node.guid]) =>
            \A p \in DOMAIN Cable : p[1] = node.guid =>
               \E k \in DOMAIN ports : ports[k].number = p[2]
  BY EligibleCovers
<1>2. CASE node.guid \in Switches
  <2>1. queue = [k \in DOMAIN ports |-> [port |-> <<node.guid, ports[k].number>>, path |-> path]]
    BY <1>2 DEF Entries
  <2> HIDE DEF ports, queue
  <2>2. /\ DOMAIN queue = DOMAIN ports
        /\ \A k \in DOMAIN ports : /\ queue[k].path = path /\ queue[k].port[1] = node.guid
                                   /\ queue[k].port = <<node.guid, ports[k].number>>
    BY <2>1
  <2>3. ASSUME IsWhole(node, NPorts[node.guid]), NEW p \in DOMAIN Cable, p[1] = node.guid
        PROVE  InQueue(queue, p)
    <3>1. p = <<node.guid, p[2]>>
      BY <2>3, CablePairs
    <3>2. PICK k \in DOMAIN ports : ports[k].number = p[2]
      BY <1>1, <2>3
    <3> QED BY <2>2, <3>1, <3>2 DEF InQueue
  <2> QED BY <1>2, <2>2, <2>3 DEF queue
<1>3. CASE node.guid \notin Switches
  <2>1. queue = <<>>
    BY <1>3 DEF Entries
  <2> HIDE DEF queue
  <2>2. DOMAIN queue = {}
    BY <2>1
  <2> QED BY <2>2, <1>3 DEF queue
<1> QED BY <1>2, <1>3

(* Entries of the greatest depth so far go to the end of the stack.        *)
LEMMA ConcatSees ==
    ASSUME NEW queue, QueueOK(queue), QueueSees(queue), NEW more, QueueOK(more), NEW d \in Nat,
           \A i \in DOMAIN queue : Depth(queue[i].path) <= d, Near(d + 1),
           \A k \in DOMAIN more : EntrySees(more[k]) /\ Depth(more[k].path) = d
    PROVE  /\ QueueSees(queue \o more)
           /\ \A p : InQueue(queue, p) \/ InQueue(more, p) => InQueue(queue \o more, p)
           /\ \A i \in DOMAIN (queue \o more) :
                 \/ i \in DOMAIN queue /\ (queue \o more)[i] = queue[i]
                 \/ \E k \in DOMAIN more : (queue \o more)[i] = more[k]
<1>1. PICK all : all = queue \o more
  OBVIOUS
<1>2. queue \in Seq(QueueEntry) /\ more \in Seq(QueueEntry)
  BY DEF QueueOK
<1>3. /\ DOMAIN all \subseteq Nat
      /\ \A i \in DOMAIN all : \/ i \in DOMAIN queue /\ all[i] = queue[i]
                               \/ /\ i - Len(queue) \in DOMAIN more /\ all[i] = more[i - Len(queue)]
                                  /\ i > Len(queue)
      /\ \A i \in DOMAIN queue : i \in DOMAIN all /\ all[i] = queue[i] /\ i <= Len(queue)
      /\ \A k \in DOMAIN more : k + Len(queue) \in DOMAIN all /\ all[k + Len(queue)] = more[k]
      /\ Len(queue) \in Nat
  BY <1>1, <1>2
<1>4. ASSUME NEW i \in DOMAIN all
      PROVE  EntrySees(all[i]) /\ Near(Depth(all[i].path) + 1)
  BY <1>3, <1>4 DEF QueueSees
<1>5. ASSUME NEW i \in DOMAIN all, NEW j \in DOMAIN all, i <= j
      PROVE  Depth(all[i].path) <= Depth(all[j].path)
  <2>1. CASE j \in DOMAIN queue /\ all[j] = queue[j]
    <3>1. i \in DOMAIN queue /\ all[i] = queue[i]
      <4>1. j <= Len(queue)
        BY <1>3, <2>1
      <4>2. ~(i > Len(queue))
        BY <4>1, <1>3, <1>5
      <4> QED BY <4>2, <1>3
    <3> QED BY <2>1, <3>1, <1>5 DEF QueueSees
  <2>2. ASSUME NEW k \in DOMAIN more, all[j] = more[k]
        PROVE  Depth(all[i].path) <= Depth(all[j].path)
    <3>1. Depth(all[j].path) = d
      BY <2>2
    <3>2. Depth(all[i].path) <= d
      BY <1>3
    <3> QED BY <3>1, <3>2
  <2> QED BY <1>3, <2>1, <2>2
<1>6. QueueSees(all)
  BY <1>4, <1>5 DEF QueueSees
<1>7. ASSUME NEW p, InQueue(queue, p) \/ InQueue(more, p) PROVE InQueue(all, p)
  BY <1>3, <1>7 DEF InQueue
<1>8. \A i \in DOMAIN all : \/ i \in DOMAIN queue /\ all[i] = queue[i]
                            \/ \E k \in DOMAIN more : all[i] = more[k]
  BY <1>3
<1> QED BY <1>1, <1>6, <1>7, <1>8

(* The first hop goes on: every neighbour of the root is known, or there   *)
(* is a port left by which it will be.                                     *)
LEMMA FirstHopSees ==
    ASSUME FabricOK, CutOK, IsCabling(cabling), UNCHANGED fabric, node_map' = node_map, KnownSees,
           NEW ports \in Seq(PortRecord), \A i \in DOMAIN ports : ports[i].number \in 1..NPorts[Root],
           NEW queue, QueueOK(queue), QueueSees(queue),
           \A i \in DOMAIN queue : Depth(queue[i].path) = 1, Near(1),
           LinksSeen(remote), remote' = remote, FirstHop(ports, queue),
           IsKnown(Root),
           \A p \in DOMAIN Cable :
               p[1] = Root => ToCall(ports, Cable[p][1]) \/ Neighbour(Cable[p][1]),
           \A p \in DOMAIN Cable :
               Traversed(p[1]) => ToCall(ports, p[1]) \/ InQueue(queue, p) \/ Settled(p, remote)
    PROVE  QuietOK'
<1>1. CASE ports = <<>>
  <2>1. Traverse(queue, remote)
    BY <1>1 DEF FirstHop
  <2>2. \A n : ~ToCall(ports, n)
    BY <1>1 DEF ToCall
  <2> QED BY <2>1, <2>2, TraverseSees
<1>2. CASE ports # <<>>
  <2>1. /\ pc' = "first" /\ job' = Call(FirstHopPath(Head(ports).number))
        /\ first' = Tail(ports) /\ stack' = queue
    BY <1>2 DEF FirstHop
  <2>2. PICK q : q = Head(ports).number
    OBVIOUS
  <2>3. PICK rest : rest = Tail(ports)
    OBVIOUS
  <2>4. /\ 1 \in DOMAIN ports /\ ports[1] = Head(ports)
        /\ \A i \in DOMAIN rest : i + 1 \in DOMAIN ports /\ rest[i] = ports[i + 1]
        /\ \A i \in DOMAIN ports \ {1} : i - 1 \in DOMAIN rest /\ rest[i - 1] = ports[i]
    <3>1. 1 \in DOMAIN ports /\ ports[1] = Head(ports)
      BY <1>2
    <3>2. \A i \in DOMAIN rest : i + 1 \in DOMAIN ports /\ rest[i] = ports[i + 1]
      BY <1>2, <2>3
    <3>3. \A i \in DOMAIN ports \ {1} : i - 1 \in DOMAIN rest /\ rest[i - 1] = ports[i]
      BY <1>2, <2>3, SMTT(30)
    <3> QED BY <3>1, <3>2, <3>3
  <2>5. q \in 1..NPorts[Root]
    <3>1. 1 \in DOMAIN ports /\ q = ports[1].number
      BY <2>2, <2>4, ZenonT(30)
    <3> QED BY <3>1, ZenonT(30)
  <2>6. Root \in Node /\ NPorts[Root] \in 1..255 /\ root_port # Nowhere
    <3>1. root_port \in AllPorts
      BY CableFacts
    <3>2. Root \in Node /\ root_port # Nowhere
      BY <3>1, PortFacts DEF Root
    <3> QED BY <3>2, RouteAssumption
  <2>7. IsRegular(FirstHopPath(q))
    <3>1. \A m \in 1..255 : 1..m \subseteq 1..255
      OBVIOUS
    <3>2. q \in 1..255
      BY <2>5, <2>6, <3>1, ZenonT(30)
    <3> QED BY <3>2, <2>6, DepthFirst DEF FirstHopPath
  <2>8. \A n : ToCall(ports, n) => Finds(FirstHopPath(q), n) \/ ToCall(rest, n)
    BY <2>2, <2>4 DEF ToCall
  <2>9. Cable' = Cable /\ Root' = Root /\ RootIsSwitch' = RootIsSwitch
    BY SameFabric
  <2>10. /\ job'.phase = "nodeInfo" /\ job'.path = FirstHopPath(q)
         /\ FirstHopPath(q)' = FirstHopPath(q)
    <3>1. FirstHopPath(q)' = FirstHopPath(q)
      BY <2>9 DEF FirstHopPath
    <3> QED BY <2>1, <2>2, <3>1 DEF Call
  <2>11. KnownSees' /\ LinksSeen(remote)' /\ QueueSees(stack)' /\ Near(1)'
    BY <2>1, SameView
  <2>12. StackSees'
    BY <2>1, <2>11 DEF StackSees
  <2>13. FirstSees'
    <3>1. ASSUME NEW i \in DOMAIN rest PROVE rest[i].number \in 1..NPorts[Root]
      BY <2>4
    <3> QED BY <2>1, <2>3, <2>9, <3>1 DEF FirstSees
  <2>14. CallSees'
    <3>1. JobSees'
      <4>1. \A path : IsRegular(path)' = IsRegular(path)
        BY SameFabric
      <4>2. IsRegular(job.path)'
        BY <4>1, <2>7, <2>10
      <4> QED BY <4>2, <2>10 DEF JobSees
    <3>2. \E k \in 1..NPorts[Root'] : job'.path = FirstHopPath(k)'
      BY <2>5, <2>9, <2>10
    <3>3. \A i \in DOMAIN stack' : Depth(stack'[i].path) = 1
      BY <2>1
    <3> QED BY <2>1, <2>11, <3>1, <3>2, <3>3 DEF CallSees
  <2>15. \A n : Finds(FirstHopPath(q), n) => Called(n)'
    <3>1. \A path, n : Finds(path, n)' = Finds(path, n)
      BY SameFabric
    <3> QED BY <2>1, <2>10, <3>1 DEF Called
  <2>16. \A n : ToCall(ports, n) => Called(n)' \/ ToCall(first, n)'
    <3>1. \A n : ToCall(rest, n)' = ToCall(rest, n)
      BY SameView
    <3>2. first' = rest
      BY <2>1, <2>3
    <3>3. \A n : ToCall(first, n)' = ToCall(rest, n)
      BY <3>1, <3>2 DEF ToCall
    <3> QED BY <2>8, <2>15, <3>3
  <2>17. RootSees'
    <3>1. IsKnown(Root)' /\ \A n : Neighbour(n)' = Neighbour(n)
      BY <2>9, SameView
    <3>2. \A p \in DOMAIN Cable' : p[1] = Root' =>
             \/ Called(Cable[p][1])' \/ ToCall(first, Cable[p][1])'
             \/ Neighbour(Cable[p][1])'
      BY <2>9, <2>16, <3>1
    <3> QED BY <2>1, <3>1, <3>2 DEF RootSees
  <2>18. DoneSees'
    <3>1. \A p : Traversed(p[1])' = Traversed(p[1]) /\ Settled(p, remote)' = Settled(p, remote)
      BY SameView
    <3>2. \A p \in DOMAIN Cable' : Traversed(p[1])' =>
             Called(p[1])' \/ ToCall(first, p[1])' \/ InQueue(stack, p)' \/ Settled(p, remote)'
      BY <2>1, <2>9, <2>16, <3>1 DEF InQueue
    <3> QED BY <3>2 DEF DoneSees
  <2> QED BY <2>11, <2>12, <2>13, <2>14, <2>17, <2>18 DEF QuietOK
<1> QED BY <1>1, <1>2

(* A cable that is recorded is settled, and what was settled stays so.     *)
LEMMA LinkedSees ==
    ASSUME FabricOK, CutOK, IsCabling(cabling), MapOK, KnownSees, LinksSeen(remote),
           NEW queue, ItemSees(item, queue),
           NEW port, port = Arrival(Cable, item.path), port # Nowhere, IsKnown(port[1])
    PROVE  /\ LinksSeen(Linked(item.port, port)) /\ Settled(item.port, Linked(item.port, port))
           /\ \A p : Settled(p, remote) => Settled(p, Linked(item.port, port))
<1> DEFINE links == Linked(item.port, port)
<1>1. item.port \in DOMAIN Cable /\ port = Cable[item.port]
  BY DEF ItemSees
<1>2. /\ port \in DOMAIN Cable /\ Cable[port] = item.port /\ port = <<port[1], port[2]>>
      /\ port[2] \in 1..NPorts[port[1]]
  BY <1>1, CablePairs
<1>3. port[2] \in PortNumbers(node_map[port[1]])
  <2>1. IsWhole(node_map[port[1]], NPorts[port[1]]) /\ node_map[port[1]].guid = port[1]
    BY DEF KnownSees, KnownAt, MapOK, IsKnown
  <2>2. <<node_map[port[1]].guid, port[2]>> \in DOMAIN Cable
    BY <1>2, <2>1
  <2>3. \E i \in DOMAIN node_map[port[1]].ports : node_map[port[1]].ports[i].number = port[2]
    BY <1>2, <2>1, <2>2 DEF IsWhole
  <2> QED BY <2>3 DEF PortNumbers
<1>4. DOMAIN links = DOMAIN remote \cup {item.port, port}
  BY <1>3 DEF Linked, Put
<1> HIDE DEF links
<1>5. Traversed(item.port[1]) /\ IsKnown(item.port[1])
  <2>1. Source(item.port[1]) /\ Depth(item.path) = Level(item.port[1]) + 1 /\ IsRegular(item.path)
    BY DEF ItemSees
  <2>2. IsKnown(item.port[1])
    BY <2>1 DEF Source
  <2>3. Depth(item.path) <= Farthest
    BY <2>1, DepthFacts
  <2>4. /\ DistOf(item.port[1]) \in Nat /\ Level(item.port[1]) \in Nat
        /\ DistOf(item.port[1]) <= Level(item.port[1])
    BY <2>2, LevelFacts
  <2>5. DistOf(item.port[1]) < Farthest
    BY <2>1, <2>3, <2>4, RouteAssumption DEF Farthest
  <2> QED BY <2>1, <2>2, <2>5, LevelFacts
<1>6. LinksSeen(links)
  BY <1>1, <1>2, <1>4, <1>5 DEF LinksSeen
<1>7. Settled(item.port, links)
  <2>1. Near(Depth(item.path)) /\ Depth(item.path) = Level(item.port[1]) + 1
    BY DEF ItemSees
  <2>2. DistOf(port[1]) <= Level(item.port[1]) + 1
    BY <2>1 DEF Near, IsKnown
  <2> QED BY <1>1, <1>4, <2>2 DEF Settled
<1>8. \A p : Settled(p, remote) => Settled(p, links)
  BY <1>4 DEF Settled
<1> QED BY <1>6, <1>7, <1>8 DEF links

(* What the loop has when it gets an answer.                               *)
LEMMA LoopSees ==
    ASSUME IInv, QuietOK, pc \in {"probe", "loop"}
    PROVE  /\ NodeInv /\ FabricOK /\ MapOK /\ KnownSees /\ QueueOK(stack) /\ QueueSees(stack)
           /\ LinksSeen(remote) /\ ItemSees(item, stack)
           /\ IsKnown(Root) /\ \A p \in DOMAIN Cable : p[1] = Root => Neighbour(Cable[p][1])
           /\ \A p \in DOMAIN Cable : Traversed(p[1]) =>
                 \/ pc = "loop" /\ Finds(job.path, p[1])
                 \/ InQueue(stack, p) \/ item.port = p \/ Settled(p, remote)
<1>1. NodeInv /\ FabricOK /\ MapOK /\ QueueOK(stack)
  BY DEF IInv, GraphInv, NodeInv, TraversalOK
<1>2. KnownSees /\ QueueSees(stack) /\ LinksSeen(remote) /\ ItemSees(item, stack) /\ first = <<>>
  BY DEF QuietOK, StackSees, FirstSees
<1>3. \A n : ~ToCall(first, n)
  BY <1>2 DEF ToCall
<1>4. IsKnown(Root) /\ \A p \in DOMAIN Cable : p[1] = Root => Neighbour(Cable[p][1])
  BY DEF QuietOK, RootSees, Begun
<1>5. \A p \in DOMAIN Cable : Traversed(p[1]) =>
         \/ pc = "loop" /\ Finds(job.path, p[1])
         \/ InQueue(stack, p) \/ item.port = p \/ Settled(p, remote)
  BY <1>3 DEF QuietOK, DoneSees, Begun, Called, IsNext
<1> QED BY <1>1, <1>2, <1>4, <1>5

(* The loop's own NodeInfo: the cable is recorded, there is none, or the   *)
(* node is to be discovered.                                               *)
LEMMA ProbeSees ==
    ASSUME IInv, QInv, IsCabling(cabling), Probe, quiet' PROVE QuietOK'
<1>1. /\ pc = "probe" /\ UNCHANGED fabric /\ node_map' = node_map
  BY DEF Probe, found
<1>2. PICK port : port = Arrival(Cable, item.path)
  OBVIOUS
<1>3. PICK outcome \in Outcome(item.path) :
         /\ Note(outcome)
         /\ \/ /\ outcome.kind = "Ok" /\ IsKnown(port[1])
               /\ remote' = Linked(item.port, port)
               /\ Traverse(stack, remote')
            \/ /\ outcome.kind = "Ok" /\ ~IsKnown(port[1])
               /\ pc' = "loop" /\ job' = Call(item.path)
               /\ UNCHANGED <<remote, switches, hcas, stack, first, item>>
            \/ /\ outcome.kind # "Ok" /\ Traverse(stack, remote) /\ remote' = remote
  BY <1>2 DEF Probe
<1>4. quiet /\ (outcome.kind = "Ok" <=> port # Nowhere)
  BY <1>2, <1>3, QuietOutcome
<1>5. QuietOK /\ CutOK
  BY <1>4 DEF QInv
<1>6. /\ FabricOK /\ MapOK /\ KnownSees /\ QueueOK(stack) /\ QueueSees(stack)
      /\ LinksSeen(remote) /\ ItemSees(item, stack)
      /\ IsKnown(Root) /\ \A p \in DOMAIN Cable : p[1] = Root => Neighbour(Cable[p][1])
      /\ \A p \in DOMAIN Cable : Traversed(p[1]) =>
            InQueue(stack, p) \/ item.port = p \/ Settled(p, remote)
  BY <1>1, <1>5, LoopSees
<1>7. CASE /\ outcome.kind = "Ok" /\ IsKnown(port[1]) /\ remote' = Linked(item.port, port)
           /\ Traverse(stack, remote')
  <2>1. PICK links : links = Linked(item.port, port)
    OBVIOUS
  <2>2. /\ LinksSeen(links) /\ Settled(item.port, links)
        /\ \A p : Settled(p, remote) => Settled(p, links)
    BY <1>2, <1>4, <1>5, <1>6, <1>7, <2>1, LinkedSees
  <2>3. remote' = links /\ Traverse(stack, links)
    BY <1>7, <2>1
  <2>4. \A p \in DOMAIN Cable : Traversed(p[1]) => InQueue(stack, p) \/ Settled(p, links)
    BY <1>6, <2>2
  <2> QED BY <1>1, <1>5, <1>6, <2>2, <2>3, <2>4, TraverseSees
<1>8. CASE outcome.kind # "Ok" /\ Traverse(stack, remote) /\ remote' = remote
  <2>1. item.port \notin DOMAIN Cable
    <3>1. port = Nowhere
      BY <1>4, <1>8
    <3>2. \A p \in DOMAIN Cable : Cable[p] # Nowhere
      BY <1>5, <1>6, CablePairs, PortFacts
    <3> QED BY <3>1, <3>2, <1>2, <1>6 DEF ItemSees
  <2>2. \A p \in DOMAIN Cable : Traversed(p[1]) => InQueue(stack, p) \/ Settled(p, remote)
    BY <1>6, <2>1
  <2> QED BY <1>1, <1>5, <1>6, <1>8, <2>2, TraverseSees
<1>9. CASE /\ outcome.kind = "Ok" /\ ~IsKnown(port[1]) /\ pc' = "loop" /\ job' = Call(item.path)
           /\ UNCHANGED <<remote, switches, hcas, stack, first, item>>
  <2>1. /\ remote' = remote /\ stack' = stack /\ first' = first /\ item' = item
        /\ job'.phase = "nodeInfo" /\ job'.path = item.path /\ pc' = "loop"
    BY <1>9 DEF Call
  <2>2. Cable' = Cable /\ Root' = Root
    BY <1>1, SameFabric
  <2>3. KnownSees' /\ LinksSeen(remote)'
    <3>1. LinksSeen(remote)' <=> LinksSeen(remote)
      BY <1>1, <2>1, SameView
    <3> QED BY <1>1, <1>6, <3>1, SameView
  <2>4. StackSees'
    <3>1. QueueSees(stack)' /\ ItemSees(item, stack)'
      BY <1>1, <1>6, <2>1, SameView
    <3> QED BY <2>1, <3>1 DEF StackSees
  <2>5. FirstSees'
    BY <1>1, <1>5, <2>1, <2>2 DEF FirstSees, QuietOK
  <2>6. CallSees'
    <3>1. JobSees'
      <4>1. \A path : IsRegular(path)' = IsRegular(path)
        BY <1>1, SameFabric
      <4>2. IsRegular(job.path)'
        BY <4>1, <1>6, <2>1 DEF ItemSees
      <4> QED BY <4>2, <2>1 DEF JobSees
    <3>2. Arrival(Cable, item.path)' = port
      <4>1. \A path : Arrival(Cable, path)' = Arrival(Cable, path)
        BY <1>1, SameFabric
      <4> QED BY <4>1, <1>2, <2>1
    <3>3. Arrival(Cable, job.path)' = port
      BY <2>1, <3>2
    <3>4. ~IsKnown(port[1])'
      BY <1>1, <1>9, SameView
    <3>5. ~IsKnown(Arrival(Cable, job.path)[1])'
      BY <3>3, <3>4
    <3>6. port # Nowhere
      BY <1>4, <1>9
    <3> QED BY <2>1, <3>1, <3>3, <3>5, <3>6 DEF CallSees
  <2>7. RootSees'
    <3>1. \A n : IsKnown(n)' = IsKnown(n) /\ Neighbour(n)' = Neighbour(n)
      BY <1>1, SameView
    <3> QED BY <1>6, <2>2, <3>1 DEF RootSees
  <2>8. DoneSees'
    <3>1. \A p : Traversed(p[1])' = Traversed(p[1])
      BY <1>1, SameView
    <3>2. \A p : Settled(p, remote)' = Settled(p, remote)
      BY <1>1, <2>1, SameView
    <3>3. \A p \in DOMAIN Cable' : Traversed(p[1])' =>
             InQueue(stack, p)' \/ item'.port = p \/ Settled(p, remote)'
      BY <1>6, <2>1, <2>2, <3>1, <3>2 DEF InQueue
    <3> QED BY <2>1, <3>3 DEF DoneSees, IsNext
  <2> QED BY <2>3, <2>4, <2>5, <2>6, <2>7, <2>8 DEF QuietOK
<1> QED BY <1>3, <1>7, <1>8, <1>9

(* What has been found by the loop comes after all that is in the stack.   *)
LEMMA FoundEntries ==
    ASSUME NodeInv, CutOK, IsCabling(cabling), KnownSees, job.phase = "found", JobSees
    PROVE  LET node == job.node
               more == Entries(node, job.path)
           IN  /\ RecordOK(node) /\ IsKnown(node.guid) /\ QueueOK(more)
               /\ Finds(job.path, node.guid) /\ IsRegular(job.path)
               /\ node.guid \in Switches =>
                     \A p \in DOMAIN Cable : p[1] = node.guid => InQueue(more, p)
               /\ (node.guid = Root => Looped) /\ Depth(job.path) = Level(node.guid) =>
                     \A k \in DOMAIN more : EntrySees(more[k]) /\ Depth(more[k].path) = Depth(job.path)
<1> DEFINE node == job.node
           more == Entries(node, job.path)
<1>1. /\ RecordOK(node) /\ IsKnown(node.guid) /\ node = node_map[node.guid]
      /\ Finds(job.path, node.guid) /\ IsRegular(job.path) /\ FabricOK
  BY DEF JobSees, NodeInv, JobOK, IsKnown
<1>2. QueueOK(more)
  BY EntriesOK
<1>3. IsWhole(node, NPorts[node.guid])
  <2>1. KnownAt(node.guid)
    BY <1>1 DEF KnownSees, IsKnown
  <2> QED BY <1>1, <2>1 DEF KnownAt
<1>4. /\ \A k \in DOMAIN more : /\ more[k].path = job.path /\ more[k].port[1] = node.guid
                                /\ node.guid \in Switches
      /\ node.guid \in Switches =>
            \A p \in DOMAIN Cable : p[1] = node.guid => InQueue(more, p)
  BY <1>1, <1>3, EntriesCover
<1> HIDE DEF more
<1>5. ASSUME node.guid = Root => Looped, Depth(job.path) = Level(node.guid), NEW k \in DOMAIN more
      PROVE  EntrySees(more[k]) /\ Depth(more[k].path) = Depth(job.path)
  BY <1>1, <1>4, <1>5 DEF EntrySees, Source
<1> QED BY <1>1, <1>2, <1>4, <1>5 DEF more

(* discover_node returns to the loop with a node.                          *)
LEMMA LoopFoundSees ==
    ASSUME IInv, QInv, IsCabling(cabling), LoopFound, quiet' PROVE QuietOK'
<1>1. /\ pc = "loop" /\ job.phase = "found" /\ UNCHANGED fabric /\ node_map' = node_map /\ quiet
      /\ remote' = Linked(item.port, <<job.node.guid, probed[2]>>)
      /\ Traverse(stack \o Entries(job.node, job.path), remote')
  BY DEF LoopFound, found, ghosts
<1>2. QuietOK /\ CutOK /\ JobSees
  BY <1>1 DEF QInv, QuietOK, CallSees
<1>3. /\ NodeInv /\ FabricOK /\ MapOK /\ KnownSees /\ QueueOK(stack) /\ QueueSees(stack)
      /\ LinksSeen(remote) /\ ItemSees(item, stack)
      /\ IsKnown(Root) /\ \A p \in DOMAIN Cable : p[1] = Root => Neighbour(Cable[p][1])
      /\ \A p \in DOMAIN Cable : Traversed(p[1]) =>
            Finds(job.path, p[1]) \/ InQueue(stack, p) \/ item.port = p \/ Settled(p, remote)
  BY <1>1, <1>2, LoopSees
<1>4. PICK guid : guid = job.node.guid
  OBVIOUS
<1>5. PICK more : more = Entries(job.node, job.path)
  OBVIOUS
<1>6. /\ job.path = item.path /\ probed = Arrival(cabling, item.path) /\ probed # Nowhere
      /\ probed \in AllPorts \cup {Nowhere}
      /\ Arrival(Cable, job.path) # Nowhere /\ DistOf(guid) = Depth(job.path)
  BY <1>1, <1>2, <1>4 DEF IInv, TraversalOK, QuietOK, CallSees
<1>7. probed = Arrival(Cable, item.path) /\ IsKnown(guid)
  <2>1. Arrival(Cable, item.path) = Arrival(cabling, item.path)
    BY <1>3, <1>6, Reached
  <2> QED BY <1>1, <1>2, <1>3, <1>4, <1>6, <2>1, FoundEntries
<1>8. Finds(job.path, guid)
  BY <1>1, <1>2, <1>4 DEF JobSees
<1>9. probed[1] = guid /\ probed = <<guid, probed[2]>>
  BY <1>6, <1>7, <1>8, PortFacts DEF Finds
<1>10. PICK d : d = Depth(item.path)
  OBVIOUS
<1>11. /\ d \in Nat /\ d >= 2 /\ Near(d)
       /\ \A i \in DOMAIN stack : d <= Depth(stack[i].path) + 1
  <2>1. IsKnown(item.port[1]) /\ d = Level(item.port[1]) + 1
    BY <1>3, <1>10 DEF ItemSees, Source
  <2>2. Level(item.port[1]) \in Nat /\ Level(item.port[1]) >= 1
    BY <1>3, <2>1, LevelFacts
  <2> QED BY <1>3, <1>10, <2>1, <2>2 DEF ItemSees
<1>12. guid # Root /\ Level(guid) = d
  <2>1. KnownAt(guid)
    BY <1>3, <1>7 DEF KnownSees, IsKnown
  <2>2. guid # Root
    BY <2>1, <1>6, <1>10, <1>11 DEF KnownAt
  <2> QED BY <2>2, <1>6, <1>10 DEF Level
<1>13. /\ QueueOK(more)
       /\ guid \in Switches => \A p \in DOMAIN Cable : p[1] = guid => InQueue(more, p)
       /\ \A k \in DOMAIN more : EntrySees(more[k]) /\ Depth(more[k].path) = d
  <2>1. Depth(job.path) = d
    BY <1>6, <1>10
  <2> QED BY <1>1, <1>2, <1>3, <1>4, <1>5, <1>12, <2>1, FoundEntries
<1>14. \A i \in DOMAIN stack : Depth(stack[i].path) <= d
  <2> TAKE i \in DOMAIN stack
  <2>1. EntrySees(stack[i])
    BY <1>3 DEF QueueSees
  <2>2. IsKnown(stack[i].port[1]) /\ Depth(stack[i].path) = Level(stack[i].port[1])
    BY <2>1 DEF EntrySees, Source
  <2>3. DistOf(stack[i].port[1]) <= d
    BY <2>2, <1>11 DEF Near, IsKnown
  <2> QED BY <2>2, <2>3, <1>11 DEF Level
<1>15. Near(d + 1)
  <2>1. \A n \in DOMAIN node_map : DistOf(n) <= d /\ DistOf(n) \in Nat
    BY <1>3, <1>11, LevelFacts DEF Near, IsKnown
  <2> QED BY <2>1, <1>11 DEF Near
<1>16. PICK queue : queue = stack \o more
  OBVIOUS
<1>17. /\ QueueSees(queue) /\ QueueOK(queue)
       /\ \A p : InQueue(stack, p) \/ InQueue(more, p) => InQueue(queue, p)
  <2>1. QueueOK(queue)
    BY <1>3, <1>13, <1>16, QueueConcat
  <2> QED BY <1>3, <1>11, <1>13, <1>14, <1>15, <1>16, <2>1, ConcatSees
<1>18. PICK links : links = Linked(item.port, probed)
  OBVIOUS
<1>19. /\ LinksSeen(links) /\ Settled(item.port, links)
       /\ \A p : Settled(p, remote) => Settled(p, links)
  BY <1>2, <1>3, <1>6, <1>7, <1>9, <1>18, LinkedSees
<1>20. remote' = links /\ Traverse(queue, links)
  <2>1. remote' = links
    BY <1>1, <1>4, <1>9, <1>18
  <2> QED BY <2>1, <1>1, <1>5, <1>16
<1>21. \A p \in DOMAIN Cable : Traversed(p[1]) => InQueue(queue, p) \/ Settled(p, links)
  <2> SUFFICES ASSUME NEW p \in DOMAIN Cable, Traversed(p[1])
               PROVE  InQueue(queue, p) \/ Settled(p, links)
    OBVIOUS
  <2>1. CASE Finds(job.path, p[1])
    <3>1. p[1] = guid /\ guid \in Switches
      BY <2>1, <1>8 DEF Finds, Traversed
    <3> QED BY <3>1, <1>13, <1>17
  <2>2. CASE InQueue(stack, p) \/ item.port = p \/ Settled(p, remote)
    BY <2>2, <1>17, <1>19
  <2> QED BY <1>3, <2>1, <2>2
<1> QED BY <1>1, <1>2, <1>3, <1>17, <1>19, <1>20, <1>21, TraverseSees

(* The loop's call is not lost while nothing fails.                        *)
LEMMA LoopLostSees ==
    ASSUME IInv, QInv, LoopLost, quiet' PROVE FALSE
<1>1. pc = "loop" /\ job.phase = "lost" /\ quiet
  BY DEF LoopLost, ghosts
<1>2. CallSees
  BY <1>1 DEF QInv, QuietOK
<1> QED BY <1>1, <1>2 DEF CallSees, JobSees

(* A first hop leads across the cable of its port.                         *)
LEMMA FirstHopLeads ==
    ASSUME FabricOK, NEW q \in 1..NPorts[Root]
    PROVE  /\ IsRegular(FirstHopPath(q)) /\ Depth(FirstHopPath(q)) = 1
           /\ Arrival(Cable, FirstHopPath(q)) =
                 IF <<Root, q>> \in DOMAIN Cable THEN Cable[<<Root, q>>] ELSE Nowhere
<1>1. Root \in Node /\ NPorts[Root] \in 1..255 /\ root_port # Nowhere
  <2>1. root_port \in AllPorts
    BY CableFacts
  <2>2. Root \in Node /\ root_port # Nowhere
    BY <2>1, PortFacts DEF Root
  <2> QED BY <2>2, RouteAssumption
<1>2. \A m \in 1..255 : 1..m \subseteq 1..255
  OBVIOUS
<1>3. q \in 1..255
  BY <1>1, <1>2, ZenonT(30)
<1>4. /\ IsRegular(FirstHopPath(q)) /\ Depth(FirstHopPath(q)) = 1
      /\ Arrival(Cable, FirstHopPath(q)) = Across(Cable, root_port, q)
  BY <1>1, <1>3, DepthFirst DEF FirstHopPath
<1> QED BY <1>1, <1>4 DEF Across, Root

(* The first node has been found: all of its neighbours will be called for.*)
LEMMA RootFoundSees ==
    ASSUME IInv, QInv, IsCabling(cabling), RootFound, quiet' PROVE QuietOK'
<1>1. /\ pc = "root" /\ job.phase = "found" /\ UNCHANGED fabric /\ node_map' = node_map /\ quiet
      /\ remote' = remote /\ FirstHop(EligiblePorts(job.node), stack)
  BY DEF RootFound, FirstHop, found, ghosts
<1>2. QuietOK /\ CutOK /\ JobSees /\ KnownSees
  BY <1>1 DEF QInv, QuietOK, CallSees
<1>3. NodeInv /\ FabricOK /\ MapOK /\ JobOK
  BY DEF IInv, GraphInv, NodeInv
<1>4. stack = <<>> /\ remote = <<>> /\ DOMAIN node_map = {Root}
  BY <1>1, <1>2 DEF QuietOK, CallSees
<1>5. job.node.guid = Root /\ job.node = node_map[Root] /\ IsKnown(Root) /\ RecordOK(job.node)
  BY <1>1, <1>2, <1>3, <1>4 DEF JobOK, JobSees, IsKnown
<1>6. KnownAt(Root)
  BY <1>2, <1>4 DEF KnownSees
<1>7. PICK ports : ports = EligiblePorts(job.node)
  OBVIOUS
<1>8. /\ ports \in Seq(PortRecord)
      /\ \A i \in DOMAIN ports : ports[i].number \in 1..NPorts[Root]
      /\ \A p \in DOMAIN Cable : p[1] = Root => \E k \in DOMAIN ports : ports[k].number = p[2]
  <2>1. IsWhole(job.node, NPorts[Root])
    BY <1>5, <1>6 DEF KnownAt
  <2>2. ports \in Seq(PortRecord)
    BY <1>5, <1>7, EligibleType
  <2> QED BY <1>2, <1>3, <1>5, <1>7, <2>1, <2>2, EligibleCovers
<1>9. ASSUME NEW p \in DOMAIN Cable, p[1] = Root PROVE ToCall(ports, Cable[p][1])
  <2>1. PICK k \in DOMAIN ports : ports[k].number = p[2]
    BY <1>8, <1>9
  <2>2. p = <<Root, p[2]>> /\ p[2] \in 1..NPorts[Root] /\ Cable[p] # Nowhere
    BY <1>2, <1>3, <1>9, CablePairs, PortFacts
  <2>3. Arrival(Cable, FirstHopPath(p[2])) = Cable[p]
    BY <1>3, <2>2, FirstHopLeads
  <2>4. Finds(FirstHopPath(ports[k].number), Cable[p][1])
    BY <2>1, <2>2, <2>3 DEF Finds
  <2> QED BY <2>4 DEF ToCall
<1>10. ASSUME NEW p \in DOMAIN Cable, Traversed(p[1]) PROVE ToCall(ports, p[1])
  <2>1. p[1] = Root
    BY <1>4, <1>10 DEF Traversed, IsKnown
  <2>2. PICK q \in DOMAIN Cable : q[1] = Root /\ Cable[q][1] = Root
    <3>1. PICK q \in PortsOf(Root) \cap DOMAIN Cable : Cable[q][1] = Root
      BY <1>10, <2>1 DEF Traversed
    <3> QED BY <3>1 DEF PortsOf
  <2> QED BY <2>1, <2>2, <1>9
<1>11. QueueOK(stack) /\ QueueSees(stack) /\ LinksSeen(remote)
  <2>1. DOMAIN stack = {} /\ DOMAIN remote = {}
    BY <1>4
  <2> QED BY <2>1, <1>4, QueueEmpty DEF QueueSees, LinksSeen
<1>12. Near(1)
  <2>1. DistOf(Root) = 0
    BY <1>6 DEF KnownAt
  <2> QED BY <2>1, <1>4 DEF Near
<1>13. \A i \in DOMAIN stack : Depth(stack[i].path) = 1
  BY <1>4
<1>14. FirstHop(ports, stack)
  BY <1>1, <1>7
<1> QED BY <1>1, <1>2, <1>3, <1>5, <1>8, <1>9, <1>10, <1>11, <1>12, <1>13, <1>14, FirstHopSees

(* The first node answers while nothing fails.                             *)
LEMMA RootLostSees ==
    ASSUME IInv, QInv, RootLost, quiet' PROVE FALSE
<1>1. pc = "root" /\ job.phase = "lost" /\ quiet /\ FabricOK
  BY DEF RootLost, ghosts, IInv, GraphInv, NodeInv
<1>2. job.path = StartPath /\ Arrival(Cable, job.path) = Nowhere
  BY <1>1 DEF QInv, QuietOK, CallSees, JobSees
<1>3. Arrival(Cable, StartPath) = root_port
  BY StartRoute
<1>4. root_port # Nowhere
  BY <1>1, CableFacts, PortFacts
<1> QED BY <1>2, <1>3, <1>4

(* What the calls for the neighbours have when they return.                *)
LEMMA FirstPhase ==
    ASSUME IInv, QuietOK, pc = "first"
    PROVE  /\ NodeInv /\ FabricOK /\ MapOK /\ KnownSees /\ QueueOK(stack) /\ QueueSees(stack)
           /\ LinksSeen(remote) /\ JobSees /\ Near(1) /\ first \in Seq(PortRecord)
           /\ \A i \in DOMAIN first : first[i].number \in 1..NPorts[Root]
           /\ \A i \in DOMAIN stack : Depth(stack[i].path) = 1
           /\ \E q \in 1..NPorts[Root] : job.path = FirstHopPath(q)
           /\ IsKnown(Root)
           /\ \A p \in DOMAIN Cable : p[1] = Root =>
                 \/ Finds(job.path, Cable[p][1]) \/ ToCall(first, Cable[p][1])
                 \/ Neighbour(Cable[p][1])
           /\ \A p \in DOMAIN Cable : Traversed(p[1]) =>
                 \/ Finds(job.path, p[1]) \/ ToCall(first, p[1])
                 \/ InQueue(stack, p) \/ Settled(p, remote)
<1>1. NodeInv /\ FabricOK /\ MapOK /\ QueueOK(stack) /\ first \in Seq(PortRecord)
  BY DEF IInv, GraphInv, NodeInv, TraversalOK
<1>2. /\ KnownSees /\ QueueSees(stack) /\ LinksSeen(remote)
      /\ \A i \in DOMAIN first : first[i].number \in 1..NPorts[Root]
  BY DEF QuietOK, StackSees, FirstSees
<1>3. /\ JobSees /\ Near(1) /\ \A i \in DOMAIN stack : Depth(stack[i].path) = 1
      /\ \E q \in 1..NPorts[Root] : job.path = FirstHopPath(q)
  BY DEF QuietOK, CallSees
<1>4. /\ IsKnown(Root)
      /\ \A p \in DOMAIN Cable : p[1] = Root =>
            \/ Finds(job.path, Cable[p][1]) \/ ToCall(first, Cable[p][1])
            \/ Neighbour(Cable[p][1])
  BY DEF QuietOK, RootSees, Begun, Called
<1>5. \A p \in DOMAIN Cable : Traversed(p[1]) =>
         \/ Finds(job.path, p[1]) \/ ToCall(first, p[1])
         \/ InQueue(stack, p) \/ Settled(p, remote)
  BY DEF QuietOK, DoneSees, Begun, Called, IsNext
<1> QED BY <1>1, <1>2, <1>3, <1>4, <1>5

(* A neighbour has been found.                                             *)
LEMMA FirstFoundSees ==
    ASSUME IInv, QInv, IsCabling(cabling), FirstFound, quiet' PROVE QuietOK'
<1>1. /\ pc = "first" /\ job.phase = "found" /\ UNCHANGED fabric /\ node_map' = node_map /\ quiet
      /\ remote' = remote /\ FirstHop(first, stack \o Entries(job.node, job.path))
  BY DEF FirstFound, FirstHop, found, ghosts
<1>2. QuietOK /\ CutOK
  BY <1>1 DEF QInv
<1>3. /\ NodeInv /\ FabricOK /\ MapOK /\ KnownSees /\ QueueOK(stack) /\ QueueSees(stack)
      /\ LinksSeen(remote) /\ JobSees /\ Near(1) /\ first \in Seq(PortRecord)
      /\ \A i \in DOMAIN first : first[i].number \in 1..NPorts[Root]
      /\ \A i \in DOMAIN stack : Depth(stack[i].path) = 1
      /\ IsKnown(Root)
      /\ \A p \in DOMAIN Cable : p[1] = Root =>
            \/ Finds(job.path, Cable[p][1]) \/ ToCall(first, Cable[p][1])
            \/ Neighbour(Cable[p][1])
      /\ \A p \in DOMAIN Cable : Traversed(p[1]) =>
            \/ Finds(job.path, p[1]) \/ ToCall(first, p[1])
            \/ InQueue(stack, p) \/ Settled(p, remote)
  BY <1>1, <1>2, FirstPhase
<1>4. PICK q \in 1..NPorts[Root] : job.path = FirstHopPath(q)
  BY <1>1, <1>2, FirstPhase
<1>5. PICK guid : guid = job.node.guid
  OBVIOUS
<1>6. PICK more : more = Entries(job.node, job.path)
  OBVIOUS
<1>7. /\ Depth(job.path) = 1
      /\ Arrival(Cable, job.path) =
            IF <<Root, q>> \in DOMAIN Cable THEN Cable[<<Root, q>>] ELSE Nowhere
  BY <1>3, <1>4, FirstHopLeads
<1>8. IsKnown(guid) /\ Finds(job.path, guid)
  BY <1>1, <1>2, <1>3, <1>5, FoundEntries
<1>9. Neighbour(guid) /\ KnownAt(guid)
  BY <1>3, <1>8 DEF Near, Neighbour, KnownSees, IsKnown
<1>10. guid = Root => Looped
  <2>2. <<Root, q>> \in DOMAIN Cable /\ Cable[<<Root, q>>][1] = guid
    BY <1>7, <1>8 DEF Finds
  <2>3. <<Root, q>> \in PortsOf(Root)
    BY DEF PortsOf
  <2> QED BY <2>2, <2>3 DEF Looped
<1>11. Level(guid) = 1
  <2>1. DistOf(guid) \in Nat
    BY <1>3, <1>8, LevelFacts
  <2> QED BY <1>9, <2>1 DEF Level, KnownAt, Neighbour
<1>12. /\ QueueOK(more)
       /\ guid \in Switches => \A p \in DOMAIN Cable : p[1] = guid => InQueue(more, p)
       /\ \A k \in DOMAIN more : EntrySees(more[k]) /\ Depth(more[k].path) = 1
  BY <1>1, <1>2, <1>3, <1>5, <1>6, <1>7, <1>10, <1>11, FoundEntries
<1>13. PICK queue : queue = stack \o more
  OBVIOUS
<1>14. Near(1 + 1)
  <2>1. \A n \in DOMAIN node_map : DistOf(n) <= 1 /\ DistOf(n) \in Nat
    BY <1>3, LevelFacts DEF Near, IsKnown
  <2> QED BY <2>1 DEF Near
<1>15. /\ QueueSees(queue) /\ QueueOK(queue)
       /\ \A p : InQueue(stack, p) \/ InQueue(more, p) => InQueue(queue, p)
       /\ \A i \in DOMAIN queue : Depth(queue[i].path) = 1
  <2>1. QueueOK(queue)
    BY <1>3, <1>12, <1>13, QueueConcat
  <2>2. \A i \in DOMAIN stack : Depth(stack[i].path) <= 1
    BY <1>3
  <2>3. /\ QueueSees(queue)
        /\ \A p : InQueue(stack, p) \/ InQueue(more, p) => InQueue(queue, p)
        /\ \A i \in DOMAIN queue : \/ i \in DOMAIN stack /\ queue[i] = stack[i]
                                   \/ \E k \in DOMAIN more : queue[i] = more[k]
    BY <1>3, <1>12, <1>13, <1>14, <2>2, ConcatSees
  <2>4. \A i \in DOMAIN queue : Depth(queue[i].path) = 1
    BY <2>3, <1>3, <1>12
  <2> QED BY <2>1, <2>3, <2>4
<1>16. \A p \in DOMAIN Cable :
          p[1] = Root => ToCall(first, Cable[p][1]) \/ Neighbour(Cable[p][1])
  <2>1. \A n : Finds(job.path, n) => Neighbour(n)
    BY <1>8, <1>9 DEF Finds
  <2> QED BY <2>1, <1>3
<1>17. \A p \in DOMAIN Cable :
          Traversed(p[1]) => ToCall(first, p[1]) \/ InQueue(queue, p) \/ Settled(p, remote)
  <2>1. \A n : Finds(job.path, n) => n = guid
    BY <1>8 DEF Finds
  <2>2. \A n : Traversed(n) => n \in Switches
    BY DEF Traversed
  <2> QED BY <2>1, <2>2, <1>3, <1>12, <1>15
<1>18. FirstHop(first, queue)
  BY <1>1, <1>6, <1>13
<1> QED BY <1>1, <1>2, <1>3, <1>15, <1>16, <1>17, <1>18, FirstHopSees

(* There is no neighbour behind a port.                                    *)
LEMMA FirstLostSees ==
    ASSUME IInv, QInv, IsCabling(cabling), FirstLost, quiet' PROVE QuietOK'
<1>1. /\ pc = "first" /\ job.phase = "lost" /\ UNCHANGED fabric /\ node_map' = node_map /\ quiet
      /\ remote' = remote /\ FirstHop(first, stack)
  BY DEF FirstLost, FirstHop, found, ghosts
<1>2. QuietOK /\ CutOK
  BY <1>1 DEF QInv
<1>3. /\ FabricOK /\ KnownSees /\ QueueOK(stack) /\ QueueSees(stack)
      /\ LinksSeen(remote) /\ JobSees /\ Near(1) /\ first \in Seq(PortRecord)
      /\ \A i \in DOMAIN first : first[i].number \in 1..NPorts[Root]
      /\ \A i \in DOMAIN stack : Depth(stack[i].path) = 1
      /\ IsKnown(Root)
      /\ \A p \in DOMAIN Cable : p[1] = Root =>
            \/ Finds(job.path, Cable[p][1]) \/ ToCall(first, Cable[p][1])
            \/ Neighbour(Cable[p][1])
      /\ \A p \in DOMAIN Cable : Traversed(p[1]) =>
            \/ Finds(job.path, p[1]) \/ ToCall(first, p[1])
            \/ InQueue(stack, p) \/ Settled(p, remote)
  BY <1>1, <1>2, FirstPhase
<1>4. \A n : ~Finds(job.path, n)
  BY <1>1, <1>3 DEF JobSees, Finds
<1>5. \A p \in DOMAIN Cable :
          p[1] = Root => ToCall(first, Cable[p][1]) \/ Neighbour(Cable[p][1])
  BY <1>3, <1>4
<1>6. \A p \in DOMAIN Cable :
          Traversed(p[1]) => ToCall(first, p[1]) \/ InQueue(stack, p) \/ Settled(p, remote)
  BY <1>3, <1>4
<1> QED BY <1>1, <1>2, <1>3, <1>5, <1>6, FirstHopSees

(* Where a call of discover_node has got to: a hop beyond what is known.   *)
LEMMA CallReaches ==
    ASSUME IInv, QuietOK, CutOK, IsCabling(cabling), pc \in {"root", "first", "loop"},
           NEW g, Finds(job.path, g), ~IsKnown(g)
    PROVE  /\ IsRegular(job.path) /\ Depth(job.path) \in Nat
           /\ g \in Ball(Cable, Depth(job.path)) /\ (g = Root <=> Depth(job.path) = 0)
           /\ pc = "root" => g = Root
           /\ pc = "first" => Depth(job.path) = 1
           /\ \A i \in DOMAIN stack : Depth(job.path) <= Depth(stack[i].path) + 1
<1>1. FabricOK /\ MapOK /\ KnownSees /\ IsRegular(job.path) /\ Depth(job.path) \in Nat
  <2>1. FabricOK /\ MapOK
    BY DEF IInv, GraphInv, NodeInv
  <2>2. KnownSees /\ IsRegular(job.path)
    BY DEF QuietOK, CallSees, JobSees
  <2> QED BY <2>1, <2>2, DepthFacts
<1>2. g = Arrival(Cable, job.path)[1] /\ Arrival(Cable, job.path) # Nowhere
  BY DEF Finds
<1>3. Ball(Cable, 0) = {Root}
  BY BallSteps
<1>4. CASE pc = "root"
  <2>1. job.path = StartPath /\ stack = <<>>
    BY <1>4 DEF QuietOK, CallSees
  <2>2. Depth(job.path) = 0 /\ g = Root
    BY <2>1, <1>2, StartDepth, StartRoute DEF Root
  <2>3. DOMAIN stack = {}
    BY <2>1
  <2> QED BY <1>1, <1>3, <1>4, <2>2, <2>3
<1>5. CASE pc = "first"
  <2>1. PICK q \in 1..NPorts[Root] : job.path = FirstHopPath(q)
    BY <1>5 DEF QuietOK, CallSees
  <2>2. /\ Depth(job.path) = 1
        /\ Arrival(Cable, job.path) =
              IF <<Root, q>> \in DOMAIN Cable THEN Cable[<<Root, q>>] ELSE Nowhere
    BY <1>1, <2>1, FirstHopLeads
  <2>3. PICK p : p = <<Root, q>>
    OBVIOUS
  <2>4. p \in DOMAIN Cable /\ p[1] = Root /\ Cable[p][1] = g
    BY <1>2, <2>2, <2>3
  <2>5. g \in Ball(Cable, 1)
    <3>1. p[1] \in Ball(Cable, 0) /\ p[1] \in Switches \cup {Root}
      BY <1>3, <2>4
    <3>2. 0 \in Nat /\ 1 \in Nat /\ 0 < 1
      OBVIOUS
    <3>3. Cable[p][1] \in Ball(Cable, 1)
      BY <2>4, <3>1, <3>2, BallNext
    <3> QED BY <3>3, <2>4
  <2>6. g # Root
    BY <1>5 DEF QuietOK, RootSees, Begun
  <2>7. \A i \in DOMAIN stack : Depth(stack[i].path) = 1
    BY <1>5 DEF QuietOK, CallSees
  <2> QED BY <1>1, <1>5, <2>2, <2>5, <2>6, <2>7
<1>6. CASE pc = "loop"
  <2>1. job.path = item.path /\ ItemSees(item, stack) /\ IsKnown(Root)
    BY <1>6 DEF QuietOK, CallSees, StackSees, RootSees, Begun
  <2>2. PICK p : p = item.port
    OBVIOUS
  <2>3. p \in DOMAIN Cable /\ Cable[p][1] = g
    BY <1>2, <2>1, <2>2 DEF ItemSees
  <2>4. /\ p[1] \in Switches /\ IsKnown(p[1]) /\ Depth(job.path) = Level(p[1]) + 1
    BY <2>1, <2>2 DEF ItemSees, Source
  <2>5. /\ DistOf(p[1]) \in Nat /\ Level(p[1]) \in Nat /\ DistOf(p[1]) <= Level(p[1])
        /\ Level(p[1]) >= 1
    BY <1>1, <2>4, LevelFacts
  <2>6. p[1] \in Ball(Cable, DistOf(p[1]))
    BY <1>1, <2>4 DEF KnownSees, KnownAt, IsKnown
  <2>7. g \in Ball(Cable, Depth(job.path))
    <3>1. DistOf(p[1]) < Depth(job.path)
      BY <2>4, <2>5
    <3>2. Cable[p][1] \in Ball(Cable, Depth(job.path))
      BY <1>1, <2>3, <2>4, <2>5, <2>6, <3>1, BallNext
    <3> QED BY <2>3, <3>2
  <2>8. g # Root
    BY <2>1
  <2>9. \A i \in DOMAIN stack : Depth(job.path) <= Depth(stack[i].path) + 1
    BY <2>1 DEF ItemSees
  <2> QED BY <1>1, <1>6, <2>4, <2>5, <2>7, <2>8, <2>9
<1> QED BY <1>4, <1>5, <1>6

(* While the call of discover_node goes on nothing else changes.           *)
LEMMA CallGoesOn ==
    ASSUME QuietOK, UNCHANGED fabric, UNCHANGED traversal, node_map' = node_map, remote' = remote,
           job'.path = job.path, pc \in {"root", "first", "loop"} => JobSees',
           pc # "first" => \/ job'.phase = job.phase /\ job'.node = job.node
                           \/ job.phase # "found" /\ job'.phase # "found"
    PROVE  QuietOK'
<1>1. pc' = pc /\ stack' = stack /\ first' = first /\ item' = item
  BY DEF traversal
<1>2. Cable' = Cable /\ Root' = Root
  BY SameFabric
<1>3. KnownSees' /\ LinksSeen(remote)'
  <2>1. LinksSeen(remote)' <=> LinksSeen(remote)
    BY SameView
  <2>2. KnownSees' <=> KnownSees
    BY SameView
  <2> QED BY <2>1, <2>2 DEF QuietOK
<1>4. StackSees'
  <2>1. QueueSees(stack)' <=> QueueSees(stack)
    BY <1>1, SameView
  <2>2. ItemSees(item, stack)' <=> ItemSees(item, stack)
    BY <1>1, SameView
  <2> QED BY <1>1, <2>1, <2>2 DEF QuietOK, StackSees
<1>5. FirstSees'
  BY <1>1, <1>2 DEF QuietOK, FirstSees
<1>6. CallSees'
  <2>1. PICK path : path = job.path
    OBVIOUS
  <2>2. job'.path = path
    BY <2>1
  <2>3. Arrival(Cable, path)' = Arrival(Cable, path)
    BY SameFabric
  <2>4. Arrival(Cable, job.path)' = Arrival(Cable, path)
    BY <2>2, <2>3
  <2>5. PICK far : far = Arrival(Cable, path)
    OBVIOUS
  <2>6. IsKnown(far[1])' <=> IsKnown(far[1])
    BY SameView
  <2>7. IsKnown(Arrival(Cable, job.path)[1])' <=> IsKnown(Arrival(Cable, job.path)[1])
    BY <2>1, <2>4, <2>5, <2>6
  <2>8. ASSUME pc = "root"
        PROVE  /\ job'.path = StartPath /\ stack' = <<>> /\ remote' = <<>>
               /\ DOMAIN node_map' = IF job'.phase = "found" THEN {Root'} ELSE {}
    <3>1. /\ job.path = StartPath /\ stack = <<>> /\ remote = <<>>
          /\ DOMAIN node_map = IF job.phase = "found" THEN {Root} ELSE {}
      BY <2>8 DEF QuietOK, CallSees
    <3>2. job'.phase = "found" <=> job.phase = "found"
      BY <2>8
    <3> QED BY <1>1, <1>2, <3>1, <3>2
  <2>9. ASSUME pc = "first"
        PROVE  /\ Near(1)' /\ \A i \in DOMAIN stack' : Depth(stack'[i].path) = 1
               /\ \E q \in 1..NPorts[Root'] : job'.path = FirstHopPath(q)'
    <3>1. Near(1)' <=> Near(1)
      BY SameView
    <3>2. \A q : FirstHopPath(q)' = FirstHopPath(q)
      BY SameFabric DEF FirstHopPath
    <3> QED BY <1>1, <1>2, <2>9, <3>1, <3>2 DEF QuietOK, CallSees
  <2>10. ASSUME pc = "loop"
         PROVE  /\ job'.path = item'.path /\ Arrival(Cable, job.path)' # Nowhere
                /\ IF job'.phase = "found" THEN DistOf(job.node.guid)' = Depth(job'.path)
                   ELSE ~IsKnown(Arrival(Cable, job.path)[1])'
    <3>1. /\ job.path = item.path /\ Arrival(Cable, job.path) # Nowhere
          /\ IF job.phase = "found" THEN DistOf(job.node.guid) = Depth(job.path)
             ELSE ~IsKnown(Arrival(Cable, job.path)[1])
      BY <2>10 DEF QuietOK, CallSees
    <3>2. job'.path = item'.path /\ Arrival(Cable, job.path)' # Nowhere
      BY <1>1, <2>1, <2>4, <3>1
    <3>3. CASE job'.phase = job.phase /\ job'.node = job.node
      <4>1. PICK guid : guid = job.node.guid
        OBVIOUS
      <4>2. DistOf(guid)' = DistOf(guid)
        BY SameView
      <4>3. DistOf(job.node.guid)' = DistOf(guid)
        BY <3>3, <4>1, <4>2
      <4> QED BY <2>7, <3>1, <3>2, <3>3, <4>1, <4>3
    <3>4. CASE job.phase # "found" /\ job'.phase # "found"
      BY <2>7, <3>1, <3>2, <3>4
    <3> QED BY <2>10, <3>3, <3>4
  <2> QED BY <1>1, <2>8, <2>9, <2>10 DEF CallSees
<1>7. \A n : (Called(n)' <=> Called(n)) /\ (ToCall(first, n)' <=> ToCall(first, n))
  <2>1. \A path, n : Finds(path, n)' = Finds(path, n)
    BY SameFabric
  <2>2. \A n : Finds(job.path, n)' <=> Finds(job.path, n)
    BY <2>1
  <2>3. \A n : ToCall(first, n)' <=> ToCall(first, n)
    BY <1>1, SameView
  <2> QED BY <1>1, <2>2, <2>3 DEF Called
<1>8. RootSees'
  <2>1. \A n : (IsKnown(n)' <=> IsKnown(n)) /\ (Neighbour(n)' <=> Neighbour(n))
    BY SameView
  <2>2. Begun' <=> Begun
    BY <1>1 DEF Begun
  <2>3. Begun => /\ IsKnown(Root)
                 /\ \A p \in DOMAIN Cable : p[1] = Root =>
                       \/ pc = "first" /\ (Called(Cable[p][1]) \/ ToCall(first, Cable[p][1]))
                       \/ Neighbour(Cable[p][1])
    BY DEF QuietOK, RootSees
  <2>4. Begun => /\ IsKnown(Root)'
                 /\ \A p \in DOMAIN Cable' : p[1] = Root' =>
                       \/ pc' = "first" /\ (Called(Cable[p][1])' \/ ToCall(first, Cable[p][1])')
                       \/ Neighbour(Cable[p][1])'
    BY <1>1, <1>2, <1>7, <2>1, <2>3
  <2> QED BY <2>2, <2>4 DEF RootSees
<1>9. DoneSees'
  <2>1. /\ \A n : Traversed(n)' <=> Traversed(n)
        /\ \A p : Settled(p, remote)' <=> Settled(p, remote)
    BY SameView
  <2>2. \A p : (InQueue(stack, p)' <=> InQueue(stack, p)) /\ (IsNext(p)' <=> IsNext(p))
    BY <1>1 DEF InQueue, IsNext
  <2>3. Begun' <=> Begun
    BY <1>1 DEF Begun
  <2> QED BY <1>2, <1>7, <2>1, <2>2, <2>3 DEF QuietOK, DoneSees
<1> QED BY <1>3, <1>4, <1>5, <1>6, <1>8, <1>9 DEF QuietOK

(* The call of discover_node enters its node.                              *)
LEMMA CallEnters ==
    ASSUME IInv, QuietOK, CutOK, IsCabling(cabling), UNCHANGED fabric, UNCHANGED traversal,
           remote' = remote, job'.path = job.path, JobSees', pc \in {"root", "first", "loop"},
           job.phase # "found", NEW g, Entered(g)
    PROVE  QuietOK'
<1>1. pc' = pc /\ stack' = stack /\ first' = first /\ item' = item
  BY DEF traversal
<1>2. Cable' = Cable /\ Root' = Root
  BY SameFabric
<1>3. /\ ~IsKnown(g) /\ Finds(job.path, g) /\ job'.phase = "found" /\ job'.node.guid = g
      /\ DOMAIN node_map' = DOMAIN node_map \cup {g}
      /\ \A n \in DOMAIN node_map : node_map'[n] = node_map[n]
      /\ node_map'[g].path = job.path /\ IsWhole(node_map'[g], NPorts[g])
  BY DEF Entered, IsKnown
<1>4. PICK d : d = Depth(job.path)
  OBVIOUS
<1>5. /\ IsRegular(job.path) /\ d \in Nat /\ g \in Ball(Cable, d) /\ (g = Root <=> d = 0)
      /\ pc = "root" => g = Root
      /\ pc = "first" => d = 1
      /\ \A i \in DOMAIN stack : d <= Depth(stack[i].path) + 1
  BY <1>3, <1>4, CallReaches
<1>6. /\ \A n \in DOMAIN node_map : IsKnown(n)' /\ DistOf(n)' = DistOf(n) /\ Level(n)' = Level(n)
      /\ \A n : Source(n) => Source(n)'
      /\ \A n \in DOMAIN node_map : Traversed(n)' = Traversed(n)
      /\ \A n \in DOMAIN node_map : KnownAt(n) => KnownAt(n)'
      /\ \A e : EntrySees(e) => EntrySees(e)'
      /\ \A n : Neighbour(n) => Neighbour(n)'
  BY <1>3, MapGrows
<1>7. /\ \A p : p[1] \in DOMAIN node_map =>
            \A links : Settled(p, links) => Settled(p, links)'
      /\ \A links : LinksSeen(links) => LinksSeen(links)'
  BY <1>3, MapGrows
<1>8. DistOf(g)' = d /\ IsKnown(g)'
  BY <1>3, <1>4 DEF DistOf, IsKnown
<1>9. \A depth : Near(depth) /\ d <= depth => Near(depth)'
  BY <1>3, <1>6, <1>8 DEF Near
<1>10. KnownSees'
  <2>1. KnownAt(g)'
    <3>1. IsRegular(node_map[g].path)'
      <4>1. PICK path : path = job.path
        OBVIOUS
      <4>2. node_map'[g].path = path /\ IsRegular(path)
        BY <4>1, <1>3, <1>5
      <4>3. IsRegular(path)' = IsRegular(path)
        BY SameFabric
      <4> QED BY <4>2, <4>3
    <3>2. Ball(Cable, d)' = Ball(Cable, d)
      BY SameFabric
    <3>3. g \in Ball(Cable, DistOf(g))'
      BY <1>5, <1>8, <3>2
    <3>4. IsWhole(node_map[g], NPorts[g])'
      <4>1. PICK node : node = node_map'[g]
        OBVIOUS
      <4>2. IsWhole(node, NPorts[g])' = IsWhole(node, NPorts[g])
        BY SameFabric
      <4> QED BY <1>3, <4>1, <4>2
    <3> QED BY <1>2, <1>5, <1>8, <3>1, <3>3, <3>4 DEF KnownAt
  <2>2. \A n \in DOMAIN node_map : KnownAt(n)'
    BY <1>6 DEF QuietOK, KnownSees
  <2> QED BY <1>3, <2>1, <2>2 DEF KnownSees
<1>11. StackSees'
  <2>1. QueueSees(stack)'
    <3>1. QueueSees(stack)
      BY DEF QuietOK, StackSees
    <3>2. ASSUME NEW i \in DOMAIN stack
          PROVE  EntrySees(stack[i])' /\ Near(Depth(stack[i].path) + 1)'
      <4>1. EntrySees(stack[i]) /\ Near(Depth(stack[i].path) + 1)
        BY <3>1 DEF QueueSees
      <4>2. PICK e : e = stack[i]
        OBVIOUS
      <4>3. EntrySees(e)'
        BY <1>6, <4>1, <4>2
      <4>4. PICK depth : depth = Depth(stack[i].path) + 1
        OBVIOUS
      <4>5. Near(depth)'
        BY <1>5, <1>9, <4>1, <4>4
      <4>6. stack'[i] = e /\ Depth(stack'[i].path) + 1 = depth
        BY <1>1, <4>2, <4>4
      <4> QED BY <4>3, <4>5, <4>6
    <3>3. \A i, j \in DOMAIN stack' :
             i <= j => Depth(stack'[i].path) <= Depth(stack'[j].path)
      BY <1>1, <3>1 DEF QueueSees
    <3> QED BY <1>1, <3>2, <3>3 DEF QueueSees
  <2>2. ASSUME pc = "loop" PROVE ItemSees(item, stack)'
    <3>1. ItemSees(item, stack) /\ job.path = item.path
      BY <2>2 DEF QuietOK, StackSees, CallSees
    <3>2. PICK it : it = item
      OBVIOUS
    <3>3. /\ IsRegular(it.path) /\ Source(it.port[1]) /\ it.port[1] \in DOMAIN node_map
          /\ Depth(it.path) = Level(it.port[1]) + 1 /\ Near(Depth(it.path)) /\ Depth(it.path) = d
          /\ Arrival(Cable, it.path) = IF it.port \in DOMAIN Cable THEN Cable[it.port] ELSE Nowhere
          /\ \A i \in DOMAIN stack : Depth(it.path) <= Depth(stack[i].path) + 1
      BY <1>4, <3>1, <3>2 DEF ItemSees, Source, IsKnown
    <3>4. IsRegular(it.path)' /\ Arrival(Cable, it.path)' = Arrival(Cable, it.path)
      <4>1. IsRegular(it.path)' = IsRegular(it.path)
        BY SameFabric
      <4>2. Arrival(Cable, it.path)' = Arrival(Cable, it.path)
        BY SameFabric
      <4> QED BY <3>3, <4>1, <4>2
    <3>5. Source(it.port[1])' /\ Level(it.port[1])' = Level(it.port[1])
      BY <1>6, <3>3
    <3>6. Near(Depth(it.path))'
      BY <1>5, <1>9, <3>3
    <3>7. item' = it /\ stack' = stack
      BY <1>1, <3>2
    <3>8. ItemSees(it, stack)'
      BY <1>1, <1>2, <3>3, <3>4, <3>5, <3>6 DEF ItemSees
    <3> QED BY <3>7, <3>8
  <2> QED BY <1>1, <2>1, <2>2 DEF StackSees
<1>12. FirstSees'
  BY <1>1, <1>2 DEF QuietOK, FirstSees
<1>13. CallSees'
  <2>1. ASSUME pc = "root"
        PROVE  /\ job'.path = StartPath /\ stack' = <<>> /\ remote' = <<>>
               /\ DOMAIN node_map' = {Root'}
    <3>1. DOMAIN node_map = {} /\ job.path = StartPath /\ stack = <<>> /\ remote = <<>>
      BY <2>1 DEF QuietOK, CallSees
    <3> QED BY <1>1, <1>2, <1>3, <1>5, <2>1, <3>1
  <2>2. ASSUME pc = "first"
        PROVE  /\ Near(1)' /\ \A i \in DOMAIN stack' : Depth(stack'[i].path) = 1
               /\ \E q \in 1..NPorts[Root'] : job'.path = FirstHopPath(q)'
    <3>1. /\ Near(1) /\ \A i \in DOMAIN stack : Depth(stack[i].path) = 1
          /\ \E q \in 1..NPorts[Root] : job.path = FirstHopPath(q)
      BY <2>2 DEF QuietOK, CallSees
    <3>2. Near(1)'
      BY <1>5, <1>9, <2>2, <3>1
    <3>3. \A q : FirstHopPath(q)' = FirstHopPath(q)
      BY SameFabric DEF FirstHopPath
    <3> QED BY <1>1, <1>2, <3>1, <3>2, <3>3
  <2>3. ASSUME pc = "loop"
        PROVE  /\ job'.path = item'.path /\ Arrival(Cable, job.path)' # Nowhere
               /\ DistOf(job.node.guid)' = Depth(job'.path)
    <3>1. job.path = item.path /\ Arrival(Cable, job.path) # Nowhere
      BY <2>3 DEF QuietOK, CallSees
    <3>2. PICK path : path = job.path
      OBVIOUS
    <3>3. Arrival(Cable, path)' = Arrival(Cable, path)
      BY SameFabric
    <3>4. Arrival(Cable, job.path)' # Nowhere
      BY <3>1, <3>2, <3>3
    <3>5. DistOf(job.node.guid)' = Depth(job'.path)
      BY <1>3, <1>4, <1>8
    <3> QED BY <1>1, <3>1, <3>4, <3>5
  <2> QED BY <1>1, <1>3, <2>1, <2>2, <2>3 DEF CallSees
<1>14. \A n : (Called(n)' <=> Called(n)) /\ (ToCall(first, n)' <=> ToCall(first, n))
  <2>1. \A path, n : Finds(path, n)' = Finds(path, n)
    BY SameFabric
  <2>2. \A n : Finds(job.path, n)' <=> Finds(job.path, n)
    BY <2>1
  <2>3. \A q : FirstHopPath(q)' = FirstHopPath(q)
    BY SameFabric DEF FirstHopPath
  <2>4. \A n : ToCall(first, n)' <=> ToCall(first, n)
    BY <1>1, <2>1, <2>3 DEF ToCall
  <2> QED BY <1>1, <2>2, <2>4 DEF Called
<1>15. RootSees'
  <2>1. Begun' <=> Begun
    BY <1>1 DEF Begun
  <2>2. Begun => /\ IsKnown(Root)
                 /\ \A p \in DOMAIN Cable : p[1] = Root =>
                       \/ pc = "first" /\ (Called(Cable[p][1]) \/ ToCall(first, Cable[p][1]))
                       \/ Neighbour(Cable[p][1])
    BY DEF QuietOK, RootSees
  <2>3. Begun => /\ IsKnown(Root)'
                 /\ \A p \in DOMAIN Cable' : p[1] = Root' =>
                       \/ pc' = "first" /\ (Called(Cable[p][1])' \/ ToCall(first, Cable[p][1])')
                       \/ Neighbour(Cable[p][1])'
    <3>1. IsKnown(Root) => IsKnown(Root)'
      BY <1>2, <1>6 DEF IsKnown
    <3> QED BY <1>1, <1>2, <1>6, <1>14, <2>2, <3>1
  <2> QED BY <2>1, <2>3 DEF RootSees
<1>16. LinksSeen(remote)'
  <2>1. PICK links : links = remote
    OBVIOUS
  <2>2. LinksSeen(links)'
    BY <2>1, <1>7 DEF QuietOK
  <2>3. remote' = links
    BY <2>1
  <2> QED BY <2>2, <2>3
<1>17. DoneSees'
  <2>1. \A p : (InQueue(stack, p)' <=> InQueue(stack, p)) /\ (IsNext(p)' <=> IsNext(p))
    BY <1>1 DEF InQueue, IsNext
  <2>2. Begun' <=> Begun
    BY <1>1 DEF Begun
  <2>3. \A p : p[1] \in DOMAIN node_map => (Settled(p, remote) => Settled(p, remote)')
    <3>1. PICK links : links = remote
      OBVIOUS
    <3>2. \A p : p[1] \in DOMAIN node_map => (Settled(p, links) => Settled(p, links)')
      BY <1>7
    <3>3. remote' = links
      BY <3>1
    <3> QED BY <3>1, <3>2, <3>3
  <2>4. ASSUME Begun, NEW p \in DOMAIN Cable, Traversed(p[1])'
        PROVE  \/ Called(p[1])' \/ ToCall(first, p[1])'
               \/ InQueue(stack, p)' \/ IsNext(p)' \/ Settled(p, remote)'
    <3>1. p[1] \in DOMAIN node_map \cup {g}
      BY <1>3, <2>4 DEF Traversed, IsKnown
    <3>2. CASE p[1] = g
      <4>1. Called(g)
        BY <1>3, <2>4 DEF Called, Begun
      <4> QED BY <1>14, <3>2, <4>1
    <3>3. CASE p[1] \in DOMAIN node_map
      <4>1. Traversed(p[1])
        BY <1>6, <2>4, <3>3
      <4>2. \/ Called(p[1]) \/ ToCall(first, p[1])
            \/ InQueue(stack, p) \/ IsNext(p) \/ Settled(p, remote)
        BY <2>4, <4>1 DEF QuietOK, DoneSees
      <4> QED BY <1>14, <2>1, <2>3, <3>3, <4>2
    <3> QED BY <3>1, <3>2, <3>3
  <2> QED BY <1>2, <2>2, <2>4 DEF DoneSees
<1> QED BY <1>10, <1>11, <1>12, <1>13, <1>15, <1>16, <1>17 DEF QuietOK

(* A step of discover_node.                                                *)
LEMMA DiscoverSees ==
    ASSUME IInv, QInv, IsCabling(cabling), UpState \in {"Active", "Init"},
           DiscoverNode, UNCHANGED traversal, quiet'
    PROVE  QuietOK'
<1>1. NodeInv /\ job'.path = job.path
  BY DiscoverNodeKeepsGraphInv DEF IInv, GraphInv
<1>2. /\ UNCHANGED fabric /\ remote' = remote
      /\ job.phase \in {"nodeInfo", "nodeDesc", "portInfo"}
  BY DEF DiscoverNode, FetchNodeInfo, FetchNodeDesc, FetchPortInfo, graph
<1>3. quiet
  BY DEF DiscoverNode, FetchNodeInfo, FetchNodeDesc, FetchPortInfo, Note
<1>4. pc \in {"root", "first", "loop"} /\ job.phase # "found"
  BY <1>2 DEF IInv, PlaceOK
<1>5. QuietOK /\ CutOK
  BY <1>3 DEF QInv
<1>6. JobSees
  BY <1>4, <1>5 DEF QuietOK, CallSees
<1>7. CASE FetchNodeInfo
  <2>1. /\ JobSees' /\ node_map' = node_map
        /\ job'.phase = "found" => IsKnown(Arrival(Cable, job.path)[1])
    BY <1>1, <1>6, <1>7, NodeInfoSees
  <2>2. pc = "root" => ~IsKnown(Arrival(Cable, job.path)[1])
    BY <1>4, <1>5 DEF QuietOK, CallSees, IsKnown
  <2>3. pc = "loop" => ~IsKnown(Arrival(Cable, job.path)[1])
    BY <1>4, <1>5 DEF QuietOK, CallSees
  <2> QED BY <1>1, <1>2, <1>4, <1>5, <2>1, <2>2, <2>3, CallGoesOn
<1>8. CASE FetchNodeDesc
  <2>1. JobSees' /\ node_map' = node_map /\ job'.phase = "portInfo"
    BY <1>1, <1>6, <1>8, NodeDescSees
  <2> QED BY <1>1, <1>2, <1>4, <1>5, <2>1, CallGoesOn
<1>9. CASE FetchPortInfo
  <2>1. /\ JobSees'
        /\ \/ node_map' = node_map /\ job'.phase = "portInfo"
           \/ Entered(Arrival(Cable, job.path)[1])
    BY <1>1, <1>6, <1>9, PortInfoSees
  <2>2. CASE node_map' = node_map /\ job'.phase = "portInfo"
    BY <1>1, <1>2, <1>4, <1>5, <2>1, <2>2, CallGoesOn
  <2>3. CASE Entered(Arrival(Cable, job.path)[1])
    BY <1>1, <1>2, <1>4, <1>5, <2>1, <2>3, CallEnters
  <2> QED BY <2>1, <2>2, <2>3
<1> QED BY <1>7, <1>8, <1>9 DEF DiscoverNode

(* A discovery that has begun knows nothing, and its first call is for the *)
(* node the agent is on.                                                   *)
LEMMA StartSees == ASSUME Start PROVE QuietOK'
<1>1. /\ pc' = "root" /\ stack' = <<>> /\ first' = <<>>
      /\ node_map' = <<>> /\ remote' = <<>>
      /\ job'.path = StartPath /\ job'.phase = "nodeInfo"
  BY DEF Start, Forget, Call
<1>2. DOMAIN <<>> = {}
  OBVIOUS
<1>3. KnownSees' /\ LinksSeen(remote)' /\ FirstSees'
  BY <1>1, <1>2 DEF KnownSees, LinksSeen, FirstSees
<1>4. StackSees' /\ RootSees' /\ DoneSees'
  BY <1>1, <1>2 DEF StackSees, QueueSees, RootSees, DoneSees, Begun
<1>5. IsRegular(job.path)'
  BY <1>1, StartRoute DEF IsRegular
<1>6. CallSees'
  BY <1>1, <1>2, <1>5 DEF CallSees, JobSees
<1> QED BY <1>3, <1>4, <1>6 DEF QuietOK

(* Nothing happens.                                                        *)
LEMMA StutterSees == ASSUME QuietOK, UNCHANGED vars PROVE QuietOK'
<1>1. /\ UNCHANGED fabric /\ UNCHANGED traversal /\ node_map' = node_map /\ remote' = remote
      /\ job' = job
  BY DEF vars, common, graph, found
<1>2. ASSUME pc \in {"root", "first", "loop"} PROVE JobSees'
  <2>1. JobSees
    BY <1>2 DEF QuietOK, CallSees
  <2>2. \A path : IsRegular(path)' = IsRegular(path)
    BY <1>1, SameFabric
  <2>3. \A path : Arrival(Cable, path)' = Arrival(Cable, path)
    BY <1>1, SameFabric
  <2>4. \A path, n : Finds(path, n)' = Finds(path, n)
    BY <1>1, SameFabric
  <2>5. \A node, last : IsWhole(node, last)' = IsWhole(node, last)
    BY <1>1, SameFabric
  <2> QED BY <1>1, <2>1, <2>2, <2>3, <2>4, <2>5 DEF JobSees
<1>3. job'.path = job.path /\ job'.phase = job.phase /\ job'.node = job.node
  BY <1>1
<1> QED BY <1>1, <1>2, <1>3, CallGoesOn

(* Before the first discovery there is nothing to say.                     *)
LEMMA InitSees == Init => QInv
<1> SUFFICES ASSUME Init PROVE QInv
  OBVIOUS
<1>1. /\ pc = "idle" /\ stack = <<>> /\ first = <<>> /\ node_map = <<>> /\ remote = <<>> /\ cut = {}
  BY DEF Init, CommonInit
<1>2. DOMAIN <<>> = {}
  OBVIOUS
<1>3. KnownSees /\ LinksSeen(remote) /\ FirstSees
  BY <1>1, <1>2 DEF KnownSees, LinksSeen, FirstSees
<1>4. StackSees /\ RootSees /\ DoneSees /\ CallSees
  BY <1>1, <1>2 DEF StackSees, QueueSees, RootSees, DoneSees, Begun, CallSees
<1>5. CutOK
  BY <1>1 DEF CutOK
<1> QED BY <1>3, <1>4, <1>5 DEF QInv, QuietOK

(* Every step keeps what is seen while nothing fails.                      *)
LEMMA QuietInductive ==
    ASSUME \A cable \in Cablings : IsCabling(cable), UpState \in {"Active", "Init"},
           IInv, QInv, [Next]_vars
    PROVE  QInv'
<1>1. IsCabling(cabling) /\ CutOK
  BY DEF IInv, GraphInv, NodeInv, FabricOK, QInv
<1>2. CASE Unplug /\ UNCHANGED traversal
  <2>1. ~quiet' /\ cabling' = cabling /\ \E p \in DOMAIN Cable : cut' = cut \cup {p, cabling[p]}
    BY <1>2 DEF Unplug
  <2>2. CutOK'
    BY <1>1, <2>1, CutsStay
  <2> QED BY <2>1, <2>2 DEF QInv
<1>3. CASE ~(Unplug /\ UNCHANGED traversal)
  <2>1. cut' = cut /\ cabling' = cabling
    BY <1>3 DEF Next, Progress, Start, Forget, DiscoverNode, FetchNodeInfo, FetchNodeDesc,
                FetchPortInfo, RootFound, RootLost, FirstFound, FirstLost, FirstHop, Probe,
                LoopFound, LoopLost, fabric, vars, common
  <2>2. CutOK'
    BY <1>1, <2>1, CutsStay
  <2>3. ASSUME quiet' PROVE QuietOK'
    <3>1. CASE UNCHANGED vars
      <4>1. quiet
        BY <2>3, <3>1 DEF vars, common, ghosts
      <4> QED BY <3>1, <4>1, StutterSees DEF QInv
    <3> QED BY <1>1, <1>3, <2>3, <3>1, StartSees, DiscoverSees, RootFoundSees, RootLostSees,
               FirstFoundSees, FirstLostSees, ProbeSees, LoopFoundSees, LoopLostSees
            DEF Next, Progress
  <2> QED BY <2>2, <2>3 DEF QInv
<1> QED BY <1>2, <1>3

(* When the traversal is over, all that there is to find has been found.   *)
LEMMA DoneFound ==
    ASSUME IInv, QInv, IsCabling(cabling), pc = "done", quiet
    PROVE  /\ DOMAIN node_map = Ball(Cable, MaxHops)
           /\ DOMAIN remote = Ends \cup {Cable[p] : p \in Ends}
<1>1. QuietOK /\ CutOK /\ FabricOK /\ KnownSees /\ LinksSeen(remote)
  BY DEF QInv, QuietOK, IInv, GraphInv, NodeInv
<1>2. first = <<>> /\ stack = <<>>
  BY <1>1 DEF QuietOK, FirstSees, StackSees
<1>3. \A p \in DOMAIN Cable : Traversed(p[1]) => Settled(p, remote)
  <2>1. \A p : ~InQueue(stack, p) /\ ~ToCall(first, p[1]) /\ ~IsNext(p) /\ ~Called(p[1])
    BY <1>2 DEF InQueue, ToCall, IsNext, Called
  <2> QED BY <1>1, <2>1 DEF QuietOK, DoneSees, Begun
<1>4. IsKnown(Root) /\ \A p \in DOMAIN Cable : p[1] = Root => Neighbour(Cable[p][1])
  BY <1>1 DEF QuietOK, RootSees, Begun
<1>5. MaxHops = Farthest /\ Farthest \in Nat
  BY RouteAssumption DEF MaxHops, Farthest
<1> DEFINE S == {k \in Nat : \A n \in Ball(Cable, k) : IsKnown(n) /\ DistOf(n) <= k}
<1>6. 0 \in S
  <2>1. Ball(Cable, 0) = {Root}
    BY BallSteps
  <2>2. DistOf(Root) = 0
    BY <1>1, <1>4 DEF KnownSees, KnownAt, IsKnown
  <2> QED BY <1>4, <2>1, <2>2
<1>7. ASSUME NEW k \in 0..(Farthest - 1), k \in S PROVE k + 1 \in S
  <2>1. k \in Nat /\ k + 1 \in Nat /\ k < Farthest
    BY <1>5
  <2>2. Ball(Cable, k + 1) = Wider(Cable, Ball(Cable, k))
    BY <2>1, BallSteps
  <2>3. \A n \in Ball(Cable, k) : IsKnown(n) /\ DistOf(n) <= k
    BY <1>7
  <2>4. ASSUME NEW n \in Ball(Cable, k + 1) PROVE IsKnown(n) /\ DistOf(n) <= k + 1
    <3>1. CASE n \in Ball(Cable, k)
      <4>1. IsKnown(n) /\ DistOf(n) <= k /\ DistOf(n) \in Nat
        BY <1>1, <2>3, <3>1, LevelFacts
      <4> QED BY <2>1, <4>1
    <3>2. ASSUME NEW p \in DOMAIN Cable, p[1] \in Ball(Cable, k), p[1] \in Switches \cup {Root},
                 n = Cable[p][1]
          PROVE  IsKnown(n) /\ DistOf(n) <= k + 1
      <4>1. CASE p[1] = Root
        <5>1. IsKnown(n) /\ DistOf(n) <= 1
          BY <1>4, <3>2, <4>1 DEF Neighbour
        <5>2. DistOf(n) \in Nat
          BY <1>1, <5>1, LevelFacts
        <5> QED BY <2>1, <5>1, <5>2
      <4>2. CASE p[1] # Root
        <5>1. IsKnown(p[1]) /\ DistOf(p[1]) <= k
          BY <2>3, <3>2
        <5>2. Source(p[1])
          BY <3>2, <4>2, <5>1 DEF Source
        <5>3. DistOf(p[1]) \in Nat /\ Level(p[1]) = DistOf(p[1])
          BY <1>1, <4>2, <5>1, LevelFacts
        <5>4. DistOf(p[1]) < Farthest
          BY <1>5, <2>1, <5>1, <5>3
        <5>5. Traversed(p[1])
          BY <1>1, <5>2, <5>4, LevelFacts
        <5>6. IsKnown(n) /\ DistOf(n) <= Level(p[1]) + 1
          BY <1>3, <3>2, <5>5 DEF Settled
        <5>7. DistOf(n) \in Nat
          BY <1>1, <5>6, LevelFacts
        <5> QED BY <2>1, <5>1, <5>3, <5>6, <5>7
      <4> QED BY <4>1, <4>2
    <3> QED BY <2>2, <2>4, <3>1, <3>2 DEF Wider
  <2> QED BY <2>1, <2>4
<1>8. Farthest \in S
  <2> HIDE DEF S
  <2>1. 0..Farthest \subseteq S
    BY <1>5, <1>6, <1>7, IntervalInduction
  <2> QED BY <1>5, <2>1
<1>9. Ball(Cable, MaxHops) \subseteq DOMAIN node_map
  BY <1>5, <1>8 DEF IsKnown
<1>10. ASSUME NEW n \in DOMAIN node_map PROVE n \in Ball(Cable, MaxHops)
  <2>1. n \in Ball(Cable, DistOf(n))
    BY <1>1, <1>10 DEF KnownSees, KnownAt
  <2>2. DistOf(n) \in Nat /\ DistOf(n) <= Farthest
    BY <1>1, <1>10, LevelFacts DEF IsKnown
  <2>3. Ball(Cable, DistOf(n)) \subseteq Ball(Cable, Farthest)
    BY <1>5, <2>2, BallsGrow
  <2> QED BY <1>5, <2>1, <2>3
<1>11. \A p \in DOMAIN Cable : Cable[p] \in DOMAIN Cable /\ Cable[Cable[p]] = p
  BY <1>1, CablePairs
<1>12. ASSUME NEW p \in Ends PROVE p \in DOMAIN remote /\ Cable[p] \in DOMAIN remote
  <2>1. p \in DOMAIN Cable /\ p \in DOMAIN remote
    BY <1>3, <1>12 DEF Ends, Settled
  <2>2. remote[p] = cabling[p] /\ remote[p] \in DOMAIN remote
    BY <2>1 DEF IInv, RemoteOK, LinksOK
  <2>3. Cable[p] = cabling[p]
    BY <2>1 DEF Cable
  <2> QED BY <2>1, <2>2, <2>3
<1>13. ASSUME NEW p \in DOMAIN remote PROVE p \in Ends \cup {Cable[q] : q \in Ends}
  <2>1. p \in DOMAIN Cable /\ (Traversed(p[1]) \/ Traversed(Cable[p][1]))
    BY <1>1, <1>13 DEF LinksSeen
  <2>2. CASE Traversed(p[1])
    BY <2>1, <2>2 DEF Ends
  <2>3. CASE Traversed(Cable[p][1])
    <3>1. Cable[p] \in Ends /\ Cable[Cable[p]] = p
      BY <1>11, <2>1, <2>3 DEF Ends
    <3>2. PICK q : q = Cable[p]
      OBVIOUS
    <3> QED BY <3>1, <3>2
  <2> QED BY <2>1, <2>2, <2>3
<1> QED BY <1>9, <1>10, <1>12, <1>13

(* In a discovery in which nothing fails and nothing is unplugged the      *)
(* traversal finds what is within reach of a route, and the links.         *)
THEOREM FindsAllInReach ==
    ASSUME \A cable \in Cablings : IsCabling(cable), UpState \in {"Active", "Init"}
    PROVE  Spec => []Complete
<1>1. Init => QInv
  BY InitSees
<1>2. IInv /\ QInv /\ [Next]_vars => QInv'
  BY QuietInductive
<1>3. IInv /\ QInv => Complete
  BY DoneFound DEF Complete, IInv, GraphInv, NodeInv, FabricOK
<1> QED BY Invariance, <1>1, <1>2, <1>3, PTL DEF Spec

-----------------------------------------------------------------------------
(***************************************************************************)
(* What one exchange that fails can cost, while nothing is unplugged: one  *)
(* port is missed, and for every other one of a known switch there is      *)
(* something left to do until it is linked.                                *)
(***************************************************************************)
(* What has been done for a port of a known switch: it is linked, or the   *)
(* node behind it is known, with no record of the port at its end.         *)
IsNoted(p, links) ==
    \/ p \in DOMAIN links
    \/ /\ IsKnown(Cable[p][1])
       /\ Cable[p][2] \notin PortNumbers(node_map[Cable[p][1]])

(* What is left to do for it: it is in the stack, or asked about.          *)
IsQueued(queue, p) == \E i \in DOMAIN queue : queue[i].port = p /\ HasRoom(queue[i].path)
IsAsked(p) == item.port = p /\ (pc = "probe" \/ (pc = "loop" /\ job.phase # "lost"))

(* The cables that are not forgotten, if one port at most is missed.       *)
CablesBut(miss) == DOMAIN Cable \ {miss}
IsLeft(n, miss, queue, links) ==
    \A p \in CablesBut(miss) : p[1] = n => IsQueued(queue, p) \/ IsNoted(p, links)
IsMinded(n, miss) ==
    \A p \in CablesBut(miss) : p[1] = n => IsQueued(stack, p) \/ IsAsked(p) \/ IsNoted(p, remote)

(* The ports of a node that discover_node has just entered are about to be *)
(* pushed.                                                                 *)
IsHanded(n) ==
    /\ pc \in {"first", "loop"} /\ job.phase = "found" /\ job.node.guid = n
    /\ node_map[n].path = job.path

(* The cables from the root to itself are what its ports get into the      *)
(* stack by: one of them is still to be followed, or is being followed.    *)
Loops(miss) == {p \in CablesBut(miss) : p[1] = Root /\ Cable[p][1] = Root}
IsHop(ports, p) == \E i \in DOMAIN ports : ports[i].number = p[2]
IsFollowed(p) == pc = "first" /\ job.path = FirstHopPath(p[2]) /\ job.phase # "lost"

(* The other switches that are traversed.                                  *)
Roomy == {n \in (DOMAIN node_map \cap Switches) \ {Root} : HasRoom(node_map[n].path)}

WholeMinds(miss) == \A n \in DOMAIN node_map : IsWholeBut(node_map[n], NPorts[n], miss)
CallMinds(miss) ==
    /\ pc \in {"root", "first", "loop"} => JobMinds(miss)
    /\ pc = "root" => DOMAIN node_map \subseteq {Root} /\ job.path = StartPath /\ stack = <<>>
    /\ pc = "first" => \E q \in 1..NPorts[Root] : job.path = FirstHopPath(q)
PlaceMinds ==
    /\ \A i \in DOMAIN first : first[i].number \in 1..NPorts[Root]
    /\ pc \in {"probe", "loop", "done"} => first = <<>>
    /\ pc = "done" => stack = <<>>
    /\ pc \in {"probe", "loop"} =>
          (item.port \in DOMAIN Cable => Arrival(Cable, item.path) = Cable[item.port])
    /\ Begun => IsKnown(Root)
RootMinds(miss) ==
    Begun /\ RootIsSwitch => \A r \in Loops(miss) :
        IsHop(first, r) \/ IsFollowed(r) \/ IsMinded(Root, miss)
SwitchesMind(miss) == Begun => \A n \in Roomy : IsHanded(n) \/ IsMinded(n, miss)

MissOK(miss) ==
    WholeMinds(miss) /\ CallMinds(miss) /\ PlaceMinds /\ RootMinds(miss) /\ SwitchesMind(miss)
MissInv == faults \in Nat /\ (cut = {} /\ faults <= 1 => \E miss : IsMissed(miss) /\ MissOK(miss))

(* While no node gets known nothing that is said changes.                  *)
LEMMA SameMinds ==
    ASSUME UNCHANGED fabric, node_map' = node_map
    PROVE  /\ \A p, links : IsNoted(p, links)' = IsNoted(p, links)
           /\ \A miss : CablesBut(miss)' = CablesBut(miss) /\ Loops(miss)' = Loops(miss)
           /\ \A miss : WholeMinds(miss)' = WholeMinds(miss)
           /\ \A n, miss, queue, links : IsLeft(n, miss, queue, links)' = IsLeft(n, miss, queue, links)
           /\ Roomy' = Roomy /\ IsKnown(Root)' = IsKnown(Root)
           /\ \A q : FirstHopPath(q)' = FirstHopPath(q)
<1>1. Cable' = Cable /\ Root' = Root /\ RootIsSwitch' = RootIsSwitch
  BY SameFabric
<1>2. \A node, last, miss : IsWholeBut(node, last, miss)' = IsWholeBut(node, last, miss)
  BY SameWhole
<1>3. \A p, links : IsNoted(p, links)' = IsNoted(p, links)
  BY <1>1 DEF IsNoted, IsKnown
<1>4. \A miss : CablesBut(miss)' = CablesBut(miss)
  BY <1>1 DEF CablesBut
<1>5. \A miss : Loops(miss)' = Loops(miss)
  BY <1>1, <1>4 DEF Loops
<1>6. \A miss : WholeMinds(miss)' = WholeMinds(miss)
  BY <1>2 DEF WholeMinds
<1>7. \A n, miss, queue, links : IsLeft(n, miss, queue, links)' = IsLeft(n, miss, queue, links)
  BY <1>3, <1>4 DEF IsLeft, IsQueued
<1>8. Roomy' = Roomy /\ IsKnown(Root)' = IsKnown(Root)
  BY <1>1 DEF Roomy, IsKnown
<1>9. \A q : FirstHopPath(q)' = FirstHopPath(q)
  BY <1>1 DEF FirstHopPath
<1> QED BY <1>3, <1>4, <1>5, <1>6, <1>7, <1>8, <1>9

(* The route across the port of an entry crosses its cable.                *)
LEMMA ItemCrosses ==
    ASSUME FabricOK, cut = {}, NEW e, EntryOK(e), HasRoom(e.path), e.port \in DOMAIN Cable
    PROVE  Arrival(Cable, RouteAcross(e)) = Cable[e.port]
<1>1. e.port \in Ports /\ e.port = <<e.port[1], e.port[2]>> /\ e.port[2] \in 1..255
  <2>1. e.port \in Ports
    BY DEF EntryOK, QueueEntry
  <2>2. e.port \in AllPorts /\ e.port[2] # 0
    BY <2>1, PortFacts
  <2> QED BY <2>1, <2>2, PortFacts
<1>2. IsRoute(e.path) /\ Finds(e.path, e.port[1]) /\ GetHopCount(e.path) + 1 < PathLen
  BY Uncut DEF EntryOK, HasRoom
<1>3. Arrival(Cable, RouteAcross(e)) = Across(Cable, Arrival(Cable, e.path), e.port[2])
  BY <1>1, <1>2, OneHopMore DEF RouteAcross
<1> QED BY <1>1, <1>2, <1>3 DEF Across, Finds

(* The next port is taken, or the traversal is over: what is left to do is *)
(* still in the stack, or is done next.                                    *)
LEMMA TraverseMinds ==
    ASSUME FabricOK, cut = {}, UNCHANGED fabric, node_map' = node_map,
           NEW queue, QueueOK(queue), NEW links, remote' = links, Traverse(queue, links),
           NEW miss, WholeMinds(miss), IsKnown(Root),
           RootIsSwitch /\ Loops(miss) # {} => IsLeft(Root, miss, queue, links),
           \A n \in Roomy : IsLeft(n, miss, queue, links)
    PROVE  MissOK(miss)'
<1> DEFINE open == {i \in DOMAIN queue : IsOpen(queue[i], links)}
<1>1. first' = <<>> /\ pc' \in {"done", "probe"}
  BY DEF Traverse
<1>2. Cable' = Cable /\ Root' = Root /\ RootIsSwitch' = RootIsSwitch
  BY SameFabric
<1>3. /\ \A p : IsNoted(p, links)' = IsNoted(p, links)
      /\ CablesBut(miss)' = CablesBut(miss) /\ Loops(miss)' = Loops(miss)
      /\ WholeMinds(miss)' /\ Roomy' = Roomy /\ IsKnown(Root)'
  BY SameMinds
<1>4. \A p \in DOMAIN Cable : p \in Ports /\ p[2] # 0
  <2>1. \A p \in DOMAIN Cable : p \in Ports
    BY CableFacts
  <2> QED BY <2>1, PortFacts
<1>5. \A i \in DOMAIN queue : \A p \in DOMAIN Cable :
         queue[i].port = p /\ HasRoom(queue[i].path) /\ i \notin open => IsNoted(p, links)
  BY <1>4 DEF IsOpen, IsNoted
<1>6. CallMinds(miss)'
  BY <1>1 DEF CallMinds
<1>7. CASE open = {}
  <2>1. pc' = "done" /\ stack' = <<>>
    BY <1>7 DEF Traverse
  <2>2. \A n : IsLeft(n, miss, queue, links) => \A p \in CablesBut(miss) : p[1] = n => IsNoted(p, links)
    BY <1>5, <1>7 DEF IsLeft, IsQueued, CablesBut
  <2>3. \A p : IsNoted(p, links)' = IsNoted(p, remote)'
    OBVIOUS
  <2>4. \A n : IsLeft(n, miss, queue, links) => IsMinded(n, miss)'
    BY <1>3, <2>2, <2>3 DEF IsMinded
  <2>5. PlaceMinds'
    BY <1>1, <1>3, <2>1 DEF PlaceMinds
  <2>6. RootMinds(miss)'
    <3>1. RootIsSwitch /\ Loops(miss) # {} => IsMinded(Root, miss)'
      <4>1. PICK n : n = Root /\ n = Root'
        BY <1>2
      <4>2. RootIsSwitch /\ Loops(miss) # {} => IsMinded(n, miss)'
        BY <2>4, <4>1
      <4> QED BY <4>1, <4>2 DEF IsMinded
    <3> QED BY <1>2, <1>3, <3>1 DEF RootMinds
  <2>7. SwitchesMind(miss)'
    BY <1>3, <2>4 DEF SwitchesMind
  <2> QED BY <1>3, <1>6, <2>5, <2>6, <2>7 DEF MissOK
<1>8. CASE open # {}
  <2> DEFINE i == Min(open)
             e == queue[i]
  <2>1. /\ pc' = "probe" /\ stack' = SubSeq(queue, i + 1, Len(queue))
        /\ item' = [port |-> e.port, path |-> RouteAcross(e)]
    BY <1>8 DEF Traverse
  <2>2. i \in open /\ \A j \in open : i <= j
    <3>1. open \in SUBSET DOMAIN queue
      OBVIOUS
    <3>2. DOMAIN queue \subseteq Nat
      BY DEF QueueOK
    <3> HIDE DEF open
    <3>3. \E k \in open : \A j \in open : k <= j
      BY <1>8, <3>1, <3>2, LeastNat
    <3> QED BY <3>3 DEF Min
  <2>3. i \in DOMAIN queue /\ HasRoom(e.path)
    BY <2>2 DEF IsOpen
  <2> HIDE DEF i
  <2>4. PICK rest : rest = SubSeq(queue, i + 1, Len(queue))
    OBVIOUS
  <2>5. \A j \in DOMAIN queue : i < j => j - i \in DOMAIN rest /\ rest[j - i] = queue[j]
    <3>1. queue \in Seq(QueueEntry)
      BY DEF QueueOK
    <3> QED BY <2>3, <2>4, <3>1, SMTT(30)
  <2>6. EntryOK(e) /\ i \in Nat
    BY <2>3 DEF QueueOK
  <2>7. PICK it : it = [port |-> e.port, path |-> RouteAcross(e)]
    OBVIOUS
  <2>8. stack' = rest /\ item' = it
    BY <2>1, <2>4, <2>7
  <2>9. ASSUME NEW p \in DOMAIN Cable, IsQueued(queue, p) \/ IsNoted(p, links)
        PROVE  IsQueued(rest, p) \/ it.port = p \/ IsNoted(p, links)
    <3>1. ASSUME NEW j \in DOMAIN queue, queue[j].port = p, HasRoom(queue[j].path)
          PROVE  IsQueued(rest, p) \/ it.port = p \/ IsNoted(p, links)
      <4>0. j \in Nat
        BY DEF QueueOK
      <4>1. CASE i < j
        BY <4>1, <2>5, <3>1 DEF IsQueued
      <4>2. CASE i = j
        BY <4>2, <2>7, <3>1
      <4>3. CASE j < i
        <5>1. j \notin open
          BY <2>2, <2>6, <4>0, <4>3
        <5> QED BY <5>1, <1>5, <3>1
      <4> QED BY <4>0, <4>1, <4>2, <4>3, <2>6
    <3> QED BY <3>1, <2>9 DEF IsQueued
  <2>10. \A n : IsLeft(n, miss, queue, links) =>
            \A p \in CablesBut(miss) : p[1] = n =>
                IsQueued(rest, p) \/ it.port = p \/ IsNoted(p, links)
    BY <2>9 DEF IsLeft, CablesBut
  <2>11. ASSUME NEW n, IsLeft(n, miss, queue, links) PROVE IsMinded(n, miss)'
    <3>1. \A p : IsNoted(p, links)' = IsNoted(p, remote)'
      OBVIOUS
    <3>2. \A p : IsQueued(rest, p) => IsQueued(stack', p)
      BY <2>8
    <3>3. \A p : it.port = p => IsAsked(p)'
      BY <2>1, <2>8 DEF IsAsked
    <3>4. \A p \in CablesBut(miss) : p[1] = n => IsQueued(rest, p) \/ it.port = p \/ IsNoted(p, links)
      BY <2>10, <2>11
    <3>5. \A p \in CablesBut(miss)' : p[1] = n => IsQueued(stack, p)' \/ IsAsked(p)' \/ IsNoted(p, remote)'
      <4>1. \A p : IsQueued(stack, p)' <=> IsQueued(stack', p)
        BY DEF IsQueued
      <4> QED BY <1>3, <3>1, <3>2, <3>3, <3>4, <4>1
    <3> QED BY <3>5 DEF IsMinded
  <2>12. PlaceMinds'
    <3>1. it.port \in DOMAIN Cable => Arrival(Cable, it.path) = Cable[it.port]
      BY <2>3, <2>6, <2>7, ItemCrosses
    <3>2. Arrival(Cable, it.path)' = Arrival(Cable, it.path)
      BY SameFabric
    <3>3. item'.port \in DOMAIN Cable' => Arrival(Cable, item.path)' = Cable'[item'.port]
      BY <1>2, <2>8, <3>1, <3>2
    <3> QED BY <1>1, <1>3, <2>1, <3>3 DEF PlaceMinds
  <2>13. RootMinds(miss)'
    <3>1. RootIsSwitch /\ Loops(miss) # {} => IsMinded(Root, miss)'
      <4>1. PICK n : n = Root /\ n = Root'
        BY <1>2
      <4>2. RootIsSwitch /\ Loops(miss) # {} => IsMinded(n, miss)'
        BY <2>11, <4>1
      <4> QED BY <4>1, <4>2 DEF IsMinded
    <3> QED BY <1>2, <1>3, <3>1 DEF RootMinds
  <2>14. SwitchesMind(miss)'
    BY <1>3, <2>11 DEF SwitchesMind
  <2> QED BY <1>3, <1>6, <2>12, <2>13, <2>14 DEF MissOK
<1> QED BY <1>7, <1>8

(* The first hop goes on: a cable from the root to itself is followed, or  *)
(* its ports are in the stack.                                             *)
LEMMA FirstHopMinds ==
    ASSUME FabricOK, cut = {}, UNCHANGED fabric, node_map' = node_map,
           NEW ports \in Seq(PortRecord), \A i \in DOMAIN ports : ports[i].number \in 1..NPorts[Root],
           NEW queue, QueueOK(queue), remote' = remote, FirstHop(ports, queue),
           NEW miss, WholeMinds(miss), IsKnown(Root),
           RootIsSwitch => \A r \in Loops(miss) :
               IsHop(ports, r) \/ IsLeft(Root, miss, queue, remote),
           \A n \in Roomy : IsLeft(n, miss, queue, remote)
    PROVE  MissOK(miss)'
<1>1. CASE ports = <<>>
  <2>1. Traverse(queue, remote)
    BY <1>1 DEF FirstHop
  <2>2. \A r : ~IsHop(ports, r)
    BY <1>1 DEF IsHop
  <2>3. RootIsSwitch /\ Loops(miss) # {} => IsLeft(Root, miss, queue, remote)
    BY <2>2
  <2>4. PICK links : links = remote
    OBVIOUS
  <2> QED BY <2>1, <2>3, <2>4, TraverseMinds
<1>2. CASE ports # <<>>
  <2>1. /\ pc' = "first" /\ job' = Call(FirstHopPath(Head(ports).number))
        /\ first' = Tail(ports) /\ stack' = queue
    BY <1>2 DEF FirstHop
  <2>2. PICK q : q = Head(ports).number
    OBVIOUS
  <2>3. PICK rest : rest = Tail(ports)
    OBVIOUS
  <2>4. /\ 1 \in DOMAIN ports /\ ports[1] = Head(ports)
        /\ \A i \in DOMAIN rest : i + 1 \in DOMAIN ports /\ rest[i] = ports[i + 1]
        /\ \A i \in DOMAIN ports \ {1} : i - 1 \in DOMAIN rest /\ rest[i - 1] = ports[i]
    <3>1. 1 \in DOMAIN ports /\ ports[1] = Head(ports)
      BY <1>2
    <3>2. \A i \in DOMAIN rest : i + 1 \in DOMAIN ports /\ rest[i] = ports[i + 1]
      BY <1>2, <2>3
    <3>3. \A i \in DOMAIN ports \ {1} : i - 1 \in DOMAIN rest /\ rest[i - 1] = ports[i]
      BY <1>2, <2>3, SMTT(30)
    <3> QED BY <3>1, <3>2, <3>3
  <2>5. q \in 1..NPorts[Root]
    <3>1. 1 \in DOMAIN ports /\ q = ports[1].number
      BY <2>2, <2>4, ZenonT(30)
    <3> QED BY <3>1, ZenonT(30)
  <2>6. \A r : IsHop(ports, r) => q = r[2] \/ IsHop(rest, r)
    BY <2>2, <2>4 DEF IsHop
  <2>7. Cable' = Cable /\ Root' = Root /\ RootIsSwitch' = RootIsSwitch
    BY SameFabric
  <2>8. /\ \A p, links : IsNoted(p, links)' = IsNoted(p, links)
        /\ CablesBut(miss)' = CablesBut(miss) /\ Loops(miss)' = Loops(miss)
        /\ WholeMinds(miss)' /\ Roomy' = Roomy /\ IsKnown(Root)'
        /\ \A k : FirstHopPath(k)' = FirstHopPath(k)
    BY SameMinds
  <2>9. job'.phase = "nodeInfo" /\ job'.path = FirstHopPath(q)
    BY <2>1, <2>2 DEF Call
  <2>10. JobMinds(miss)'
    BY <2>9 DEF JobMinds
  <2>11. CallMinds(miss)'
    BY <2>1, <2>5, <2>7, <2>8, <2>9, <2>10 DEF CallMinds
  <2>12. PlaceMinds'
    <3>1. \A i \in DOMAIN rest : rest[i].number \in 1..NPorts[Root]
      BY <2>4
    <3> QED BY <2>1, <2>3, <2>7, <2>8, <3>1 DEF PlaceMinds
  <2>13. ASSUME NEW n, IsLeft(n, miss, queue, remote) PROVE IsMinded(n, miss)'
    <3>1. \A p : IsNoted(p, remote)' = IsNoted(p, remote)
      <4>1. PICK links : links = remote
        OBVIOUS
      <4>2. \A p : IsNoted(p, links)' = IsNoted(p, links)
        BY <2>8
      <4>3. \A p : IsNoted(p, remote)' = IsNoted(p, links)'
        BY <4>1
      <4> QED BY <4>1, <4>2, <4>3
    <3>2. \A p : IsQueued(queue, p) => IsQueued(stack, p)'
      BY <2>1 DEF IsQueued
    <3>3. \A p \in CablesBut(miss)' : p[1] = n => IsQueued(stack, p)' \/ IsNoted(p, remote)'
      BY <2>8, <2>13, <3>1, <3>2 DEF IsLeft
    <3> QED BY <3>3 DEF IsMinded
  <2>14. RootMinds(miss)'
    <3>1. PICK n : n = Root /\ n = Root'
      BY <2>7
    <3>2. ASSUME RootIsSwitch, NEW r \in Loops(miss)
          PROVE  IsHop(first', r) \/ IsFollowed(r)' \/ IsMinded(n, miss)'
      <4>1. CASE q = r[2]
        BY <2>1, <2>8, <2>9, <4>1 DEF IsFollowed
      <4>2. CASE IsHop(rest, r)
        BY <2>1, <2>3, <4>2
      <4>3. CASE IsLeft(n, miss, queue, remote)
        BY <2>13, <4>3
      <4> QED BY <2>6, <3>1, <3>2, <4>1, <4>2, <4>3
    <3>3. IsMinded(n, miss)' => IsMinded(Root, miss)'
      BY <3>1 DEF IsMinded
    <3>4. \A r : IsHop(first', r) <=> IsHop(first, r)'
      BY DEF IsHop
    <3> QED BY <2>7, <2>8, <3>2, <3>3, <3>4 DEF RootMinds
  <2>15. SwitchesMind(miss)'
    BY <2>8, <2>13 DEF SwitchesMind
  <2> QED BY <2>8, <2>11, <2>12, <2>14, <2>15 DEF MissOK
<1> QED BY <1>1, <1>2

(* The ports followed are ports of the node, and every cabled one is but   *)
(* for the one that is missed.                                             *)
LEMMA EligibleCoversBut ==
    ASSUME FabricOK, cut = {}, IsCabling(cabling), NEW node, RecordOK(node),
           NEW miss, IsWholeBut(node, NPorts[node.guid], miss)
    PROVE  \A p \in CablesBut(miss) : p[1] = node.guid =>
              \E k \in DOMAIN EligiblePorts(node) : EligiblePorts(node)[k].number = p[2]
<1> DEFINE indices == {i \in DOMAIN node.ports : IsEligible(node.ports[i])}
           ports == EligiblePorts(node)
<1>1. indices \in SUBSET DOMAIN node.ports /\ node.ports \in Seq(PortRecord)
  BY DEF RecordOK, NodeShape
<1>2. \A i \in DOMAIN node.ports : IsEligible(node.ports[i]) => i \in indices
  OBVIOUS
<1>3. ports = Kept(node.ports, indices)
  BY DEF EligiblePorts, Filter
<1> HIDE DEF indices, ports
<1>4. \A i \in indices : \E k \in DOMAIN ports : ports[k] = node.ports[i]
  BY <1>1, <1>3, KeptElements
<1>5. ASSUME NEW p \in CablesBut(miss), p[1] = node.guid
      PROVE  \E k \in DOMAIN ports : ports[k].number = p[2]
  <2>1. p \in DOMAIN Cable /\ p = <<node.guid, p[2]>> /\ p[2] \in 1..NPorts[node.guid]
    BY <1>5, Uncut, CablePairs DEF CablesBut
  <2>2. PICK i \in DOMAIN node.ports : node.ports[i].number = p[2] /\ IsEligible(node.ports[i])
    BY <1>5, <2>1 DEF IsWholeBut, CablesBut
  <2> QED BY <2>2, <1>2, <1>4
<1> QED BY <1>5 DEF ports

(* What a switch that has been found adds to the stack.                    *)
LEMMA EntriesCoverBut ==
    ASSUME FabricOK, cut = {}, IsCabling(cabling), NEW node, RecordOK(node),
           node.guid \in Switches, NEW path, HasRoom(path),
           NEW miss, IsWholeBut(node, NPorts[node.guid], miss)
    PROVE  \A p \in CablesBut(miss) : p[1] = node.guid => IsQueued(Entries(node, path), p)
<1> DEFINE ports == EligiblePorts(node)
           queue == Entries(node, path)
<1>1. \A p \in CablesBut(miss) : p[1] = node.guid => \E k \in DOMAIN ports : ports[k].number = p[2]
  BY EligibleCoversBut
<1>2. queue = [k \in DOMAIN ports |-> [port |-> <<node.guid, ports[k].number>>, path |-> path]]
  BY DEF Entries
<1> HIDE DEF ports, queue
<1>3. /\ DOMAIN queue = DOMAIN ports
      /\ \A k \in DOMAIN ports : /\ queue[k].path = path
                                 /\ queue[k].port = <<node.guid, ports[k].number>>
  BY <1>2
<1>4. ASSUME NEW p \in CablesBut(miss), p[1] = node.guid PROVE IsQueued(queue, p)
  <2>1. p = <<node.guid, p[2]>>
    BY <1>4, Uncut, CablePairs DEF CablesBut
  <2>2. PICK k \in DOMAIN ports : ports[k].number = p[2]
    BY <1>1, <1>4
  <2> QED BY <1>3, <2>1, <2>2 DEF IsQueued
<1> QED BY <1>4 DEF queue

(* What is pushed joins what is in the stack.                              *)
LEMMA PushMinds ==
    ASSUME NEW queue, QueueOK(queue), NEW more, QueueOK(more)
    PROVE  \A p : IsQueued(queue, p) \/ IsQueued(more, p) => IsQueued(queue \o more, p)
<1>1. PICK all : all = queue \o more
  OBVIOUS
<1>2. queue \in Seq(QueueEntry) /\ more \in Seq(QueueEntry)
  BY DEF QueueOK
<1>3. /\ \A i \in DOMAIN queue : i \in DOMAIN all /\ all[i] = queue[i]
      /\ \A k \in DOMAIN more : k + Len(queue) \in DOMAIN all /\ all[k + Len(queue)] = more[k]
  BY <1>1, <1>2
<1> QED BY <1>1, <1>3 DEF IsQueued

(* Linking a port is all that is to be done for it.                        *)
LEMMA LinkMinds ==
    ASSUME FabricOK, cut = {}, IsCabling(cabling), NEW p \in DOMAIN Cable, IsKnown(Cable[p][1]),
           NEW links, links = Linked(p, Cable[p])
    PROVE  IsNoted(p, links) /\ \A q : IsNoted(q, remote) => IsNoted(q, links)
<1>1. PICK far : far = Cable[p]
  OBVIOUS
<1>2. CASE far[2] \in PortNumbers(node_map[far[1]])
  <2>1. links = Put(Put(remote, far, p), p, far)
    BY <1>1, <1>2 DEF Linked
  <2>2. DOMAIN links = DOMAIN remote \cup {p, far}
    BY <2>1 DEF Put
  <2> QED BY <2>2 DEF IsNoted
<1>3. CASE far[2] \notin PortNumbers(node_map[far[1]])
  <2>1. links = remote
    BY <1>1, <1>3 DEF Linked
  <2> QED BY <1>1, <1>3, <2>1 DEF IsNoted
<1> QED BY <1>2, <1>3

(* What is said when no port is missed yet stays true whichever is missed. *)
LEMMA MissMore ==
    ASSUME FabricOK, NEW miss, NEW now, now = miss \/ miss = Nowhere
    PROVE  /\ CablesBut(now) \subseteq CablesBut(miss) /\ (MissOK(miss) => MissOK(now))
           /\ \A node, last : IsWholeBut(node, last, miss) => IsWholeBut(node, last, now)
<1>1. CablesBut(now) \subseteq CablesBut(miss)
  <2>1. \A p \in DOMAIN Cable : p # Nowhere
    <3>1. \A p \in DOMAIN Cable : p \in Ports
      BY CableFacts
    <3> QED BY <3>1, PortFacts
  <2> QED BY <2>1 DEF CablesBut
<1>2. \A node, last : IsWholeBut(node, last, miss) => IsWholeBut(node, last, now)
  BY MissOne
<1>3. WholeMinds(miss) => WholeMinds(now)
  BY <1>2 DEF WholeMinds
<1>4. CallMinds(miss) => CallMinds(now)
  BY <1>2 DEF CallMinds, JobMinds
<1>5. \A n : IsMinded(n, miss) => IsMinded(n, now)
  BY <1>1 DEF IsMinded
<1>6. Loops(now) \subseteq Loops(miss)
  BY <1>1 DEF Loops
<1>7. RootMinds(miss) => RootMinds(now)
  BY <1>5, <1>6 DEF RootMinds
<1>8. SwitchesMind(miss) => SwitchesMind(now)
  BY <1>5 DEF SwitchesMind
<1> QED BY <1>1, <1>2, <1>3, <1>4, <1>7, <1>8 DEF MissOK

(* What a node that has been found adds to what is left to do.             *)
LEMMA FoundMinds ==
    ASSUME IInv, cut = {}, IsCabling(cabling), job.phase = "found",
           NEW miss, JobMinds(miss), WholeMinds(miss),
           NEW queue, queue = stack \o Entries(job.node, job.path)
    PROVE  /\ Finds(job.path, job.node.guid) /\ IsKnown(job.node.guid) /\ QueueOK(queue)
           /\ job.node = node_map[job.node.guid] /\ RecordOK(job.node)
           /\ \A p : IsQueued(stack, p) => IsQueued(queue, p)
           /\ job.node.guid \in Switches /\ HasRoom(job.path) =>
                 \A p \in CablesBut(miss) : p[1] = job.node.guid => IsQueued(queue, p)
<1>1. NodeInv /\ FabricOK /\ QueueOK(stack)
  BY DEF IInv, GraphInv, NodeInv, TraversalOK
<1>2. /\ RecordOK(job.node) /\ LeadsTo(job.path, job.node.guid) /\ IsKnown(job.node.guid)
      /\ job.node = node_map[job.node.guid]
  BY <1>1 DEF NodeInv, JobOK, IsKnown, JobMinds
<1>3. Finds(job.path, job.node.guid)
  BY <1>1, <1>2, Uncut
<1>4. PICK more : more = Entries(job.node, job.path)
  OBVIOUS
<1>5. QueueOK(more)
  BY <1>1, <1>4, EntriesOK
<1>6. QueueOK(queue) /\ \A p : IsQueued(stack, p) \/ IsQueued(more, p) => IsQueued(queue, p)
  BY <1>1, <1>4, <1>5, QueueConcat, PushMinds
<1>7. ASSUME job.node.guid \in Switches, HasRoom(job.path)
      PROVE  \A p \in CablesBut(miss) : p[1] = job.node.guid => IsQueued(queue, p)
  <2>1. IsWholeBut(job.node, NPorts[job.node.guid], miss)
    BY <1>2 DEF WholeMinds, IsKnown
  <2>2. \A p \in CablesBut(miss) : p[1] = job.node.guid => IsQueued(Entries(job.node, job.path), p)
    BY <1>1, <1>2, <1>7, <2>1, EntriesCoverBut
  <2> QED BY <1>4, <1>6, <2>2
<1> QED BY <1>2, <1>3, <1>6, <1>7

(* The first node has been found: the ports that are followed have all of  *)
(* its cables.                                                             *)
LEMMA RootFoundMinds ==
    ASSUME IInv, cut = {}, IsCabling(cabling), RootFound, NEW miss, MissOK(miss)
    PROVE  MissOK(miss)'
<1>1. /\ pc = "root" /\ job.phase = "found" /\ UNCHANGED fabric /\ node_map' = node_map
      /\ remote' = remote /\ FirstHop(EligiblePorts(job.node), stack)
  BY DEF RootFound, FirstHop, found
<1>2. /\ WholeMinds(miss) /\ JobMinds(miss)
      /\ DOMAIN node_map \subseteq {Root} /\ job.path = StartPath
  BY <1>1 DEF MissOK, CallMinds
<1>3. NodeInv /\ FabricOK /\ QueueOK(stack)
  BY DEF IInv, GraphInv, NodeInv, TraversalOK
<1>4. /\ IsKnown(job.node.guid) /\ job.node = node_map[job.node.guid] /\ RecordOK(job.node)
  <2>1. PICK queue : queue = stack \o Entries(job.node, job.path)
    OBVIOUS
  <2> QED BY <1>1, <1>2, <2>1, FoundMinds
<1>5. job.node.guid = Root
  BY <1>2, <1>4 DEF IsKnown
<1>6. PICK ports : ports = EligiblePorts(job.node)
  OBVIOUS
<1>7. CutOK
  BY <1>3, Uncut
<1>8. /\ ports \in Seq(PortRecord)
      /\ \A i \in DOMAIN ports : ports[i].number \in 1..NPorts[Root]
  <2>1. ports \in Seq(PortRecord)
    BY <1>4, <1>6, EligibleType
  <2> QED BY <1>3, <1>4, <1>5, <1>6, <1>7, <2>1, EligibleCovers
<1>9. IsWholeBut(job.node, NPorts[job.node.guid], miss)
  BY <1>2, <1>4 DEF WholeMinds, IsKnown
<1>10. \A r \in Loops(miss) : IsHop(ports, r)
  <2>1. \A p \in CablesBut(miss) : p[1] = job.node.guid =>
           \E k \in DOMAIN EligiblePorts(job.node) : EligiblePorts(job.node)[k].number = p[2]
    BY <1>3, <1>4, <1>9, EligibleCoversBut
  <2>2. \A p \in CablesBut(miss) : p[1] = Root => IsHop(ports, p)
    BY <1>5, <1>6, <2>1 DEF IsHop
  <2> QED BY <2>2 DEF Loops
<1>11. Roomy = {}
  BY <1>2 DEF Roomy
<1>12. IsKnown(Root) /\ FirstHop(ports, stack)
  BY <1>1, <1>4, <1>5, <1>6
<1> QED BY <1>1, <1>2, <1>3, <1>8, <1>10, <1>11, <1>12, FirstHopMinds

(* A switch's first hop leaves room for another.                           *)
LEMMA FirstHopRoom ==
    ASSUME FabricOK, RootIsSwitch, NEW q \in 1..NPorts[Root]
    PROVE  HasRoom(FirstHopPath(q))
<1>1. PICK path : path = FirstHopPath(q)
  OBVIOUS
<1>2. IsRegular(path) /\ Depth(path) = 1
  BY <1>1, FirstHopLeads
<1>3. path[0] # 0
  <2>1. 0 \in Index
    BY IndexFacts
  <2>2. path[0] = q
    BY <1>1, <2>1 DEF FirstHopPath, StartPath
  <2>3. q # 0
    OBVIOUS
  <2> QED BY <2>2, <2>3
<1>4. GetHopCount(path) \in 0..(PathLen - 1) /\ PathLen \in Nat /\ PathLen >= 2
  BY <1>2, HopCount, RouteAssumption DEF IsRegular
<1>5. GetHopCount(path) = 0
  BY <1>2, <1>3, <1>4 DEF Depth
<1> QED BY <1>1, <1>4, <1>5 DEF HasRoom

(* A cable from the root to itself that is followed leads to the root.     *)
LEMMA LoopLeads ==
    ASSUME FabricOK, cut = {}, IsCabling(cabling), NEW miss, NEW r \in Loops(miss)
    PROVE  /\ r = <<Root, r[2]>> /\ r[2] \in 1..NPorts[Root]
           /\ Finds(FirstHopPath(r[2]), Root)
<1>1. r \in DOMAIN Cable /\ r[1] = Root /\ Cable[r][1] = Root
  BY DEF Loops, CablesBut
<1>2. r = <<Root, r[2]>> /\ r[2] \in 1..NPorts[Root] /\ Cable[r] \in DOMAIN Cable
  BY <1>1, Uncut, CablePairs
<1>3. Cable[r] # Nowhere
  <2>1. Cable[r] \in Ports
    BY <1>2, CableFacts
  <2> QED BY <2>1, PortFacts
<1>4. Arrival(Cable, FirstHopPath(r[2])) =
         IF <<Root, r[2]>> \in DOMAIN Cable THEN Cable[<<Root, r[2]>>] ELSE Nowhere
  BY <1>2, FirstHopLeads
<1>5. Arrival(Cable, FirstHopPath(r[2])) = Cable[r]
  BY <1>1, <1>2, <1>4
<1> QED BY <1>1, <1>2, <1>3, <1>5 DEF Finds

(* A neighbour has been found: what it adds to the stack are the cables of *)
(* a switch, those of the root itself if the hop led back to it.           *)
LEMMA FirstFoundMinds ==
    ASSUME IInv, cut = {}, IsCabling(cabling), FirstFound, NEW miss, MissOK(miss)
    PROVE  MissOK(miss)'
<1>1. /\ pc = "first" /\ job.phase = "found" /\ UNCHANGED fabric /\ node_map' = node_map
      /\ remote' = remote /\ FirstHop(first, stack \o Entries(job.node, job.path))
  BY DEF FirstFound, FirstHop, found
<1>2. /\ WholeMinds(miss) /\ JobMinds(miss) /\ RootMinds(miss) /\ SwitchesMind(miss)
      /\ Begun /\ IsKnown(Root)
      /\ \A i \in DOMAIN first : first[i].number \in 1..NPorts[Root]
  BY <1>1 DEF MissOK, CallMinds, PlaceMinds, Begun
<1>3. FabricOK /\ first \in Seq(PortRecord)
  BY DEF IInv, GraphInv, NodeInv, TraversalOK
<1>4. PICK queue : queue = stack \o Entries(job.node, job.path)
  OBVIOUS
<1>5. PICK g : g = job.node.guid
  OBVIOUS
<1>6. /\ Finds(job.path, g) /\ QueueOK(queue)
      /\ \A p : IsQueued(stack, p) => IsQueued(queue, p)
      /\ g \in Switches /\ HasRoom(job.path) =>
            \A p \in CablesBut(miss) : p[1] = g => IsQueued(queue, p)
  BY <1>1, <1>2, <1>4, <1>5, FoundMinds
<1>7. \A n : IsMinded(n, miss) => IsLeft(n, miss, queue, remote)
  BY <1>1, <1>6 DEF IsMinded, IsLeft, IsAsked
<1>8. g \in Switches /\ HasRoom(job.path) => IsLeft(g, miss, queue, remote)
  BY <1>6 DEF IsLeft
<1>9. \A n \in Roomy : IsLeft(n, miss, queue, remote)
  <2> TAKE n \in Roomy
  <2>1. CASE IsHanded(n)
    <3>1. n = g /\ n \in Switches /\ HasRoom(job.path)
      BY <2>1, <1>5 DEF IsHanded, Roomy
    <3> QED BY <3>1, <1>8
  <2> QED BY <2>1, <1>2, <1>7 DEF SwitchesMind
<1>10. ASSUME RootIsSwitch, NEW r \in Loops(miss)
       PROVE  IsHop(first, r) \/ IsLeft(Root, miss, queue, remote)
  <2>1. CASE IsFollowed(r)
    <3>1. r[2] \in 1..NPorts[Root] /\ Finds(job.path, Root)
      BY <2>1, <1>3, <1>10, LoopLeads DEF IsFollowed
    <3>2. g = Root /\ HasRoom(job.path)
      BY <2>1, <3>1, <1>3, <1>6, <1>10, FirstHopRoom DEF Finds, IsFollowed
    <3> QED BY <3>2, <1>8, <1>10 DEF RootIsSwitch
  <2> QED BY <2>1, <1>2, <1>7, <1>10 DEF RootMinds
<1>11. FirstHop(first, queue)
  BY <1>1, <1>4
<1> QED BY <1>1, <1>2, <1>3, <1>6, <1>9, <1>10, <1>11, FirstHopMinds

(* There is no neighbour behind a port.                                    *)
LEMMA FirstLostMinds ==
    ASSUME IInv, cut = {}, FirstLost, NEW miss, MissOK(miss)
    PROVE  MissOK(miss)'
<1>1. /\ pc = "first" /\ job.phase = "lost" /\ UNCHANGED fabric /\ node_map' = node_map
      /\ remote' = remote /\ FirstHop(first, stack)
  BY DEF FirstLost, FirstHop, found
<1>2. /\ WholeMinds(miss) /\ RootMinds(miss) /\ SwitchesMind(miss)
      /\ Begun /\ IsKnown(Root)
      /\ \A i \in DOMAIN first : first[i].number \in 1..NPorts[Root]
  BY <1>1 DEF MissOK, PlaceMinds, Begun
<1>3. FabricOK /\ first \in Seq(PortRecord) /\ QueueOK(stack)
  BY DEF IInv, GraphInv, NodeInv, TraversalOK
<1>4. \A n : IsMinded(n, miss) => IsLeft(n, miss, stack, remote)
  BY <1>1 DEF IsMinded, IsLeft, IsAsked
<1>5. \A n \in Roomy : IsLeft(n, miss, stack, remote)
  BY <1>1, <1>2, <1>4 DEF SwitchesMind, IsHanded
<1>6. RootIsSwitch => \A r \in Loops(miss) :
          IsHop(first, r) \/ IsLeft(Root, miss, stack, remote)
  BY <1>1, <1>2, <1>4 DEF RootMinds, IsFollowed
<1> QED BY <1>1, <1>2, <1>3, <1>5, <1>6, FirstHopMinds

(* Nobody answered behind the current port: nothing is lost if there is    *)
(* nobody, or if this is the cable that is missed.                         *)
LEMMA SilenceMinds ==
    ASSUME FabricOK, cut = {}, UNCHANGED fabric, node_map' = node_map, QueueOK(stack),
           remote' = remote, Traverse(stack, remote),
           pc \in {"probe", "loop"}, job.phase # "found",
           NEW miss, MissOK(miss), IsAsked(item.port) => item.port \notin CablesBut(miss)
    PROVE  MissOK(miss)'
<1>1. /\ WholeMinds(miss) /\ RootMinds(miss) /\ SwitchesMind(miss)
      /\ Begun /\ IsKnown(Root) /\ first = <<>>
  BY DEF MissOK, PlaceMinds, Begun
<1>2. \A n : IsMinded(n, miss) => IsLeft(n, miss, stack, remote)
  BY DEF IsMinded, IsLeft, IsAsked
<1>3. \A n \in Roomy : IsLeft(n, miss, stack, remote)
  BY <1>1, <1>2 DEF SwitchesMind, IsHanded
<1>4. RootIsSwitch /\ Loops(miss) # {} => IsLeft(Root, miss, stack, remote)
  <2>1. \A r : ~IsHop(first, r) /\ ~IsFollowed(r)
    BY <1>1 DEF IsHop, IsFollowed
  <2> QED BY <2>1, <1>1, <1>2 DEF RootMinds
<1>5. PICK links : links = remote
  OBVIOUS
<1>6. remote' = links /\ Traverse(stack, links)
  BY <1>5
<1>7. \A n \in Roomy : IsLeft(n, miss, stack, links)
  BY <1>3, <1>5
<1>8. RootIsSwitch /\ Loops(miss) # {} => IsLeft(Root, miss, stack, links)
  BY <1>4, <1>5
<1> QED BY <1>1, <1>6, <1>7, <1>8, TraverseMinds

(* The node behind the current port is known: its cable is linked.         *)
LEMMA AnswerMinds ==
    ASSUME FabricOK, cut = {}, IsCabling(cabling), UNCHANGED fabric, node_map' = node_map,
           pc \in {"probe", "loop"}, item.port \in DOMAIN Cable, IsKnown(Cable[item.port][1]),
           NEW links, links = Linked(item.port, Cable[item.port]),
           NEW queue, QueueOK(queue), remote' = links, Traverse(queue, links),
           \A p : IsQueued(stack, p) => IsQueued(queue, p),
           NEW miss, MissOK(miss),
           \A n \in Roomy : IsHanded(n) => IsLeft(n, miss, queue, links)
    PROVE  MissOK(miss)'
<1>1. /\ WholeMinds(miss) /\ RootMinds(miss) /\ SwitchesMind(miss)
      /\ Begun /\ IsKnown(Root) /\ first = <<>>
  BY DEF MissOK, PlaceMinds, Begun
<1>2. IsNoted(item.port, links) /\ \A q : IsNoted(q, remote) => IsNoted(q, links)
  BY LinkMinds
<1>3. \A n : IsMinded(n, miss) => IsLeft(n, miss, queue, links)
  BY <1>2 DEF IsMinded, IsLeft, IsAsked
<1>4. \A n \in Roomy : IsLeft(n, miss, queue, links)
  BY <1>1, <1>3 DEF SwitchesMind
<1>5. RootIsSwitch /\ Loops(miss) # {} => IsLeft(Root, miss, queue, links)
  <2>1. \A r : ~IsHop(first, r) /\ ~IsFollowed(r)
    BY <1>1 DEF IsHop, IsFollowed
  <2> QED BY <2>1, <1>1, <1>3 DEF RootMinds
<1> QED BY <1>1, <1>4, <1>5, TraverseMinds

(* discover_node returns to the loop with a node.                          *)
LEMMA LoopFoundMinds ==
    ASSUME IInv, cut = {}, IsCabling(cabling), LoopFound, NEW miss, MissOK(miss)
    PROVE  MissOK(miss)'
<1>1. /\ pc = "loop" /\ job.phase = "found" /\ UNCHANGED fabric /\ node_map' = node_map
      /\ remote' = Linked(item.port, <<job.node.guid, probed[2]>>)
      /\ Traverse(stack \o Entries(job.node, job.path), remote')
  BY DEF LoopFound, found
<1>2. WholeMinds(miss) /\ JobMinds(miss)
  BY <1>1 DEF MissOK, CallMinds
<1>3. NodeInv /\ FabricOK /\ ItemOK(item)
  BY <1>1 DEF IInv, GraphInv, NodeInv, TraversalOK
<1>4. PICK queue : queue = stack \o Entries(job.node, job.path)
  OBVIOUS
<1>5. PICK g : g = job.node.guid
  OBVIOUS
<1>6. /\ IsKnown(g) /\ QueueOK(queue)
      /\ \A p : IsQueued(stack, p) => IsQueued(queue, p)
      /\ g \in Switches /\ HasRoom(job.path) =>
            \A p \in CablesBut(miss) : p[1] = g => IsQueued(queue, p)
  BY <1>1, <1>2, <1>4, <1>5, FoundMinds
<1>7. /\ job.path = item.path /\ probed = Arrival(cabling, item.path) /\ probed # Nowhere
      /\ probed \in AllPorts \cup {Nowhere}
  BY <1>1 DEF IInv, TraversalOK
<1>8. probed = <<g, probed[2]>>
  <2>1. probed[1] = g
    BY <1>1, <1>3, <1>5, <1>7 DEF NodeInv, JobOK, LeadsTo
  <2> QED BY <1>7, <2>1, PortFacts
<1>9. item.port \in DOMAIN Cable /\ Cable[item.port] = probed
  BY <1>3, <1>7, Uncut DEF ItemOK
<1>10. PICK links : links = Linked(item.port, probed)
  OBVIOUS
<1>11. remote' = links
  BY <1>1, <1>5, <1>8, <1>10
<1>12. Traverse(queue, links)
  BY <1>1, <1>4, <1>11
<1>13. links = Linked(item.port, Cable[item.port]) /\ IsKnown(Cable[item.port][1])
  <2>1. probed[1] = g
    BY <1>8
  <2> QED BY <1>6, <1>9, <1>10, <2>1
<1>14. \A n \in Roomy : IsHanded(n) => IsLeft(n, miss, queue, links)
  <2> SUFFICES ASSUME NEW n \in Roomy, IsHanded(n) PROVE IsLeft(n, miss, queue, links)
    OBVIOUS
  <2>1. n = g /\ n \in Switches /\ HasRoom(job.path)
    BY <1>5 DEF IsHanded, Roomy
  <2> QED BY <2>1, <1>6 DEF IsLeft
<1> QED BY <1>1, <1>3, <1>6, <1>9, <1>11, <1>12, <1>13, <1>14, AnswerMinds

(* It returns without one, and the port has been forgotten already.        *)
LEMMA LoopLostMinds ==
    ASSUME IInv, cut = {}, LoopLost, NEW miss, MissOK(miss)
    PROVE  MissOK(miss)'
<1>1. /\ pc = "loop" /\ job.phase = "lost" /\ UNCHANGED fabric /\ node_map' = node_map
      /\ remote' = remote /\ Traverse(stack, remote)
  BY DEF LoopLost, found
<1>2. FabricOK /\ QueueOK(stack)
  BY DEF IInv, GraphInv, NodeInv, TraversalOK
<1>3. ~IsAsked(item.port)
  BY <1>1 DEF IsAsked
<1> QED BY <1>1, <1>2, <1>3, SilenceMinds

(* The loop asks who is behind its current port.                           *)
LEMMA ProbeMinds ==
    ASSUME IInv, cut = {}, IsCabling(cabling), Probe, faults' <= 1,
           NEW miss, IsMissed(miss), MissOK(miss)
    PROVE  faults' \in Nat /\ \E now : IsMissed(now)' /\ MissOK(now)'
<1> DEFINE port == Arrival(Cable, item.path)
<1>1. pc = "probe" /\ UNCHANGED fabric /\ node_map' = node_map
  BY DEF Probe, found
<1>2. FabricOK /\ QueueOK(stack) /\ ItemOK(item)
  BY <1>1 DEF IInv, GraphInv, NodeInv, TraversalOK
<1>3. job.phase = "none"
  BY <1>1 DEF IInv, PlaceOK
<1>4. PICK outcome \in Outcome(item.path) :
         /\ Note(outcome)
         /\ \/ /\ outcome.kind = "Ok" /\ IsKnown(port[1])
               /\ probed' = port /\ remote' = Linked(item.port, port)
               /\ Traverse(stack, remote')
            \/ /\ outcome.kind = "Ok" /\ ~IsKnown(port[1])
               /\ probed' = port /\ pc' = "loop" /\ job' = Call(item.path)
               /\ UNCHANGED <<remote, switches, hcas, stack, first, item>>
            \/ /\ outcome.kind # "Ok" /\ Traverse(stack, remote) /\ UNCHANGED <<remote, probed>>
  BY DEF Probe
<1>5. /\ faults' \in Nat /\ faults \in Nat
      /\ \/ faults' = faults /\ (outcome.kind = "Ok" <=> port # Nowhere)
         \/ faults = 0 /\ faults' = 1 /\ outcome.kind # "Ok"
  BY <1>4, OneFault DEF IsMissed
<1>6. outcome.kind = "Ok" => item.port \in DOMAIN Cable /\ port = Cable[item.port]
  <2> SUFFICES ASSUME outcome.kind = "Ok"
               PROVE  item.port \in DOMAIN Cable /\ port = Cable[item.port]
    OBVIOUS
  <2>1. port # Nowhere
    BY <1>5
  <2>2. Arrival(cabling, item.path) = port
    BY <1>2, <2>1, Reached
  <2> QED BY <1>2, <2>1, <2>2, Uncut DEF ItemOK
<1>7. outcome.kind # "Ok" /\ faults' = faults => item.port \notin DOMAIN Cable
  <2> SUFFICES ASSUME outcome.kind # "Ok", faults' = faults, item.port \in DOMAIN Cable
               PROVE  FALSE
    OBVIOUS
  <2>1. port = Nowhere
    BY <1>5
  <2>2. port = Cable[item.port]
    BY <1>1 DEF MissOK, PlaceMinds
  <2>3. Cable[item.port] # Nowhere
    <3>1. Cable[item.port] \in Ports
      BY <1>2, CableFacts
    <3> QED BY <3>1, PortFacts
  <2> QED BY <2>1, <2>2, <2>3
<1>8. \A now : IsMissed(now)' <=> (faults' = 0 => now = Nowhere)
  BY <1>5 DEF IsMissed
<1>9. IsMissed(miss)' <=> (faults' = 0 => miss = Nowhere)
  BY <1>5 DEF IsMissed
<1>10. faults' = faults => IsMissed(miss)'
  BY <1>9 DEF IsMissed
<1> HIDE DEF port
<1>11. CASE outcome.kind = "Ok" /\ IsKnown(port[1])
  <2>1. PICK links : links = Linked(item.port, port)
    OBVIOUS
  <2>2. remote' = links /\ Traverse(stack, links)
    BY <1>4, <1>11, <2>1
  <2>3. links = Linked(item.port, Cable[item.port]) /\ IsKnown(Cable[item.port][1])
    BY <1>6, <1>11, <2>1
  <2>4. \A n \in Roomy : IsHanded(n) => IsLeft(n, miss, stack, links)
    BY <1>1 DEF IsHanded
  <2>5. MissOK(miss)'
    BY <1>1, <1>2, <1>6, <1>11, <2>2, <2>3, <2>4, AnswerMinds
  <2> QED BY <1>5, <1>10, <1>11, <2>5
<1>12. CASE outcome.kind = "Ok" /\ ~IsKnown(port[1])
  <2>1. /\ pc' = "loop" /\ job' = Call(item.path)
        /\ UNCHANGED <<remote, switches, hcas, stack, first, item>>
    BY <1>4, <1>12
  <2>2. job'.phase = "nodeInfo"
    BY <2>1 DEF Call
  <2>3. Cable' = Cable /\ Root' = Root /\ RootIsSwitch' = RootIsSwitch
    BY <1>1, SameFabric
  <2>4. /\ \A p, links : IsNoted(p, links)' = IsNoted(p, links)
        /\ CablesBut(miss)' = CablesBut(miss) /\ Loops(miss)' = Loops(miss)
        /\ WholeMinds(miss)' = WholeMinds(miss) /\ Roomy' = Roomy /\ IsKnown(Root)' = IsKnown(Root)
    BY <1>1, SameMinds
  <2>5. CallMinds(miss)'
    BY <2>1, <2>2 DEF CallMinds, JobMinds
  <2>6. PlaceMinds'
    <3>1. Arrival(Cable, item.path)' = Arrival(Cable, item.path)
      <4>1. PICK path : path = item.path /\ path = item'.path
        BY <2>1
      <4>2. Arrival(Cable, path)' = Arrival(Cable, path)
        BY <1>1, SameFabric
      <4>3. Arrival(Cable, item.path)' = Arrival(Cable, path)'
        BY <4>1
      <4> QED BY <4>1, <4>2, <4>3
    <3>2. PlaceMinds
      BY DEF MissOK
    <3>3. first' = <<>> /\ IsKnown(Root)
      BY <1>1, <2>1, <3>2 DEF PlaceMinds, Begun
    <3>4. item'.port \in DOMAIN Cable' => Arrival(Cable, item.path)' = Cable'[item'.port]
      BY <1>1, <2>1, <2>3, <3>1, <3>2 DEF PlaceMinds
    <3> QED BY <2>1, <2>4, <3>3, <3>4 DEF PlaceMinds
  <2>7. \A p : IsNoted(p, remote)' = IsNoted(p, remote)
    <3>1. PICK links : links = remote /\ links = remote'
      BY <2>1
    <3>2. \A p : IsNoted(p, links)' = IsNoted(p, links)
      BY <2>4
    <3>3. \A p : IsNoted(p, remote)' = IsNoted(p, links)'
      BY <3>1
    <3> QED BY <3>1, <3>2, <3>3
  <2>8. \A p : IsQueued(stack, p)' = IsQueued(stack, p) /\ (IsAsked(p) => IsAsked(p)')
    BY <1>1, <2>1, <2>2 DEF IsQueued, IsAsked
  <2>9. \A n : IsMinded(n, miss) => IsMinded(n, miss)'
    BY <2>4, <2>7, <2>8 DEF IsMinded
  <2>10. RootMinds(miss) /\ Begun /\ first = <<>> /\ SwitchesMind(miss)
    BY <1>1 DEF MissOK, PlaceMinds, Begun
  <2>11. RootMinds(miss)'
    <3>1. \A r : ~IsHop(first, r) /\ ~IsFollowed(r)
      BY <1>1, <2>10 DEF IsHop, IsFollowed
    <3>2. PICK n : n = Root /\ n = Root'
      BY <2>3
    <3>3. RootIsSwitch => \A r \in Loops(miss) : IsMinded(n, miss)
      BY <2>10, <3>1, <3>2 DEF RootMinds
    <3>4. RootIsSwitch' => \A r \in Loops(miss)' : IsMinded(n, miss)'
      BY <2>3, <2>4, <2>9, <3>3
    <3>5. IsMinded(n, miss)' => IsMinded(Root, miss)'
      BY <3>2 DEF IsMinded
    <3> QED BY <3>4, <3>5 DEF RootMinds
  <2>12. SwitchesMind(miss)'
    <3>1. \A n : ~IsHanded(n)
      BY <1>1 DEF IsHanded
    <3> QED BY <2>4, <2>9, <2>10, <3>1 DEF SwitchesMind
  <2>13. WholeMinds(miss)'
    BY <2>4 DEF MissOK
  <2>14. MissOK(miss)'
    BY <2>5, <2>6, <2>11, <2>12, <2>13 DEF MissOK
  <2> QED BY <1>5, <1>10, <1>12, <2>14
<1>13. CASE outcome.kind # "Ok"
  <2>1. Traverse(stack, remote) /\ remote' = remote
    BY <1>4, <1>13
  <2>2. CASE faults' = faults
    <3>1. item.port \notin CablesBut(miss)
      BY <1>7, <1>13, <2>2 DEF CablesBut
    <3>2. MissOK(miss)'
      BY <1>1, <1>2, <1>3, <2>1, <3>1, SilenceMinds
    <3> QED BY <1>5, <1>10, <2>2, <3>2
  <2>3. CASE faults = 0 /\ faults' = 1
    <3>1. PICK now : now = item.port
      OBVIOUS
    <3>2. MissOK(now)
      BY <1>2, <2>3, MissMore DEF IsMissed
    <3>3. item.port \notin CablesBut(now)
      BY <3>1 DEF CablesBut
    <3>4. MissOK(now)'
      BY <1>1, <1>2, <1>3, <2>1, <3>2, <3>3, SilenceMinds
    <3> QED BY <1>5, <1>8, <2>3, <3>4
  <2> QED BY <1>5, <2>2, <2>3
<1> QED BY <1>11, <1>12, <1>13

(* A call goes on, or is lost without anything being lost.                 *)
LEMMA CallStays ==
    ASSUME FabricOK, UNCHANGED fabric, UNCHANGED traversal, node_map' = node_map,
           remote' = remote, job'.path = job.path,
           pc \in {"root", "first", "loop"}, job.phase \notin {"found", "lost"},
           NEW miss, MissOK(miss), JobMinds(miss)',
           job'.phase = "lost" => /\ pc = "loop" => item.port \notin CablesBut(miss)
                                  /\ \A r \in Loops(miss) : ~IsFollowed(r)
    PROVE  MissOK(miss)'
<1>1. UNCHANGED pc /\ UNCHANGED stack /\ UNCHANGED first /\ UNCHANGED item
  BY DEF traversal
<1>2. Cable' = Cable /\ Root' = Root /\ RootIsSwitch' = RootIsSwitch
  BY SameFabric
<1>3. /\ \A p, links : IsNoted(p, links)' = IsNoted(p, links)
      /\ CablesBut(miss)' = CablesBut(miss) /\ Loops(miss)' = Loops(miss)
      /\ WholeMinds(miss)' = WholeMinds(miss) /\ Roomy' = Roomy /\ IsKnown(Root)' = IsKnown(Root)
      /\ \A q : FirstHopPath(q)' = FirstHopPath(q)
  BY SameMinds
<1>4. WholeMinds(miss) /\ CallMinds(miss) /\ PlaceMinds /\ RootMinds(miss) /\ SwitchesMind(miss)
  BY DEF MissOK
<1>5. CallMinds(miss)'
  BY <1>1, <1>2, <1>3, <1>4 DEF CallMinds
<1>6. PlaceMinds'
  <2>1. Arrival(Cable, item.path)' = Arrival(Cable, item.path)
    <3>1. PICK path : path = item.path /\ path = item'.path
      BY <1>1
    <3>2. Arrival(Cable, path)' = Arrival(Cable, path)
      BY SameFabric
    <3>3. Arrival(Cable, item.path)' = Arrival(Cable, path)'
      BY <3>1
    <3> QED BY <3>1, <3>2, <3>3
  <2>2. Begun' = Begun
    BY <1>1 DEF Begun
  <2> QED BY <1>1, <1>2, <1>3, <1>4, <2>1, <2>2 DEF PlaceMinds
<1>7. \A p : IsNoted(p, remote)' = IsNoted(p, remote)
  <2>1. PICK links : links = remote /\ links = remote'
    OBVIOUS
  <2>2. \A p : IsNoted(p, links)' = IsNoted(p, links)
    BY <1>3
  <2>3. \A p : IsNoted(p, remote)' = IsNoted(p, links)'
    BY <2>1
  <2> QED BY <2>1, <2>2, <2>3
<1>8. \A p : IsQueued(stack, p)' = IsQueued(stack, p)
  BY <1>1 DEF IsQueued
<1>9. \A p \in CablesBut(miss) : IsAsked(p) => IsAsked(p)'
  BY <1>1 DEF IsAsked
<1>10. \A n : IsMinded(n, miss) => IsMinded(n, miss)'
  BY <1>3, <1>7, <1>8, <1>9 DEF IsMinded
<1>11. RootMinds(miss)'
  <2>1. PICK n : n = Root /\ n = Root'
    BY <1>2
  <2>2. ASSUME Begun, RootIsSwitch, NEW r \in Loops(miss)
        PROVE  IsHop(first, r)' \/ IsFollowed(r)' \/ IsMinded(n, miss)'
    <3>1. IsHop(first, r) \/ IsFollowed(r) \/ IsMinded(n, miss)
      BY <1>4, <2>1, <2>2 DEF RootMinds
    <3>2. IsHop(first, r)' = IsHop(first, r)
      BY <1>1 DEF IsHop
    <3>3. IsFollowed(r) => IsFollowed(r)'
      BY <1>1, <1>3, <2>2 DEF IsFollowed
    <3> QED BY <3>1, <3>2, <3>3, <1>10
  <2>3. IsMinded(n, miss)' => IsMinded(Root, miss)'
    BY <2>1 DEF IsMinded
  <2>4. Begun' = Begun
    BY <1>1 DEF Begun
  <2> QED BY <1>2, <1>3, <2>2, <2>3, <2>4 DEF RootMinds
<1>12. SwitchesMind(miss)'
  <2>1. Begun' = Begun /\ \A n : ~IsHanded(n)
    BY <1>1 DEF Begun, IsHanded
  <2> QED BY <1>3, <1>4, <1>10, <2>1 DEF SwitchesMind
<1> QED BY <1>3, <1>4, <1>5, <1>6, <1>11, <1>12 DEF MissOK

(* A node gets known: it will add its ports.                               *)
LEMMA EntryMinds ==
    ASSUME FabricOK, UNCHANGED fabric, UNCHANGED traversal,
           remote' = remote, job'.path = job.path,
           pc \in {"root", "first", "loop"}, job.phase \notin {"found", "lost"},
           NEW miss, MissOK(miss), JobMinds(miss)', NEW g, EnteredBut(g, miss)
    PROVE  MissOK(miss)'
<1>1. UNCHANGED pc /\ UNCHANGED stack /\ UNCHANGED first /\ UNCHANGED item
  BY DEF traversal
<1>2. Cable' = Cable /\ Root' = Root /\ RootIsSwitch' = RootIsSwitch
  BY SameFabric
<1>3. WholeMinds(miss) /\ CallMinds(miss) /\ PlaceMinds /\ RootMinds(miss) /\ SwitchesMind(miss)
  BY DEF MissOK
<1>4. PICK map : map = node_map'
  OBVIOUS
<1>5. /\ g \notin DOMAIN node_map /\ Finds(job.path, g)
      /\ job'.phase = "found" /\ job'.node.guid = g
      /\ DOMAIN map = DOMAIN node_map \cup {g}
      /\ \A n \in DOMAIN node_map : map[n] = node_map[n]
      /\ map[g].path = job.path /\ IsWholeBut(map[g], NPorts[g], miss)
  BY <1>4 DEF EnteredBut
<1>6. WholeMinds(miss)'
  <2>1. \A node, last : IsWholeBut(node, last, miss)' = IsWholeBut(node, last, miss)
    BY SameWhole
  <2>2. \A n \in DOMAIN map : IsWholeBut(map[n], NPorts[n], miss)
    BY <1>3, <1>5 DEF WholeMinds
  <2> QED BY <1>4, <2>1, <2>2 DEF WholeMinds
<1>7. CallMinds(miss)'
  <2>1. pc = "root" => g = Root
    <3>1. Arrival(Cable, StartPath) = root_port
      BY StartRoute
    <3> QED BY <1>3, <1>5, <3>1 DEF CallMinds, Finds, Root
  <2>2. pc = "root" => DOMAIN node_map' \subseteq {Root}
    BY <1>3, <1>4, <1>5, <2>1 DEF CallMinds
  <2>3. \A q : FirstHopPath(q)' = FirstHopPath(q)
    BY <1>2 DEF FirstHopPath
  <2> QED BY <1>1, <1>2, <1>3, <2>2, <2>3 DEF CallMinds
<1>8. PlaceMinds'
  <2>1. Arrival(Cable, item.path)' = Arrival(Cable, item.path)
    <3>1. PICK path : path = item.path /\ path = item'.path
      BY <1>1
    <3>2. Arrival(Cable, path)' = Arrival(Cable, path)
      BY SameFabric
    <3>3. Arrival(Cable, item.path)' = Arrival(Cable, path)'
      BY <3>1
    <3> QED BY <3>1, <3>2, <3>3
  <2>2. Begun' = Begun /\ (IsKnown(Root) => IsKnown(Root)')
    BY <1>1, <1>2, <1>4, <1>5 DEF Begun, IsKnown
  <2> QED BY <1>1, <1>2, <1>3, <2>1, <2>2 DEF PlaceMinds
<1>9. \A p : IsNoted(p, remote) => IsNoted(p, remote)'
  BY <1>2, <1>4, <1>5 DEF IsNoted, IsKnown
<1>10. \A p : IsQueued(stack, p)' = IsQueued(stack, p)
  BY <1>1 DEF IsQueued
<1>11. \A p : IsAsked(p) => IsAsked(p)'
  BY <1>1, <1>5 DEF IsAsked
<1>12. CablesBut(miss)' = CablesBut(miss) /\ Loops(miss)' = Loops(miss)
  BY <1>2 DEF CablesBut, Loops
<1>13. \A n : IsMinded(n, miss) => IsMinded(n, miss)'
  BY <1>9, <1>10, <1>11, <1>12 DEF IsMinded
<1>14. RootMinds(miss)'
  <2>1. PICK n : n = Root /\ n = Root'
    BY <1>2
  <2>2. ASSUME Begun, RootIsSwitch, NEW r \in Loops(miss)
        PROVE  IsHop(first, r)' \/ IsFollowed(r)' \/ IsMinded(n, miss)'
    <3>1. IsHop(first, r) \/ IsFollowed(r) \/ IsMinded(n, miss)
      BY <1>3, <2>1, <2>2 DEF RootMinds
    <3>2. IsHop(first, r)' = IsHop(first, r)
      BY <1>1 DEF IsHop
    <3>3. \A q : FirstHopPath(q)' = FirstHopPath(q)
      BY <1>2 DEF FirstHopPath
    <3>4. IsFollowed(r) => IsFollowed(r)'
      BY <1>1, <1>5, <3>3 DEF IsFollowed
    <3> QED BY <3>1, <3>2, <3>4, <1>13
  <2>3. IsMinded(n, miss)' => IsMinded(Root, miss)'
    BY <2>1 DEF IsMinded
  <2>4. Begun' = Begun
    BY <1>1 DEF Begun
  <2> QED BY <1>2, <1>12, <2>2, <2>3, <2>4 DEF RootMinds
<1>15. SwitchesMind(miss)'
  <2>1. Begun' => Begun /\ pc' \in {"first", "loop"}
    BY <1>1 DEF Begun
  <2>2. Begun' => IsHanded(g)'
    BY <1>4, <1>5, <2>1 DEF IsHanded
  <2>3. \A n \in Roomy' : n = g \/ n \in Roomy
    BY <1>2, <1>4, <1>5 DEF Roomy
  <2>4. \A n : ~IsHanded(n)
    BY DEF IsHanded
  <2>5. ASSUME Begun', NEW n \in Roomy' PROVE IsHanded(n)' \/ IsMinded(n, miss)'
    <3>1. CASE n = g
      <4>1. IsHanded(g)' => IsHanded(n)'
        BY <3>1 DEF IsHanded
      <4> QED BY <4>1, <2>2, <2>5
    <3>2. CASE n \in Roomy
      BY <3>2, <1>3, <1>13, <2>1, <2>4, <2>5 DEF SwitchesMind
    <3> QED BY <2>3, <3>1, <3>2
  <2> QED BY <2>5 DEF SwitchesMind
<1> QED BY <1>6, <1>7, <1>8, <1>14, <1>15 DEF MissOK

(* A step of discover_node.                                                *)
LEMMA CallMissMinds ==
    ASSUME IInv, cut = {}, IsCabling(cabling), UpState \in {"Active", "Init"},
           DiscoverNode, UNCHANGED traversal, faults' <= 1,
           NEW miss, IsMissed(miss), MissOK(miss)
    PROVE  faults' \in Nat /\ \E now : IsMissed(now)' /\ MissOK(now)'
<1>1. NodeInv /\ FabricOK /\ job'.path = job.path
  BY DiscoverNodeKeepsGraphInv DEF IInv, GraphInv, NodeInv
<1>2. /\ UNCHANGED fabric /\ remote' = remote
      /\ job.phase \in {"nodeInfo", "nodeDesc", "portInfo"}
  BY DEF DiscoverNode, FetchNodeInfo, FetchNodeDesc, FetchPortInfo, graph
<1>3. pc \in {"root", "first", "loop"}
  BY <1>2 DEF IInv, PlaceOK
<1>4. JobMinds(miss) /\ faults \in Nat
  BY <1>3 DEF MissOK, CallMinds, IsMissed
<1>5. /\ faults' \in Nat
      /\ \E now : /\ (now = miss /\ faults' = faults) \/ (faults = 0 /\ faults' = 1)
                  /\ JobMinds(now)'
                  /\ \/ node_map' = node_map /\ job'.phase \in {"nodeDesc", "portInfo", "found"}
                     \/ EnteredBut(job.node.guid, now)
                     \/ /\ node_map' = node_map /\ job'.phase = "lost"
                        /\ \/ faults' = faults /\ Arrival(Cable, job.path) = Nowhere
                           \/ faults = 0 /\ faults' = 1
  BY <1>1, <1>4, DiscoverMinds
<1>6. ASSUME NEW now, (now = miss /\ faults' = faults) \/ (faults = 0 /\ faults' = 1)
      PROVE  IsMissed(now)' /\ MissOK(now)
  <2>1. IsMissed(now)'
    BY <1>5, <1>6 DEF IsMissed
  <2>2. now = miss \/ miss = Nowhere
    BY <1>6 DEF IsMissed
  <2> QED BY <1>1, <2>1, <2>2, MissMore
<1>7. ASSUME job'.phase = "lost" PROVE \A now : JobMinds(now)'
  BY <1>7 DEF JobMinds
<1>8. PICK now : /\ (now = miss /\ faults' = faults) \/ (faults = 0 /\ faults' = 1)
                 /\ JobMinds(now)'
                 /\ \/ node_map' = node_map /\ job'.phase \in {"nodeDesc", "portInfo", "found"}
                    \/ EnteredBut(job.node.guid, now)
                    \/ /\ node_map' = node_map /\ job'.phase = "lost"
                       /\ \/ faults' = faults /\ Arrival(Cable, job.path) = Nowhere
                          \/ faults = 0 /\ faults' = 1
  BY <1>5
<1>9. IsMissed(now)' /\ MissOK(now)
  BY <1>6, <1>8
<1>10. CASE node_map' = node_map /\ job'.phase \in {"nodeDesc", "portInfo", "found"}
  <2>1. MissOK(now)'
    BY <1>1, <1>2, <1>3, <1>8, <1>9, <1>10, CallStays
  <2> QED BY <1>5, <1>9, <2>1
<1>11. CASE EnteredBut(job.node.guid, now)
  <2>1. MissOK(now)'
    BY <1>1, <1>2, <1>3, <1>8, <1>9, <1>11, EntryMinds
  <2> QED BY <1>5, <1>9, <2>1
<1>12. CASE /\ node_map' = node_map /\ job'.phase = "lost"
            /\ faults' = faults /\ Arrival(Cable, job.path) = Nowhere
  <2>1. pc = "loop" => item.port \notin CablesBut(miss)
    <3> SUFFICES ASSUME pc = "loop", item.port \in DOMAIN Cable PROVE FALSE
      BY DEF CablesBut
    <3>1. Cable[item.port] = Nowhere
      BY <1>12 DEF MissOK, PlaceMinds, IInv, TraversalOK
    <3>2. Cable[item.port] \in Ports
      BY <1>1, CableFacts
    <3> QED BY <3>1, <3>2, PortFacts
  <2>2. \A r \in Loops(miss) : ~IsFollowed(r)
    BY <1>1, <1>12, LoopLeads DEF IsFollowed, Finds
  <2>3. IsMissed(miss)'
    BY <1>12 DEF IsMissed
  <2>4. JobMinds(miss)'
    BY <1>7, <1>12
  <2>5. MissOK(miss)'
    BY <1>1, <1>2, <1>3, <1>12, <2>1, <2>2, <2>4, CallStays
  <2> QED BY <1>5, <2>3, <2>5
<1>13. CASE node_map' = node_map /\ job'.phase = "lost" /\ faults = 0 /\ faults' = 1
  <2>1. PICK one : /\ pc = "loop" => one = item.port
                   /\ pc = "first" => \E q \in 1..NPorts[Root] :
                         job.path = FirstHopPath(q) /\ one = <<Root, q>>
    <3>1. CASE pc = "first"
      <4>1. PICK q \in 1..NPorts[Root] : job.path = FirstHopPath(q)
        BY <3>1 DEF MissOK, CallMinds
      <4> QED BY <3>1, <4>1
    <3>2. CASE pc # "first"
      BY <3>2
    <3> QED BY <3>1, <3>2
  <2>2. IsMissed(one)' /\ MissOK(one) /\ JobMinds(one)'
    BY <1>6, <1>7, <1>13
  <2>3. pc = "loop" => item.port \notin CablesBut(one)
    BY <2>1 DEF CablesBut
  <2>4. ASSUME NEW r \in Loops(one), IsFollowed(r) PROVE FALSE
    <3>1. pc = "first" /\ job.path = FirstHopPath(r[2])
      BY <2>4 DEF IsFollowed
    <3>2. PICK q \in 1..NPorts[Root] : job.path = FirstHopPath(q) /\ one = <<Root, q>>
      BY <2>1, <3>1
    <3>3. r[2] = q
      <4>1. 0 \in Index /\ 1 \in Index
        BY IndexFacts
      <4>2. \A k : FirstHopPath(k)[IF RootIsSwitch THEN 0 ELSE 1] = k
        BY <4>1 DEF FirstHopPath, StartPath
      <4> QED BY <3>1, <3>2, <4>2
    <3>4. r = <<Root, r[2]>> /\ r \in CablesBut(one)
      BY <1>1, <2>4, LoopLeads DEF Loops
    <3> QED BY <3>2, <3>3, <3>4 DEF CablesBut
  <2>5. MissOK(one)'
    BY <1>1, <1>2, <1>3, <1>13, <2>2, <2>3, <2>4, CallStays
  <2> QED BY <1>5, <2>2, <2>5
<1> QED BY <1>8, <1>10, <1>11, <1>12, <1>13

(* A discovery that has begun has not missed anything yet.                 *)
LEMMA StartMinds == ASSUME Start PROVE MissOK(Nowhere)'
<1>1. /\ pc' = "root" /\ stack' = <<>> /\ first' = <<>> /\ node_map' = <<>>
      /\ job'.path = StartPath /\ job'.phase = "nodeInfo"
  BY DEF Start, Forget, Call
<1>2. DOMAIN <<>> = {}
  OBVIOUS
<1>3. WholeMinds(Nowhere)' /\ PlaceMinds'
  BY <1>1, <1>2 DEF WholeMinds, PlaceMinds, Begun
<1>4. CallMinds(Nowhere)'
  BY <1>1, <1>2 DEF CallMinds, JobMinds
<1>5. RootMinds(Nowhere)' /\ SwitchesMind(Nowhere)'
  BY <1>1 DEF RootMinds, SwitchesMind, Begun
<1> QED BY <1>3, <1>4, <1>5 DEF MissOK

(* Without its first node a discovery is over.                             *)
LEMMA RootLostMinds == ASSUME RootLost, NEW miss, MissOK(miss) PROVE MissOK(miss)'
<1>1. pc' = "failed" /\ UNCHANGED fabric /\ node_map' = node_map /\ first' = first
  BY DEF RootLost, graph, found
<1>2. WholeMinds(miss)' /\ Root' = Root
  BY <1>1, SameMinds, SameFabric DEF MissOK
<1>3. PlaceMinds'
  BY <1>1, <1>2 DEF MissOK, PlaceMinds, Begun
<1>4. CallMinds(miss)' /\ RootMinds(miss)' /\ SwitchesMind(miss)'
  BY <1>1 DEF CallMinds, RootMinds, SwitchesMind, Begun
<1> QED BY <1>2, <1>3, <1>4 DEF MissOK

(* Nothing happens.                                                        *)
LEMMA StutterMinds == ASSUME UNCHANGED vars, NEW miss, MissOK(miss) PROVE MissOK(miss)'
<1>1. /\ UNCHANGED fabric /\ node_map' = node_map /\ remote' = remote /\ job' = job
      /\ pc' = pc /\ stack' = stack /\ first' = first /\ item' = item
  BY DEF vars, common, graph, found, traversal
<1>2. Cable' = Cable /\ Root' = Root /\ RootIsSwitch' = RootIsSwitch
  BY <1>1, SameFabric
<1>3. /\ \A p, links : IsNoted(p, links)' = IsNoted(p, links)
      /\ CablesBut(miss)' = CablesBut(miss) /\ Loops(miss)' = Loops(miss)
      /\ WholeMinds(miss)' = WholeMinds(miss) /\ Roomy' = Roomy /\ IsKnown(Root)' = IsKnown(Root)
      /\ \A q : FirstHopPath(q)' = FirstHopPath(q)
  BY <1>1, SameMinds
<1>4. JobMinds(miss)' = JobMinds(miss)
  <2>1. \A node, last : IsWholeBut(node, last, miss)' = IsWholeBut(node, last, miss)
    BY <1>1, SameWhole
  <2> QED BY <1>1, <2>1 DEF JobMinds
<1>5. CallMinds(miss)' = CallMinds(miss)
  BY <1>1, <1>2, <1>3, <1>4 DEF CallMinds
<1>6. PlaceMinds' = PlaceMinds
  <2>1. Arrival(Cable, item.path)' = Arrival(Cable, item.path)
    <3>1. \A path : Arrival(Cable, path)' = Arrival(Cable, path)
      BY <1>1, SameFabric
    <3>2. PICK path : path = item.path /\ path = item'.path
      BY <1>1
    <3>3. Arrival(Cable, item.path)' = Arrival(Cable, path)'
      BY <3>2
    <3> QED BY <3>1, <3>2, <3>3
  <2>2. Begun' = Begun
    BY <1>1 DEF Begun
  <2> QED BY <1>1, <1>2, <1>3, <2>1, <2>2 DEF PlaceMinds
<1>7. \A n : IsMinded(n, miss)' = IsMinded(n, miss)
  <2>1. \A p : IsNoted(p, remote)' = IsNoted(p, remote)
    <3>1. PICK links : links = remote /\ links = remote'
      BY <1>1
    <3>2. \A p : IsNoted(p, links)' = IsNoted(p, links)
      BY <1>3
    <3>3. \A p : IsNoted(p, remote)' = IsNoted(p, links)'
      BY <3>1
    <3> QED BY <3>1, <3>2, <3>3
  <2>2. \A p : IsQueued(stack, p)' = IsQueued(stack, p) /\ IsAsked(p)' = IsAsked(p)
    BY <1>1 DEF IsQueued, IsAsked
  <2> QED BY <1>3, <2>1, <2>2 DEF IsMinded
<1>8. RootMinds(miss)' = RootMinds(miss)
  <2>1. PICK n : n = Root /\ n = Root'
    BY <1>2
  <2>2. \A r : IsHop(first, r)' = IsHop(first, r) /\ IsFollowed(r)' = IsFollowed(r)
    BY <1>1, <1>3 DEF IsHop, IsFollowed
  <2>3. IsMinded(Root, miss)' = IsMinded(n, miss)'
    BY <2>1 DEF IsMinded
  <2>4. IsMinded(Root, miss)' = IsMinded(Root, miss)
    BY <1>7, <2>1, <2>3
  <2>5. Begun' = Begun
    BY <1>1 DEF Begun
  <2> QED BY <1>2, <1>3, <2>2, <2>4, <2>5 DEF RootMinds
<1>9. SwitchesMind(miss)' = SwitchesMind(miss)
  <2>1. \A n : IsHanded(n)' = IsHanded(n)
    BY <1>1 DEF IsHanded
  <2>2. Begun' = Begun
    BY <1>1 DEF Begun
  <2> QED BY <1>3, <1>7, <2>1, <2>2 DEF SwitchesMind
<1> QED BY <1>3, <1>5, <1>6, <1>8, <1>9 DEF MissOK

(* Before the first discovery nothing is missed.                           *)
LEMMA InitMinds == Init => MissInv
<1> SUFFICES ASSUME Init PROVE MissInv
  OBVIOUS
<1>1. pc = "idle" /\ stack = <<>> /\ first = <<>> /\ node_map = <<>> /\ faults = 0
  BY DEF Init, CommonInit
<1>2. DOMAIN <<>> = {}
  OBVIOUS
<1>3. MissOK(Nowhere)
  BY <1>1, <1>2 DEF MissOK, WholeMinds, CallMinds, PlaceMinds, RootMinds, SwitchesMind, Begun
<1> QED BY <1>1, <1>3 DEF MissInv, IsMissed

(* Exchanges that failed are never forgotten.                              *)
LEMMA FaultsGrow ==
    ASSUME faults \in Nat, [Next]_vars PROVE faults' \in Nat /\ faults <= faults'
<1>1. ASSUME NEW path, NEW outcome \in Outcome(path), Note(outcome)
      PROVE  faults' \in Nat /\ faults <= faults'
  <2>1. outcome.fault \in {0, 1}
    BY <1>1 DEF Outcome
  <2> QED BY <1>1, <2>1 DEF Note
<1>2. CASE Start
  BY <1>2 DEF Start, Forget
<1>3. CASE DiscoverNode
  <2>1. \E outcome \in Outcome(job.path) : Note(outcome)
    BY <1>3 DEF DiscoverNode, FetchNodeInfo, FetchNodeDesc, FetchPortInfo
  <2> QED BY <1>1, <2>1
<1>4. CASE RootFound \/ RootLost \/ FirstFound \/ FirstLost \/ LoopFound \/ LoopLost
  BY <1>4 DEF RootFound, RootLost, FirstFound, FirstLost, FirstHop, LoopFound, LoopLost, ghosts
<1>5. CASE Probe
  <2>1. \E outcome \in Outcome(item.path) : Note(outcome)
    BY <1>5 DEF Probe
  <2> QED BY <1>1, <2>1
<1>6. CASE Unplug
  BY <1>6 DEF Unplug
<1>7. CASE UNCHANGED vars
  BY <1>7 DEF vars, common, ghosts
<1> QED BY <1>2, <1>3, <1>4, <1>5, <1>6, <1>7 DEF Next, Progress

(* Every step keeps what is left to do, with one failure at most.          *)
LEMMA MissInductive ==
    ASSUME \A cable \in Cablings : IsCabling(cable), UpState \in {"Active", "Init"},
           IInv, MissInv, [Next]_vars
    PROVE  MissInv'
<1>1. IsCabling(cabling)
  BY DEF IInv, GraphInv, NodeInv, FabricOK
<1>2. faults \in Nat /\ faults' \in Nat /\ faults <= faults'
  BY FaultsGrow DEF MissInv
<1>3. SUFFICES ASSUME cut' = {}, faults' <= 1
               PROVE  \E now : IsMissed(now)' /\ MissOK(now)'
  BY <1>2 DEF MissInv
<1>4. CASE Unplug
  <2>1. \E p : p \in cut'
    BY <1>4 DEF Unplug
  <2> QED BY <1>3, <2>1
<1>5. CASE [Next]_vars /\ ~Unplug
  <2>1. cut = {}
    BY <1>3, <1>5
       DEF Next, Progress, Start, Forget, DiscoverNode, FetchNodeInfo, FetchNodeDesc,
           FetchPortInfo, RootFound, RootLost, FirstFound, FirstLost, FirstHop, Probe,
           LoopFound, LoopLost, fabric, vars, common
  <2>2. faults <= 1
    BY <1>2, <1>3
  <2>3. PICK miss : IsMissed(miss) /\ MissOK(miss)
    BY <2>1, <2>2 DEF MissInv
  <2>4. faults' = faults => IsMissed(miss)'
    BY <2>3 DEF IsMissed
  <2>5. CASE Start
    BY <1>2, <2>5, StartMinds DEF IsMissed
  <2>6. CASE DiscoverNode /\ UNCHANGED traversal
    BY <1>1, <1>3, <2>1, <2>3, <2>6, CallMissMinds
  <2>7. CASE Probe
    BY <1>1, <1>3, <2>1, <2>3, <2>7, ProbeMinds
  <2>8. CASE RootFound \/ RootLost \/ FirstFound \/ FirstLost \/ LoopFound \/ LoopLost
    <3>1. faults' = faults
      BY <2>8 DEF RootFound, RootLost, FirstFound, FirstLost, FirstHop, LoopFound, LoopLost, ghosts
    <3>2. MissOK(miss)'
      BY <1>1, <2>1, <2>3, <2>8, RootFoundMinds, RootLostMinds, FirstFoundMinds, FirstLostMinds,
         LoopFoundMinds, LoopLostMinds
    <3> QED BY <2>4, <3>1, <3>2
  <2>9. CASE UNCHANGED vars
    <3>1. faults' = faults
      BY <2>9 DEF vars, common, ghosts
    <3> QED BY <2>3, <2>4, <2>9, <3>1, StutterMinds
  <2> QED BY <1>5, <2>5, <2>6, <2>7, <2>8, <2>9 DEF Next, Progress
<1> QED BY <1>4, <1>5

(* When the traversal is over, a cable whose ports are both recorded is    *)
(* linked: from the one end or from the other.                             *)
LEMMA DoneMinds ==
    ASSUME IInv, IsCabling(cabling), MissInv, pc = "done", cut = {}, faults <= 1,
           NEW p \in DOMAIN cabling, BothEndsTraversed(p)
    PROVE  p \in DOMAIN remote
<1>1. FabricOK /\ LinksOK(remote)
  BY DEF IInv, GraphInv, NodeInv, RemoteOK
<1>2. PICK miss : MissOK(miss)
  BY DEF MissInv
<1>3. /\ RootMinds(miss) /\ SwitchesMind(miss) /\ first = <<>> /\ stack = <<>> /\ Begun
  BY <1>2 DEF MissOK, PlaceMinds, Begun
<1>4. /\ DOMAIN Cable = DOMAIN cabling /\ CutOK
      /\ \A q \in DOMAIN Cable : Cable[q] = cabling[q]
  BY <1>1, Uncut
<1>5. \A q \in DOMAIN Cable :
         Cable[q] \in DOMAIN Cable /\ Cable[Cable[q]] = q /\ Cable[q] # q
  BY <1>1, <1>4, CablePairs
<1>6. ASSUME NEW n, IsMinded(n, miss), NEW q \in CablesBut(miss), q[1] = n PROVE IsNoted(q, remote)
  <2>1. ~IsQueued(stack, q)
    BY <1>3 DEF IsQueued
  <2> QED BY <1>6, <2>1 DEF IsMinded, IsAsked
<1>7. ASSUME NEW q \in CablesBut(miss), Traversed(q[1]) PROVE IsNoted(q, remote)
  <2>1. CASE q[1] # Root
    <3>1. q[1] \in Roomy
      BY <1>7, <2>1 DEF Roomy, Traversed, IsKnown
    <3>2. ~IsHanded(q[1])
      BY DEF IsHanded
    <3>3. IsMinded(q[1], miss)
      BY <1>3, <3>1, <3>2 DEF SwitchesMind
    <3> QED BY <1>6, <1>7, <3>3
  <2>2. CASE q[1] = Root
    <3>1. PICK l \in DOMAIN Cable : l[1] = Root /\ Cable[l][1] = Root
      <4>1. PICK l \in PortsOf(Root) \cap DOMAIN Cable : Cable[l][1] = Root
        BY <1>7, <2>2 DEF Traversed
      <4> QED BY <4>1 DEF PortsOf
    <3>2. l \in Loops(miss) \/ Cable[l] \in Loops(miss)
      BY <1>5, <3>1 DEF Loops, CablesBut
    <3>3. \A r : ~IsHop(first, r) /\ ~IsFollowed(r)
      BY <1>3 DEF IsHop, IsFollowed
    <3>4. RootIsSwitch
      BY <1>7, <2>2 DEF Traversed, RootIsSwitch
    <3>5. IsMinded(Root, miss)
      BY <1>3, <3>2, <3>3, <3>4 DEF RootMinds
    <3> QED BY <1>6, <1>7, <2>2, <3>5
  <2> QED BY <2>1, <2>2
<1>8. PICK far : far = Cable[p]
  OBVIOUS
<1>9. /\ far \in DOMAIN Cable /\ Cable[far] = p /\ far # p /\ p \in DOMAIN Cable
      /\ far = cabling[p]
  BY <1>4, <1>5, <1>8
<1>10. /\ Traversed(p[1]) /\ p[2] \in PortNumbers(node_map[p[1]])
       /\ Traversed(far[1]) /\ far[2] \in PortNumbers(node_map[far[1]])
  BY <1>9 DEF BothEndsTraversed
<1>11. CASE p # miss
  <2>1. IsNoted(p, remote)
    BY <1>7, <1>9, <1>10, <1>11 DEF CablesBut
  <2> QED BY <2>1, <1>8, <1>10 DEF IsNoted
<1>12. CASE p = miss
  <2>1. IsNoted(far, remote)
    BY <1>7, <1>9, <1>10, <1>12 DEF CablesBut
  <2>2. far \in DOMAIN remote
    BY <2>1, <1>9, <1>10 DEF IsNoted
  <2>3. remote[far] = cabling[far] /\ remote[far] \in DOMAIN remote
    BY <1>1, <2>2 DEF LinksOK
  <2>4. cabling[far] = p
    BY <1>4, <1>9
  <2> QED BY <2>3, <2>4
<1> QED BY <1>11, <1>12

(* One exchange that fails does not cost a link between two recorded ports *)
(* of traversed switches.                                                  *)
THEOREM OneLossLeavesLinks ==
    ASSUME \A cable \in Cablings : IsCabling(cable), UpState \in {"Active", "Init"}
    PROVE  Spec => []LinksSurviveOneLoss
<1>1. Init => MissInv
  BY InitMinds
<1>2. IInv /\ MissInv /\ [Next]_vars => MissInv'
  BY MissInductive
<1>3. IInv /\ MissInv => LinksSurviveOneLoss
  BY DoneMinds DEF LinksSurviveOneLoss, IInv, GraphInv, NodeInv, FabricOK
<1> QED BY Invariance, <1>1, <1>2, <1>3, PTL DEF Spec
=============================================================================
