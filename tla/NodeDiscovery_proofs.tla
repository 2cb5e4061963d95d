------------------------ MODULE NodeDiscovery_proofs ------------------------
(***************************************************************************)
(* What discover_node keeps true of the graph, whichever traversal calls   *)
(* it: lemmas that the proofs about both traversals rest on.               *)
(***************************************************************************)
EXTENDS NodeDiscovery, DirectedRoute_proofs

Phases == {"none", "nodeInfo", "nodeDesc", "portInfo", "found", "lost"}
JobShape == [phase : Phases, path : Path, node : NodeShape \cup {Nowhere}, next : Nat]

(* A node record, complete or not: it has no port that the node has not.   *)
RecordOK(node) ==
    /\ node \in NodeShape
    /\ \A i \in DOMAIN node.ports : node.ports[i].number <= NPorts[node.guid]

(* A route leads to a node when no cable is cut.                           *)
LeadsTo(path, guid) ==
    Arrival(cabling, path) # Nowhere /\ Arrival(cabling, path)[1] = guid

FabricOK == root_port \in RootPorts /\ cabling \in Cablings /\ cut \subseteq DOMAIN cabling

MapOK ==
    /\ DOMAIN node_map \subseteq Node
    /\ \A n \in DOMAIN node_map : RecordOK(node_map[n]) /\ node_map[n].guid = n

CountersOK == mad_timeouts \in Nat /\ mad_errors \in Nat

(* The call of discover_node: its node is the one its route leads to, is   *)
(* not in the map before it is complete, and has no port yet that it will  *)
(* ask for.                                                                *)
FirstPort(guid) == IF guid \in Switches THEN 0 ELSE 1
JobOK ==
    /\ job \in JobShape /\ IsRoute(job.path)
    /\ job.phase \in {"nodeDesc", "portInfo", "found"} =>
          RecordOK(job.node) /\ LeadsTo(job.path, job.node.guid)
    /\ job.phase \in {"nodeDesc", "portInfo"} => job.node.guid \notin DOMAIN node_map
    /\ job.phase = "found" => job.node.guid \in DOMAIN node_map
    /\ job.phase = "nodeDesc" => job.node.ports = <<>> /\ job.node.lid = 0
    /\ job.phase = "portInfo" =>
          /\ job.next \in FirstPort(job.node.guid)..NPorts[job.node.guid]
          /\ \A i \in DOMAIN job.node.ports : job.node.ports[i].number < job.next
          /\ job.next = 0 => job.node.ports = <<>> /\ job.node.lid = 0

NodeInv == FabricOK /\ MapOK /\ CountersOK /\ JobOK

-----------------------------------------------------------------------------
(* Ports and routes.                                                       *)
LEMMA PortFacts ==
    /\ \A p \in AllPorts : /\ p = <<p[1], p[2]>> /\ p # Nowhere
                           /\ p[1] \in Node /\ p[2] \in 0..NPorts[p[1]]
                           /\ p[2] \in 0..255
    /\ \A p \in Ports : p \in AllPorts /\ p[2] # 0
    /\ \A n \in Node : \A i \in 1..NPorts[n] : <<n, i>> \in Ports
<1>1. \A n \in Node : NPorts[n] \in 1..255
  BY RouteAssumption
<1>2. \A p \in Ports : p = <<p[1], p[2]>> /\ p[1] \in Node /\ p[2] \in 1..NPorts[p[1]]
  BY DEF Ports, PortsOf
<1>3. \A p \in Switches \X {0} : p = <<p[1], p[2]>> /\ p[1] \in Node /\ p[2] = 0
  BY RouteAssumption
<1>4. \A n \in Node : \A i \in 1..NPorts[n] : <<n, i>> \in Ports
  BY DEF Ports, PortsOf
<1>5. \A a, b : <<a, b>> # Nowhere
  BY DEF Nowhere
<1>6. \A p \in AllPorts : p = <<p[1], p[2]>> /\ p[1] \in Node /\ p[2] \in 0..NPorts[p[1]]
  BY <1>1, <1>2, <1>3 DEF AllPorts
<1>7. \A p \in AllPorts : p # Nowhere
  BY <1>5, <1>6
<1>8. \A p \in AllPorts : p[2] \in 0..255
  BY <1>1, <1>6
<1> QED BY <1>2, <1>4, <1>6, <1>7, <1>8, <1>1 DEF AllPorts

(* A cabling joins ports of the fabric, and cutting leaves some of it.     *)
LEMMA CableFacts ==
    ASSUME FabricOK
    PROVE  /\ root_port \in AllPorts
           /\ DOMAIN cabling \subseteq Ports
           /\ \A p \in DOMAIN cabling : cabling[p] \in Ports /\ cabling[p] \in DOMAIN cabling
           /\ \A p \in DOMAIN Cable : p \in DOMAIN cabling /\ cabling[p] = Cable[p]
<1>1. IsWiring(cabling)
  BY DiscoveryAssumption DEF FabricOK
<1>2. root_port \in AllPorts
  BY RouteAssumption DEF FabricOK, AllPorts
<1> QED BY <1>1, <1>2 DEF IsWiring, Cable

(* What an exchange that succeeds has reached.                             *)
LEMMA Reached ==
    ASSUME FabricOK, NEW path, Arrival(Cable, path) # Nowhere
    PROVE  /\ Arrival(Cable, path) = Arrival(cabling, path)
           /\ Arrival(Cable, path) \in AllPorts
           /\ LeadsTo(path, Arrival(Cable, path)[1])
<1>1. Arrival(cabling, path) = Arrival(Cable, path)
  BY CableFacts, FewerCables
<1>2. Arrival(Cable, path) \in AllPorts
  BY CableFacts, ArrivalType, PortFacts
<1> QED BY <1>1, <1>2 DEF LeadsTo

(* What answers has been arrived at.                                       *)
LEMMA OutcomeFacts ==
    ASSUME NEW path, NEW outcome \in Outcome(path)
    PROVE  outcome.kind = "Ok" => Arrival(Cable, path) # Nowhere
BY DiscoveryAssumption DEF Outcome

(* A route is what the records take for a path.                            *)
LEMMA RoutesArePaths ==
    /\ \A path : IsRoute(path) => path \in Path
    /\ StartPath \in Path
BY StartRoute DEF IsRoute, Path

-----------------------------------------------------------------------------
(* Records.                                                                *)
LEMMA PortRecords ==
    ASSUME NEW guid \in Node, NEW p \in FirstPort(guid)..NPorts[guid]
    PROVE  /\ p \in 0..255
           /\ \A cable : PortOf(cable, guid, p) \in PortRecord
           /\ Placeholder(p) \in PortRecord
<1>1. NPorts[guid] \in 1..255 /\ p \in 0..255
  BY RouteAssumption DEF FirstPort
<1>2. <<guid, p>> \in AllPorts
  <2>1. CASE p = 0
    BY <2>1, RouteAssumption DEF FirstPort, AllPorts
  <2>2. CASE p # 0
    BY <1>1, <2>2, PortFacts DEF FirstPort
  <2> QED BY <2>1, <2>2
<1>3. PortLid[<<guid, p>>] \in Nat /\ UpState \in {"Active", "Init", "Armed"}
  BY <1>2, RecordAssumption
<1> QED BY <1>1, <1>3 DEF PortOf, Placeholder, PortRecord

(* The record that discover_node begins with is well formed, and empty.    *)
LEMMA NewNodeOK ==
    ASSUME NEW path, IsRoute(path), NEW port \in AllPorts
    PROVE  /\ RecordOK(NewNode(port[1], path, port[2]))
           /\ NewNode(port[1], path, port[2]).guid = port[1]
           /\ NewNode(port[1], path, port[2]).ports = <<>>
           /\ NewNode(port[1], path, port[2]).lid = 0
<1>1. path \in Path /\ port[1] \in Node /\ port[2] \in 0..255
  BY RoutesArePaths, PortFacts
<1>2. <<>> \in Seq(PortRecord) /\ DOMAIN <<>> = {}
  OBVIOUS
<1> QED BY <1>1, <1>2 DEF NewNode, NodeShape, RecordOK

(* The port that attach_port_to_node appends, and the LID it leaves.       *)
Inherits(node, port) == node.guid \in Switches /\ port.number # 0 /\ node.lid # 0
Attached(node, port) ==
    IF Inherits(node, port) THEN [port EXCEPT !.lid = node.lid] ELSE port

(* A port is attached to a well-formed record, at the end, with its number *)
(* and state.                                                              *)
LEMMA AttachOK ==
    ASSUME NEW node, RecordOK(node), NEW port \in PortRecord, port.number <= NPorts[node.guid]
    PROVE  /\ RecordOK(Attach(node, port))
           /\ Attach(node, port).guid = node.guid
           /\ Attach(node, port).ports = Append(node.ports, Attached(node, port))
           /\ Attach(node, port).lid =
                 IF node.lid = 0 /\ port.number \in {0, node.local_port}
                 THEN port.lid ELSE node.lid
           /\ Attached(node, port) \in PortRecord
           /\ Attached(node, port).number = port.number
           /\ Attached(node, port).state = port.state
<1> DEFINE q == Attached(node, port)
           new == Attach(node, port)
<1>1. node \in NodeShape
  BY DEF RecordOK
<1>2. q \in PortRecord /\ q.number = port.number /\ q.state = port.state
  BY <1>1 DEF Attached, PortRecord, NodeShape
<1>3. new = [node EXCEPT
               !.lid = IF node.lid = 0 /\ port.number \in {0, node.local_port}
                       THEN port.lid ELSE node.lid,
               !.ports = Append(node.ports, q)]
  BY DEF Attach, Attached, Inherits
<1> HIDE DEF q
<1>4. Append(node.ports, q) \in Seq(PortRecord)
  BY <1>1, <1>2, AppendProperties DEF NodeShape
<1>5. port.lid \in Nat /\ node.lid \in Nat
  BY <1>1 DEF PortRecord, NodeShape
<1>6. /\ new \in NodeShape
      /\ new.guid = node.guid
      /\ new.ports = Append(node.ports, q)
      /\ new.lid = IF node.lid = 0 /\ port.number \in {0, node.local_port}
                   THEN port.lid ELSE node.lid
  BY <1>1, <1>3, <1>4, <1>5 DEF NodeShape
<1> HIDE DEF new
<1>7. ASSUME NEW i \in DOMAIN new.ports PROVE new.ports[i].number <= NPorts[node.guid]
  <2>1. CASE i = Len(node.ports) + 1
    BY <2>1, <1>1, <1>2, <1>6, AppendProperties DEF NodeShape
  <2>2. CASE i # Len(node.ports) + 1
    <3>1. i \in DOMAIN node.ports /\ new.ports[i] = node.ports[i]
      BY <1>1, <1>2, <1>6, <2>2, AppendProperties DEF NodeShape
    <3> QED BY <3>1 DEF RecordOK
  <2> QED BY <2>1, <2>2
<1>8. RecordOK(new)
  BY <1>6, <1>7 DEF RecordOK
<1> QED BY <1>2, <1>6, <1>8 DEF new, q

(* The elements of a sequence with one more.                               *)
LEMMA AppendElements ==
    ASSUME NEW S, NEW seq \in Seq(S), NEW x \in S
    PROVE  /\ DOMAIN Append(seq, x) = DOMAIN seq \cup {Len(seq) + 1}
           /\ Len(seq) + 1 \notin DOMAIN seq
           /\ Append(seq, x)[Len(seq) + 1] = x
           /\ \A i \in DOMAIN seq : Append(seq, x)[i] = seq[i]
BY AppendProperties, LenProperties

-----------------------------------------------------------------------------
(* Steps.                                                                  *)

(* While the agent stays where it is a route leads where it led.           *)
LEMMA SameRoot ==
    ASSUME UNCHANGED fabric
    PROVE  /\ \A cable, path : Arrival(cable, path)' = Arrival(cable, path)
           /\ \A path, guid : LeadsTo(path, guid)' = LeadsTo(path, guid)
           /\ FabricOK => FabricOK'
<1>1. \A cable, path : Arrival(cable, path)' = Arrival(cable, path)
  <2> SUFFICES ASSUME NEW cable, NEW path PROVE Arrival(cable, path)' = Arrival(cable, path)
    OBVIOUS
  <2> QED BY ZenonT(30) DEF Arrival, Hop, fabric
<1> QED BY <1>1 DEF LeadsTo, fabric, FabricOK

(* Before the first call there is nothing that could be wrong.             *)
LEMMA NodeInvInit == CommonInit => NodeInv
<1> SUFFICES ASSUME CommonInit PROVE NodeInv
  OBVIOUS
<1>1. FabricOK /\ MapOK /\ CountersOK
  BY DEF CommonInit, FabricOK, MapOK, CountersOK
<1>2. JobOK
  BY StartRoute, RoutesArePaths DEF CommonInit, JobOK, Idle, JobShape, Phases
<1> QED BY <1>1, <1>2 DEF NodeInv

(* A call of discover_node, and none.                                      *)
LEMMA CallOK ==
    /\ job' = Idle => JobOK'
    /\ \A path : IsRoute(path) /\ job' = Call(path) => JobOK'
<1>1. job' = Idle => JobOK'
  BY StartRoute, RoutesArePaths DEF JobOK, Idle, JobShape, Phases
<1>2. ASSUME NEW path, IsRoute(path), job' = Call(path) PROVE JobOK'
  BY <1>2, RoutesArePaths DEF JobOK, Call, JobShape, Phases
<1> QED BY <1>1, <1>2

(* A traversal forgets the node that it has been given.                    *)
LEMMA ForgetKeepsNodeInv == ASSUME NodeInv, Forget PROVE NodeInv'
<1>1. FabricOK'
  BY SameRoot DEF NodeInv, Forget
<1>2. MapOK' /\ CountersOK'
  BY DEF Forget, MapOK, CountersOK
<1>3. JobOK'
  BY CallOK, StartRoute DEF Forget
<1> QED BY <1>1, <1>2, <1>3 DEF NodeInv

(* Cables and nodes go away.                                               *)
LEMMA UnplugKeepsNodeInv == ASSUME NodeInv, Unplug PROVE NodeInv'
<1>1. PICK p \in DOMAIN Cable : cut' = cut \cup {p, cabling[p]}
  BY DEF Unplug
<1>2. UNCHANGED <<root_port, cabling, found, counters, job>>
  BY DEF Unplug, graph
<1>3. \A path, guid : LeadsTo(path, guid)' = LeadsTo(path, guid)
  <2>1. \A cable, path : Arrival(cable, path)' = Arrival(cable, path)
    <3> SUFFICES ASSUME NEW cable, NEW path PROVE Arrival(cable, path)' = Arrival(cable, path)
      OBVIOUS
    <3> QED BY <1>2, ZenonT(30) DEF Arrival, Hop
  <2> QED BY <2>1, <1>2 DEF LeadsTo
<1>4. FabricOK'
  BY <1>1, <1>2, CableFacts DEF NodeInv, FabricOK
<1>5. MapOK' /\ CountersOK'
  BY <1>2 DEF NodeInv, MapOK, CountersOK, found, counters
<1>6. JobOK'
  BY <1>2, <1>3 DEF NodeInv, JobOK, found
<1> QED BY <1>4, <1>5, <1>6 DEF NodeInv

(* A step of a traversal, which may set the next call.                     *)
LEMMA CallKeepsNodeInv ==
    ASSUME NodeInv, UNCHANGED <<fabric, found, counters>>,
           job' = Idle \/ \E path : IsRoute(path) /\ job' = Call(path)
    PROVE  NodeInv'
<1>1. FabricOK'
  BY SameRoot DEF NodeInv
<1>2. MapOK' /\ CountersOK'
  BY DEF NodeInv, MapOK, CountersOK, found, counters
<1>3. JobOK'
  BY CallOK
<1> QED BY <1>1, <1>2, <1>3 DEF NodeInv

(* The answer to NodeInfo, or none.                                        *)
LEMMA FetchNodeInfoKeepsNodeInv == ASSUME NodeInv, FetchNodeInfo PROVE NodeInv' /\ job'.path = job.path
<1> DEFINE port == Arrival(Cable, job.path)
<1>1. FabricOK /\ MapOK /\ CountersOK /\ JobOK
  BY DEF NodeInv
<1>2. UNCHANGED <<fabric, found, counters>>
  BY DEF FetchNodeInfo, graph
<1>3. FabricOK' /\ MapOK' /\ CountersOK'
  BY <1>1, <1>2, SameRoot DEF MapOK, CountersOK, found, counters
<1>4. job \in JobShape /\ IsRoute(job.path)
  BY <1>1 DEF JobOK
<1>5. PICK outcome \in Outcome(job.path) :
         \/ outcome.kind = "Ok" /\ IsKnown(port[1]) /\ Found(node_map[port[1]])
         \/ /\ outcome.kind = "Ok" /\ ~IsKnown(port[1])
            /\ job' = [job EXCEPT !.phase = "nodeDesc", !.node = NewNode(port[1], job.path, port[2])]
         \/ outcome.kind # "Ok" /\ Lost
  BY DEF FetchNodeInfo
<1>6. outcome.kind = "Ok" => port \in AllPorts /\ LeadsTo(job.path, port[1])
  BY <1>1, OutcomeFacts, Reached
<1> HIDE DEF port
<1>7. CASE outcome.kind = "Ok" /\ IsKnown(port[1]) /\ Found(node_map[port[1]])
  <2> DEFINE node == node_map[port[1]]
  <2>1. RecordOK(node) /\ node.guid = port[1]
    BY <1>1, <1>7 DEF MapOK, IsKnown
  <2>2. job' = [job EXCEPT !.phase = "found", !.node = node]
    BY <1>7 DEF Found
  <2> HIDE DEF node
  <2>3. job' \in JobShape /\ job'.phase = "found" /\ job'.path = job.path /\ job'.node = node
    BY <1>4, <2>1, <2>2 DEF JobShape, Phases, RecordOK
  <2>4. LeadsTo(job.path, job.node.guid)'
    BY <1>2, <1>6, <1>7, <2>1, <2>3, SameRoot
  <2>5. job'.node.guid \in DOMAIN node_map'
    BY <1>2, <1>7, <2>1, <2>3 DEF found, IsKnown
  <2>6. JobOK'
    BY <1>4, <2>1, <2>3, <2>4, <2>5 DEF JobOK
  <2> QED BY <1>3, <2>3, <2>6 DEF NodeInv
<1>8. CASE /\ outcome.kind = "Ok" /\ ~IsKnown(port[1])
           /\ job' = [job EXCEPT !.phase = "nodeDesc", !.node = NewNode(port[1], job.path, port[2])]
  <2> DEFINE node == NewNode(port[1], job.path, port[2])
  <2>1. RecordOK(node) /\ node.guid = port[1] /\ node.ports = <<>> /\ node.lid = 0
    BY <1>4, <1>6, <1>8, NewNodeOK
  <2>2. job' = [job EXCEPT !.phase = "nodeDesc", !.node = node]
    BY <1>8
  <2> HIDE DEF node
  <2>3. job' \in JobShape /\ job'.phase = "nodeDesc" /\ job'.path = job.path /\ job'.node = node
    BY <1>4, <2>1, <2>2 DEF JobShape, Phases, RecordOK
  <2>4. LeadsTo(job.path, job.node.guid)'
    BY <1>2, <1>6, <1>8, <2>1, <2>3, SameRoot
  <2>5. job'.node.guid \notin DOMAIN node_map'
    BY <1>2, <1>8, <2>1, <2>3 DEF found, IsKnown
  <2>6. JobOK'
    BY <1>4, <2>1, <2>3, <2>4, <2>5 DEF JobOK
  <2> QED BY <1>3, <2>3, <2>6 DEF NodeInv
<1>9. CASE Lost
  <2>1. job' \in JobShape /\ job'.phase = "lost" /\ job'.path = job.path
    BY <1>4, <1>9 DEF Lost, JobShape, Phases
  <2>2. JobOK'
    BY <1>4, <2>1 DEF JobOK
  <2> QED BY <1>3, <2>1, <2>2 DEF NodeInv
<1> QED BY <1>5, <1>7, <1>8, <1>9

(* The answer to NodeDescription, or none.                                 *)
LEMMA FetchNodeDescKeepsNodeInv == ASSUME NodeInv, FetchNodeDesc PROVE NodeInv' /\ job'.path = job.path
<1>1. FabricOK /\ MapOK /\ CountersOK /\ JobOK /\ job.phase = "nodeDesc"
  BY DEF NodeInv, FetchNodeDesc
<1>2. UNCHANGED <<fabric, found, counters>>
  BY DEF FetchNodeDesc, graph
<1>3. FabricOK' /\ MapOK' /\ CountersOK'
  BY <1>1, <1>2, SameRoot DEF MapOK, CountersOK, found, counters
<1>4. job \in JobShape /\ IsRoute(job.path) /\ RecordOK(job.node)
  BY <1>1 DEF JobOK
<1>5. \/ job' = [job EXCEPT !.phase = "portInfo", !.next = FirstPort(job.node.guid)]
      \/ Lost
  BY DEF FetchNodeDesc, FirstPort
<1>6. CASE job' = [job EXCEPT !.phase = "portInfo", !.next = FirstPort(job.node.guid)]
  <2>1. job.node.guid \in Node /\ NPorts[job.node.guid] \in 1..255
    BY <1>4, RouteAssumption DEF RecordOK, NodeShape
  <2>2. FirstPort(job.node.guid) \in FirstPort(job.node.guid)..NPorts[job.node.guid]
    BY <2>1 DEF FirstPort
  <2>3. /\ job' \in JobShape /\ job'.phase = "portInfo" /\ job'.path = job.path
        /\ job'.node = job.node /\ job'.next = FirstPort(job.node.guid)
    BY <1>4, <1>6 DEF JobShape, Phases, FirstPort
  <2>4. LeadsTo(job.path, job.node.guid)'
    BY <1>1, <1>2, <2>3, SameRoot DEF JobOK
  <2>5. job.node.ports = <<>> /\ job.node.lid = 0 /\ DOMAIN job.node.ports = {}
    BY <1>1 DEF JobOK
  <2>6. job'.node.guid \notin DOMAIN node_map'
    BY <1>1, <1>2, <2>3 DEF JobOK, found
  <2>7. JobOK'
    BY <1>4, <2>2, <2>3, <2>4, <2>5, <2>6 DEF JobOK
  <2> QED BY <1>3, <2>3, <2>7 DEF NodeInv
<1>7. CASE Lost
  <2>1. job' \in JobShape /\ job'.phase = "lost" /\ job'.path = job.path
    BY <1>4, <1>7 DEF Lost, JobShape, Phases
  <2>2. JobOK'
    BY <1>4, <2>1 DEF JobOK
  <2> QED BY <1>3, <2>1, <2>2 DEF NodeInv
<1> QED BY <1>5, <1>6, <1>7

(* Recorded ports have numbers.                                            *)
LEMMA PortNumberType ==
    ASSUME NEW node \in NodeShape, NEW i \in DOMAIN node.ports
    PROVE  node.ports[i] \in PortRecord /\ node.ports[i].number \in 0..255
<1>1. node.ports \in Seq(PortRecord)
  BY DEF NodeShape
<1>2. node.ports[i] \in PortRecord
  BY <1>1
<1> QED BY <1>2 DEF PortRecord

(* What a port leaves of the record r: the next port is asked for, or the  *)
(* record is complete.                                                     *)
Continued(r) ==
    /\ UNCHANGED found
    /\ job'.phase = "portInfo" /\ job'.node = r /\ job'.next = job.next + 1
Completed(r) ==
    /\ job.next = NPorts[r.guid]
    /\ node_map' = Put(node_map, r.guid, r) /\ nodes' = Append(nodes, r.guid)
    /\ job'.phase = "found" /\ job'.node = r
NextRecord(r) ==
    /\ RecordOK(r) /\ r.guid = job.node.guid
    /\ \A i \in DOMAIN r.ports : r.ports[i].number <= job.next
    /\ Continued(r) \/ Completed(r)

(* A port is done with: the record of the node goes on, or into the map if *)
(* it was the last.                                                        *)
LEMMA PortDoneFacts ==
    ASSUME NodeInv, UNCHANGED fabric, job.phase = "portInfo",
           NEW r, RecordOK(r), r.guid = job.node.guid,
           \A i \in DOMAIN r.ports : r.ports[i].number <= job.next,
           PortDone(r, job.next)
    PROVE  NextRecord(r) /\ FabricOK' /\ MapOK' /\ JobOK' /\ job'.path = job.path
<1>1. FabricOK /\ MapOK /\ JobOK
  BY DEF NodeInv
<1>2. job \in JobShape /\ IsRoute(job.path) /\ r \in NodeShape /\ r.guid \in Node
  BY <1>1 DEF JobOK, RecordOK, NodeShape
<1>3. /\ NPorts[r.guid] \in 1..255 /\ job.next \in FirstPort(r.guid)..NPorts[r.guid]
      /\ job.next \in Nat /\ job.next <= NPorts[r.guid]
  <2>1. NPorts[r.guid] \in 1..255
    BY <1>2, RouteAssumption
  <2>2. job.next \in FirstPort(r.guid)..NPorts[r.guid]
    BY <1>1 DEF JobOK
  <2>3. FirstPort(r.guid) \in Nat
    BY DEF FirstPort
  <2>4. PICK lo, hi : lo = FirstPort(r.guid) /\ hi = NPorts[r.guid]
    OBVIOUS
  <2>5. lo \in Nat /\ hi \in 1..255 /\ job.next \in lo..hi
    BY <2>1, <2>2, <2>3, <2>4
  <2>6. job.next \in Nat /\ job.next <= hi
    BY <2>5
  <2> QED BY <2>1, <2>2, <2>4, <2>6
<1>4. FabricOK'
  BY <1>1, SameRoot
<1>5. CASE job.next < NPorts[r.guid]
  <2>1. job' = [job EXCEPT !.node = r, !.next = job.next + 1] /\ UNCHANGED found
    BY <1>5 DEF PortDone
  <2>2. /\ job' \in JobShape /\ job'.phase = "portInfo" /\ job'.path = job.path
        /\ job'.node = r /\ job'.next = job.next + 1
    <3>1. job.next + 1 \in Nat
      BY <1>3
    <3>2. job \in [phase : Phases, path : Path, node : NodeShape \cup {Nowhere}, next : Nat]
      BY <1>2 DEF JobShape
    <3> QED BY <1>2, <2>1, <3>1, <3>2 DEF JobShape
  <2>3. NextRecord(r)
    BY <2>1, <2>2 DEF NextRecord, Continued
  <2>4. MapOK'
    BY <1>1, <2>1 DEF MapOK, found
  <2>5. LeadsTo(job.path, job.node.guid)'
    BY <1>4, <2>2, SameRoot, <1>1 DEF JobOK
  <2>6. job'.node.guid \notin DOMAIN node_map'
    BY <1>1, <2>1, <2>2 DEF JobOK, found
  <2>7. /\ job'.next \in FirstPort(job'.node.guid)..NPorts[job'.node.guid]
        /\ \A i \in DOMAIN job'.node.ports : job'.node.ports[i].number < job'.next
        /\ job'.next # 0
    <3>1. job'.next \in FirstPort(r.guid)..NPorts[r.guid] /\ job'.next # 0
      <4>1. PICK k, lo, hi : k = job.next /\ lo = FirstPort(r.guid) /\ hi = NPorts[r.guid]
        OBVIOUS
      <4>2. lo \in Nat
        BY <4>1 DEF FirstPort
      <4>3. hi \in 1..255 /\ k \in Nat /\ k \in lo..hi /\ k < hi
        BY <1>3, <1>5, <4>1
      <4>4. k + 1 \in lo..hi /\ k + 1 # 0
        BY <4>2, <4>3
      <4> QED BY <2>2, <4>1, <4>4
    <3>2. ASSUME NEW i \in DOMAIN r.ports PROVE r.ports[i].number < job.next + 1
      <4>1. r.ports[i].number \in 0..255
        BY <1>2, PortNumberType
      <4>2. r.ports[i].number <= job.next
        BY <1>3
      <4> QED BY <4>1, <4>2, <1>3, SMTT(30)
    <3> QED BY <2>2, <3>1, <3>2
  <2>8. JobOK'
    BY <1>2, <2>2, <2>5, <2>6, <2>7 DEF JobOK
  <2> QED BY <1>4, <2>2, <2>3, <2>4, <2>8
<1>6. CASE ~(job.next < NPorts[r.guid])
  <2>1. /\ job' = [job EXCEPT !.phase = "found", !.node = r]
        /\ node_map' = Put(node_map, r.guid, r) /\ nodes' = Append(nodes, r.guid)
    BY <1>6 DEF PortDone, Found
  <2>2. job' \in JobShape /\ job'.phase = "found" /\ job'.path = job.path /\ job'.node = r
    BY <1>2, <2>1 DEF JobShape, Phases
  <2>3. job.next = NPorts[r.guid]
    <3>1. PICK k, hi : k = job.next /\ hi = NPorts[r.guid]
      OBVIOUS
    <3>2. k \in Nat /\ hi \in 1..255 /\ k <= hi /\ ~(k < hi)
      BY <1>3, <1>6, <3>1
    <3>3. k = hi
      BY <3>2
    <3> QED BY <3>1, <3>3
  <2>4. NextRecord(r)
    BY <2>1, <2>2, <2>3 DEF NextRecord, Completed
  <2>5. MapOK'
    <3> DEFINE map == Put(node_map, r.guid, r)
    <3>1. /\ DOMAIN map = DOMAIN node_map \cup {r.guid} /\ map[r.guid] = r
          /\ \A n \in DOMAIN node_map \ {r.guid} : map[n] = node_map[n]
      BY DEF Put
    <3> HIDE DEF map
    <3>2. node_map' = map
      BY <2>1 DEF map
    <3> QED BY <3>1, <3>2, <1>1, <1>2 DEF MapOK
  <2>6. LeadsTo(job.path, job.node.guid)'
    BY <1>1, <2>2, SameRoot DEF JobOK
  <2>7. JobOK'
    <3>1. job'.node.guid \in DOMAIN node_map'
      BY <2>1, <2>2 DEF Put
    <3> QED BY <1>2, <2>2, <2>6, <3>1 DEF JobOK
  <2> QED BY <1>4, <2>2, <2>4, <2>5, <2>7
<1> QED BY <1>5, <1>6

(* The outcomes of a PortInfo: the port is recorded as it is, as down and  *)
(* counted, or left out, which is counted for all but port 0; or the node  *)
(* is given up.                                                            *)
Arrived(r) ==
    /\ r = Attach(job.node, PortOf(Cable, job.node.guid, job.next))
    /\ UNCHANGED counters
RecordedAsDown(r) ==
    /\ r = Attach(job.node, Placeholder(job.next)) /\ job.next # 0
    /\ mad_timeouts' = mad_timeouts + 1 /\ UNCHANGED mad_errors
LeftOut(r) ==
    /\ r = job.node /\ job.next # 0
    /\ mad_errors' = mad_errors + 1 /\ UNCHANGED mad_timeouts
WithoutPortZero(r) ==
    /\ r = job.node /\ job.next = 0
    /\ mad_timeouts' \in {mad_timeouts, mad_timeouts + 1} /\ UNCHANGED mad_errors

PortStep(r) == NextRecord(r) /\ (Arrived(r) \/ RecordedAsDown(r) \/ LeftOut(r) \/ WithoutPortZero(r))

(* The answer to PortInfo, or none: the port is recorded, recorded as down *)
(* or left out, or the node is lost.                                       *)
LEMMA FetchPortInfoSteps ==
    ASSUME NodeInv, FetchPortInfo
    PROVE  /\ NodeInv' /\ job'.path = job.path
           /\ \/ \E r : PortStep(r)
              \/ Lost /\ UNCHANGED <<found, counters>>
<1> DEFINE node == job.node
           p == job.next
<1>1. FabricOK /\ MapOK /\ CountersOK /\ JobOK /\ job.phase = "portInfo" /\ UNCHANGED fabric
  BY DEF NodeInv, FetchPortInfo
<1>2. job \in JobShape /\ IsRoute(job.path) /\ RecordOK(node) /\ node.guid \in Node
  BY <1>1 DEF JobOK, RecordOK, NodeShape
<1>3. p \in FirstPort(node.guid)..NPorts[node.guid] /\ p \in 0..255
  BY <1>1, <1>2, PortRecords, ZenonT(30) DEF JobOK
<1>4. \A i \in DOMAIN node.ports : node.ports[i].number < p
  BY <1>1 DEF JobOK
<1>4a. \A i \in DOMAIN node.ports : node.ports[i].number \in 0..255
  BY <1>2, PortNumberType DEF RecordOK
<1>4b. p <= NPorts[node.guid]
  BY <1>2, <1>3, RouteAssumption DEF FirstPort
<1>5. PICK outcome \in Outcome(job.path) :
         \/ outcome.kind = "Ok" /\ PortArrived(node, p)
         \/ outcome.kind = "TimedOut" /\ PortTimedOut(node, p)
         \/ outcome.kind = "InvalidInput" /\ PortInvalid(node, p)
         \/ outcome.kind = "Other" /\ PortFailed(node, p)
  BY DEF FetchPortInfo
<1> HIDE DEF node, p
<1>7. ASSUME NEW i \in DOMAIN node.ports PROVE node.ports[i].number <= p
  <2> DEFINE number == node.ports[i].number
  <2>1. number < p /\ number \in 0..255
    BY <1>4, <1>4a
  <2> HIDE DEF number
  <2>2. number <= p
    BY <2>1, <1>3
  <2> QED BY <2>2 DEF number
<1>6. ASSUME NEW port \in PortRecord, port.number = p
      PROVE  /\ RecordOK(Attach(node, port)) /\ Attach(node, port).guid = node.guid
             /\ \A i \in DOMAIN Attach(node, port).ports : Attach(node, port).ports[i].number <= p
  <2> DEFINE r == Attach(node, port)
             q == Attached(node, port)
  <2>1. /\ RecordOK(r) /\ r.guid = node.guid /\ r.ports = Append(node.ports, q)
        /\ q \in PortRecord /\ q.number = p
    BY <1>2, <1>4b, <1>6, AttachOK
  <2> HIDE DEF r, q
  <2>2. node.ports \in Seq(PortRecord)
    BY <1>2 DEF RecordOK, NodeShape
  <2>3. ASSUME NEW i \in DOMAIN r.ports PROVE r.ports[i].number <= p
    <3>1. CASE i \in DOMAIN node.ports
      <4>1. r.ports[i] = node.ports[i]
        BY <3>1, <2>1, <2>2, AppendElements
      <4> QED BY <3>1, <4>1, <1>7
    <3>2. CASE i \notin DOMAIN node.ports
      BY <3>2, <2>1, <2>2, <1>3, AppendElements
    <3> QED BY <3>1, <3>2
  <2> QED BY <2>1, <2>3 DEF r
<1>8. ASSUME NEW r, RecordOK(r), r.guid = node.guid, PortDone(r, p),
             \A i \in DOMAIN r.ports : r.ports[i].number <= p
      PROVE  NextRecord(r) /\ FabricOK' /\ MapOK' /\ JobOK' /\ job'.path = job.path
  BY <1>1, <1>8, PortDoneFacts DEF node, p
<1>9. /\ PortOf(Cable, node.guid, p) \in PortRecord /\ PortOf(Cable, node.guid, p).number = p
      /\ Placeholder(p) \in PortRecord /\ Placeholder(p).number = p
  BY <1>2, <1>3, PortRecords DEF PortOf, Placeholder
<1>10. mad_timeouts \in Nat /\ mad_errors \in Nat
  BY <1>1 DEF CountersOK
<1>11. CASE PortArrived(node, p)
  <2> DEFINE r == Attach(node, PortOf(Cable, node.guid, p))
  <2>1. PortDone(r, p) /\ UNCHANGED counters
    BY <1>11 DEF PortArrived
  <2>2. NextRecord(r) /\ FabricOK' /\ MapOK' /\ JobOK' /\ job'.path = job.path
    BY <1>6, <1>8, <1>9, <2>1
  <2>3. Arrived(r) /\ CountersOK'
    BY <2>1, <1>1 DEF Arrived, node, p, CountersOK, counters
  <2> QED BY <2>2, <2>3 DEF NodeInv, PortStep
<1>12. CASE PortTimedOut(node, p)
  <2>0. CountersOK'
    BY <1>10, <1>12 DEF PortTimedOut, CountersOK
  <2>1. CASE p = 0
    <3>1. PortDone(node, p)
      BY <1>12, <2>1 DEF PortTimedOut
    <3>2. NextRecord(node) /\ FabricOK' /\ MapOK' /\ JobOK' /\ job'.path = job.path
      BY <1>2, <1>7, <1>8, <3>1
    <3>3. WithoutPortZero(node)
      BY <1>12, <2>1 DEF PortTimedOut, WithoutPortZero, node, p
    <3> QED BY <2>0, <3>2, <3>3 DEF NodeInv, PortStep
  <2>2. CASE p # 0
    <3> DEFINE r == Attach(node, Placeholder(p))
    <3>1. PortDone(r, p)
      BY <1>12, <2>2 DEF PortTimedOut
    <3>2. NextRecord(r) /\ FabricOK' /\ MapOK' /\ JobOK' /\ job'.path = job.path
      BY <1>6, <1>8, <1>9, <3>1
    <3>3. RecordedAsDown(r)
      BY <1>12, <2>2 DEF PortTimedOut, RecordedAsDown, node, p
    <3> QED BY <2>0, <3>2, <3>3 DEF NodeInv, PortStep
  <2> QED BY <2>1, <2>2
<1>13. CASE PortInvalid(node, p)
  <2>1. PortDone(node, p) /\ CountersOK'
    BY <1>10, <1>13 DEF PortInvalid, CountersOK
  <2>2. NextRecord(node) /\ FabricOK' /\ MapOK' /\ JobOK' /\ job'.path = job.path
    BY <1>2, <1>7, <1>8, <2>1
  <2>3. LeftOut(node) \/ WithoutPortZero(node)
    BY <1>10, <1>13 DEF PortInvalid, LeftOut, WithoutPortZero, node, p
  <2> QED BY <2>1, <2>2, <2>3 DEF NodeInv, PortStep
<1>14. CASE PortFailed(node, p)
  <2>0. CountersOK' /\ UNCHANGED counters
    BY <1>10, <1>14 DEF PortFailed, CountersOK, counters
  <2>1. CASE p = 0 /\ PortDone(node, p)
    <3>1. NextRecord(node) /\ FabricOK' /\ MapOK' /\ JobOK' /\ job'.path = job.path
      BY <1>2, <1>7, <1>8, <2>1
    <3>2. WithoutPortZero(node)
      BY <2>0, <2>1 DEF WithoutPortZero, node, p, counters
    <3> QED BY <2>0, <3>1, <3>2 DEF NodeInv, PortStep
  <2>2. CASE Lost /\ UNCHANGED found
    <3>1. job' \in JobShape /\ job'.phase = "lost" /\ job'.path = job.path
      BY <1>2, <2>2 DEF Lost, JobShape, Phases
    <3>2. JobOK' /\ MapOK' /\ FabricOK'
      BY <1>1, <1>2, <2>2, <3>1, SameRoot DEF JobOK, MapOK, found
    <3> QED BY <2>0, <2>2, <3>1, <3>2 DEF NodeInv, PortStep
  <2> QED BY <1>14, <2>1, <2>2 DEF PortFailed
<1> QED BY <1>5, <1>11, <1>12, <1>13, <1>14

(* Each step of discover_node keeps the records well formed, and goes on   *)
(* with the route it was called for.                                       *)
THEOREM DiscoverNodeKeepsNodeInv ==
    ASSUME NodeInv, DiscoverNode PROVE NodeInv' /\ job'.path = job.path
BY FetchNodeInfoKeepsNodeInv, FetchNodeDescKeepsNodeInv, FetchPortInfoSteps DEF DiscoverNode

-----------------------------------------------------------------------------
(* The map and the list of nodes.                                          *)
EnumOK ==
    /\ nodes \in Seq(Node) /\ IsFiniteSet(DOMAIN node_map)
    /\ ToSet(nodes) = DOMAIN node_map /\ Len(nodes) = Cardinality(DOMAIN node_map)

(* Nothing found, nothing listed twice.                                    *)
LEMMA EnumEmpty == nodes = <<>> /\ node_map = <<>> => EnumOK
<1> SUFFICES ASSUME nodes = <<>>, node_map = <<>> PROVE EnumOK
  OBVIOUS
<1>1. DOMAIN node_map = {} /\ nodes \in Seq(Node) /\ Len(nodes) = 0 /\ DOMAIN nodes = {}
  OBVIOUS
<1> QED BY <1>1, FS_EmptySet DEF EnumOK, ToSet

(* A node is listed when it gets into the map, and not again.              *)
LEMMA DiscoverNodeKeepsEnum == ASSUME NodeInv, EnumOK, DiscoverNode PROVE EnumOK'
<1>1. CASE UNCHANGED found
  BY <1>1 DEF EnumOK, found
<1>2. CASE \E r : NextRecord(r) /\ Completed(r) /\ job.phase = "portInfo"
  <2>1. PICK r : NextRecord(r) /\ Completed(r) /\ job.phase = "portInfo"
    BY <1>2
  <2>2. r.guid \in Node /\ r.guid \notin DOMAIN node_map
    BY <2>1 DEF NodeInv, JobOK, NextRecord, RecordOK, NodeShape
  <2>3. nodes' = Append(nodes, r.guid) /\ DOMAIN node_map' = DOMAIN node_map \cup {r.guid}
    BY <2>1 DEF Completed, Put
  <2>4. nodes' \in Seq(Node) /\ Len(nodes') = Len(nodes) + 1
    BY <2>2, <2>3, AppendProperties DEF EnumOK
  <2>5. ToSet(nodes)' = ToSet(nodes) \cup {r.guid}
    <3>1. /\ DOMAIN nodes' = DOMAIN nodes \cup {Len(nodes) + 1}
          /\ Len(nodes) + 1 \notin DOMAIN nodes
          /\ nodes'[Len(nodes) + 1] = r.guid
          /\ \A i \in DOMAIN nodes : nodes'[i] = nodes[i]
      BY <2>2, <2>3, AppendElements DEF EnumOK
    <3> QED BY <3>1 DEF ToSet
  <2>6. /\ IsFiniteSet(DOMAIN node_map')
        /\ Cardinality(DOMAIN node_map') = Cardinality(DOMAIN node_map) + 1
    BY <2>2, <2>3, FS_AddElement DEF EnumOK
  <2> QED BY <2>3, <2>4, <2>5, <2>6 DEF EnumOK
<1>3. CASE FetchNodeInfo \/ FetchNodeDesc
  <2>1. UNCHANGED found
    BY <1>3 DEF FetchNodeInfo, FetchNodeDesc, graph
  <2> QED BY <2>1, <1>1
<1>4. CASE FetchPortInfo
  <2>1. job.phase = "portInfo"
    BY <1>4 DEF FetchPortInfo
  <2>2. CASE \E r : NextRecord(r)
    BY <2>1, <2>2, <1>1, <1>2 DEF NextRecord, Continued
  <2>3. (\E r : NextRecord(r)) \/ UNCHANGED found
    <3>1. \/ \E r : PortStep(r)
          \/ Lost /\ UNCHANGED <<found, counters>>
      BY <1>4, FetchPortInfoSteps
    <3> QED BY <3>1 DEF PortStep
  <2> QED BY <2>2, <2>3, <1>1
<1> QED BY <1>3, <1>4 DEF DiscoverNode

-----------------------------------------------------------------------------
(* The LID of a switch, in records complete or not.                        *)
LidOK(node) ==
    node.guid \in Switches /\ 0 \in PortNumbers(node) /\ PortLid[<<node.guid, 0>>] # 0 =>
        /\ node.lid = PortLid[<<node.guid, 0>>]
        /\ \A i \in DOMAIN node.ports : node.ports[i].lid = PortLid[<<node.guid, 0>>]
LidInv ==
    /\ \A n \in DOMAIN node_map : LidOK(node_map[n])
    /\ job.phase = "portInfo" => LidOK(job.node)

(* The invariant about LIDs says what the property says.                   *)
LEMMA LidInvImplies == MapOK /\ LidInv => LidPropagated
BY DEF MapOK, LidInv, LidOK, LidPropagated

(* Port 0 is the first port a record of a switch gets; the others follow.  *)
LEMMA AttachKeepsLid ==
    ASSUME NEW node, RecordOK(node), LidOK(node),
           NEW port \in PortRecord, port.number <= NPorts[node.guid],
           port.number = 0 => /\ node.ports = <<>> /\ node.lid = 0
                              /\ port.lid = PortLid[<<node.guid, 0>>]
    PROVE  LidOK(Attach(node, port))
<1> DEFINE r == Attach(node, port)
           q == Attached(node, port)
           n == Len(node.ports)
           L == PortLid[<<node.guid, 0>>]
<1>1. /\ r.guid = node.guid /\ r.ports = Append(node.ports, q)
      /\ r.lid = IF node.lid = 0 /\ port.number \in {0, node.local_port}
                 THEN port.lid ELSE node.lid
      /\ q \in PortRecord /\ q.number = port.number
  BY AttachOK
<1>2. node.ports \in Seq(PortRecord)
  BY DEF RecordOK, NodeShape
<1>3. q.lid = IF Inherits(node, port) THEN node.lid ELSE port.lid
  BY DEF Attached, PortRecord
<1> HIDE DEF r, q, n
<1>4. /\ DOMAIN r.ports = DOMAIN node.ports \cup {n + 1} /\ r.ports[n + 1] = q
      /\ \A i \in DOMAIN node.ports : r.ports[i] = node.ports[i]
  BY <1>1, <1>2, AppendElements DEF n
<1> SUFFICES ASSUME node.guid \in Switches, 0 \in PortNumbers(r), L # 0
             PROVE  r.lid = L /\ \A i \in DOMAIN r.ports : r.ports[i].lid = L
  BY <1>1 DEF LidOK, r
<1>5. CASE port.number = 0
  <2>1. DOMAIN node.ports = {} /\ node.lid = 0 /\ port.lid = L
    BY <1>5
  <2>2. r.lid = L /\ q.lid = L
    BY <2>1, <1>1, <1>3, <1>5 DEF Inherits
  <2> QED BY <2>1, <2>2, <1>4
<1>6. CASE port.number # 0
  <2>1. 0 \in PortNumbers(node)
    <3>1. PICK i \in DOMAIN r.ports : r.ports[i].number = 0
      BY DEF PortNumbers
    <3>2. i \in DOMAIN node.ports
      BY <3>1, <1>1, <1>4, <1>6
    <3> QED BY <3>1, <3>2, <1>4 DEF PortNumbers
  <2>2. node.lid = L /\ \A i \in DOMAIN node.ports : node.ports[i].lid = L
    BY <2>1 DEF LidOK
  <2>3. r.lid = L /\ q.lid = L
    BY <2>2, <1>1, <1>3, <1>6 DEF Inherits
  <2> QED BY <2>2, <2>3, <1>4
<1> QED BY <1>5, <1>6

(* A node and its ports keep the LIDs they owe each other while ports are  *)
(* attached.                                                               *)
LEMMA DiscoverNodeKeepsLid == ASSUME NodeInv, LidInv, DiscoverNode PROVE LidInv'
<1>1. CASE FetchNodeInfo
  <2>1. UNCHANGED found /\ job \in JobShape
    BY <1>1 DEF FetchNodeInfo, graph, NodeInv, JobOK
  <2>2. job'.phase # "portInfo"
    BY <1>1, <2>1 DEF FetchNodeInfo, Found, Lost, JobShape
  <2> QED BY <2>1, <2>2 DEF LidInv, found
<1>2. CASE FetchNodeDesc
  <2>1. UNCHANGED found /\ job \in JobShape /\ job.node.ports = <<>>
    BY <1>2 DEF FetchNodeDesc, graph, NodeInv, JobOK
  <2>2. job'.phase = "lost" \/ job'.node = job.node
    BY <1>2, <2>1 DEF FetchNodeDesc, Lost, JobShape
  <2>3. LidOK(job.node)
    BY <2>1 DEF LidOK, PortNumbers
  <2> QED BY <2>1, <2>2, <2>3 DEF LidInv, found
<1>3. CASE FetchPortInfo
  <2>1. NodeInv /\ JobOK /\ job.phase = "portInfo" /\ LidOK(job.node)
    BY <1>3 DEF FetchPortInfo, NodeInv, LidInv
  <2>2. CASE Lost /\ UNCHANGED <<found, counters>>
    <3>1. job'.phase = "lost"
      BY <2>1, <2>2 DEF JobOK, JobShape, Lost
    <3> QED BY <2>2, <3>1 DEF LidInv, found
  <2>3. ASSUME NEW r, PortStep(r) PROVE LidInv'
    <3>0. /\ NextRecord(r)
          /\ Arrived(r) \/ RecordedAsDown(r) \/ LeftOut(r) \/ WithoutPortZero(r)
      BY <2>3 DEF PortStep
    <3>1. LidOK(r)
      <4>1. /\ RecordOK(job.node) /\ job.node.guid \in Node
            /\ job.next \in FirstPort(job.node.guid)..NPorts[job.node.guid]
            /\ job.next = 0 => job.node.ports = <<>> /\ job.node.lid = 0
        BY <2>1 DEF JobOK, RecordOK, NodeShape
      <4>2. job.next <= NPorts[job.node.guid]
        BY <4>1, RouteAssumption DEF FirstPort
      <4>3. CASE Arrived(r)
        <5> DEFINE port == PortOf(Cable, job.node.guid, job.next)
        <5>1. port \in PortRecord
          BY <4>1, PortRecords
        <5>2. port.number = job.next /\ port.lid = PortLid[<<job.node.guid, job.next>>]
          BY DEF PortOf
        <5> HIDE DEF port
        <5>3. LidOK(Attach(job.node, port))
          BY <2>1, <4>1, <4>2, <5>1, <5>2, AttachKeepsLid
        <5> QED BY <4>3, <5>3 DEF Arrived, port
      <4>4. CASE RecordedAsDown(r)
        <5> DEFINE port == Placeholder(job.next)
        <5>1. port \in PortRecord
          BY <4>1, PortRecords
        <5>2. port.number = job.next /\ job.next # 0
          BY <4>4 DEF Placeholder, RecordedAsDown
        <5> HIDE DEF port
        <5>3. LidOK(Attach(job.node, port))
          BY <2>1, <4>1, <4>2, <5>1, <5>2, AttachKeepsLid
        <5> QED BY <4>4, <5>3 DEF RecordedAsDown, port
      <4>5. CASE LeftOut(r) \/ WithoutPortZero(r)
        BY <2>1, <4>5 DEF LeftOut, WithoutPortZero
      <4> QED BY <3>0, <4>3, <4>4, <4>5
    <3>2. CASE Continued(r)
      BY <3>1, <3>2 DEF LidInv, Continued, found
    <3>3. CASE Completed(r)
      BY <3>1, <3>3 DEF LidInv, Completed, Put
    <3> QED BY <3>0, <3>2, <3>3 DEF NextRecord
  <2>4. \/ \E r : PortStep(r)
        \/ Lost /\ UNCHANGED <<found, counters>>
    BY <1>3, FetchPortInfoSteps
  <2> QED BY <2>2, <2>3, <2>4
<1> QED BY <1>1, <1>2, <1>3 DEF DiscoverNode

-----------------------------------------------------------------------------
(* What a discovery could not see, in records complete or not: connected   *)
(* ports recorded as down, as long as no cable is unplugged, and ports     *)
(* left out although they were asked for.                                  *)
DownPorts(node) ==
    {i \in DOMAIN node.ports : /\ node.ports[i].state = "Down"
                              /\ <<node.guid, node.ports[i].number>> \in DOMAIN cabling}
Skipped(node, last) == (1..last) \ PortNumbers(node)

IsDown(n, i) ==
    /\ cut = {}
    /\ \/ n \in DOMAIN node_map /\ i \in RecordedDown(n)
       \/ job.phase = "portInfo" /\ n = job.node.guid /\ i \in DownPorts(job.node)
IsSkipped(n, p) ==
    \/ n \in DOMAIN node_map /\ p \in Missing(n)
    \/ job.phase = "portInfo" /\ n = job.node.guid /\ p \in Skipped(job.node, job.next - 1)

Downs == {gap \in Node \X Nat : IsDown(gap[1], gap[2])}
Skips == {gap \in Node \X Nat : IsSkipped(gap[1], gap[2])}

IsCounted(gaps, counter) == IsFiniteSet(gaps) /\ Cardinality(gaps) <= counter
GapInv == IsCounted(Downs, mad_timeouts) /\ IsCounted(Skips, mad_errors)

(* A gap more, and one more counted.                                       *)
LEMMA Counting ==
    ASSUME NEW gaps, NEW counter \in Nat, IsCounted(gaps, counter)
    PROVE  /\ \A more : more \subseteq gaps => IsCounted(more, counter) /\ IsCounted(more, counter + 1)
           /\ \A more, x : more \subseteq gaps \cup {x} => IsCounted(more, counter + 1)
<1>1. IsFiniteSet(gaps) /\ Cardinality(gaps) \in Nat /\ Cardinality(gaps) <= counter
  BY FS_CardinalityType DEF IsCounted
<1>2. ASSUME NEW more, more \subseteq gaps
      PROVE  IsCounted(more, counter) /\ IsCounted(more, counter + 1)
  <2>1. IsFiniteSet(more) /\ Cardinality(more) <= Cardinality(gaps) /\ Cardinality(more) \in Nat
    BY <1>1, <1>2, FS_Subset, FS_CardinalityType
  <2> QED BY <2>1, <1>1 DEF IsCounted
<1>3. ASSUME NEW more, NEW x, more \subseteq gaps \cup {x} PROVE IsCounted(more, counter + 1)
  <2>1. /\ IsFiniteSet(gaps \cup {x})
        /\ Cardinality(gaps \cup {x}) \in Nat /\ Cardinality(gaps \cup {x}) <= Cardinality(gaps) + 1
    BY <1>1, FS_AddElement, FS_CardinalityType, SMTT(30)
  <2>2. IsFiniteSet(more) /\ Cardinality(more) <= Cardinality(gaps \cup {x}) /\ Cardinality(more) \in Nat
    BY <2>1, <1>3, FS_Subset, FS_CardinalityType
  <2> QED BY <2>1, <2>2, <1>1 DEF IsCounted
<1> QED BY <1>2, <1>3

(* The counters count at least the gaps that are in the map.               *)
LEMMA GapInvImplies == MapOK /\ CountersOK /\ GapInv => GapsAreCounted
<1> SUFFICES ASSUME MapOK, CountersOK, GapInv, cut = {} PROVE GapsAreCounted
  BY DEF GapsAreCounted
<1> DEFINE down == UNION {{n} \X RecordedDown(n) : n \in DOMAIN node_map}
           missing == UNION {{n} \X Missing(n) : n \in DOMAIN node_map}
<1>1. down \subseteq Downs
  <2> SUFFICES ASSUME NEW n \in DOMAIN node_map, NEW i \in RecordedDown(n)
               PROVE  <<n, i>> \in Downs
    OBVIOUS
  <2>1. n \in Node /\ i \in Nat
    BY DEF MapOK, RecordOK, NodeShape, RecordedDown
  <2> QED BY <2>1 DEF Downs, IsDown
<1>1a. missing \subseteq Skips
  <2> SUFFICES ASSUME NEW n \in DOMAIN node_map, NEW p \in Missing(n)
               PROVE  <<n, p>> \in Skips
    OBVIOUS
  <2>1. n \in Node /\ p \in Nat
    BY DEF MapOK, Missing
  <2> QED BY <2>1 DEF Skips, IsSkipped
<1>2. IsCounted(Downs, mad_timeouts) /\ IsCounted(Skips, mad_errors)
  BY DEF GapInv
<1> HIDE DEF down, missing
<1>3. IsCounted(down, mad_timeouts) /\ IsCounted(missing, mad_errors)
  BY <1>1, <1>1a, <1>2, Counting DEF CountersOK
<1> QED BY <1>3 DEF GapsAreCounted, IsCounted, down, missing

(* Nothing found, no gaps.                                                 *)
LEMMA NoGaps == node_map = <<>> /\ job.phase # "portInfo" /\ CountersOK => GapInv
<1> SUFFICES ASSUME node_map = <<>>, job.phase # "portInfo", CountersOK PROVE GapInv
  OBVIOUS
<1>1. DOMAIN node_map = {}
  OBVIOUS
<1>2. Downs = {} /\ Skips = {}
  BY <1>1 DEF Downs, Skips, IsDown, IsSkipped
<1> QED BY <1>2, FS_EmptySet DEF GapInv, IsCounted, CountersOK

(* The gaps after a port: those of the other records and those of r.       *)
LEMMA GapsAfterPort ==
    ASSUME NodeInv, UNCHANGED fabric, job.phase = "portInfo", NEW r, NextRecord(r)
    PROVE  /\ \A n, i : IsDown(n, i)' => IsDown(n, i) \/ (n = r.guid /\ i \in DownPorts(r))
           /\ \A n, i : IsDown(n, i)' => cut = {}
           /\ \A n, p : IsSkipped(n, p)' =>
                 IsSkipped(n, p) \/ (n = r.guid /\ p \in Skipped(r, job.next))
           /\ cut = {} => \A i \in DownPorts(job.node) : IsDown(r.guid, i)
           /\ \A p \in Skipped(job.node, job.next - 1) : IsSkipped(r.guid, p)
<1>1. r.guid = job.node.guid /\ r.guid \notin DOMAIN node_map /\ job.next \in Nat
  BY DEF NodeInv, JobOK, JobShape, NextRecord
<1>2. UNCHANGED cabling /\ UNCHANGED cut /\ \A n, i : IsDown(n, i)' => cut = {}
  BY DEF fabric, IsDown
<1>3. cut = {} => \A i \in DownPorts(job.node) : IsDown(r.guid, i)
  BY <1>1 DEF IsDown
<1>4. \A p \in Skipped(job.node, job.next - 1) : IsSkipped(r.guid, p)
  BY <1>1 DEF IsSkipped
<1>5. CASE Continued(r)
  <2>1. node_map' = node_map /\ job'.phase = "portInfo" /\ job'.node = r /\ job'.next - 1 = job.next
    BY <1>1, <1>5 DEF Continued, found
  <2>2. DownPorts(job.node)' = DownPorts(r) /\ Skipped(job.node, job.next - 1)' = Skipped(r, job.next)
    BY <1>2, <2>1 DEF DownPorts, Skipped, PortNumbers
  <2>3. \A n : RecordedDown(n)' = RecordedDown(n) /\ Missing(n)' = Missing(n)
    BY <1>2, <2>1 DEF RecordedDown, Missing
  <2>4. \A n, i : IsDown(n, i)' => IsDown(n, i) \/ (n = r.guid /\ i \in DownPorts(r))
    BY <1>2, <2>1, <2>2, <2>3 DEF IsDown
  <2>5. \A n, p : IsSkipped(n, p)' => IsSkipped(n, p) \/ (n = r.guid /\ p \in Skipped(r, job.next))
    BY <2>1, <2>2, <2>3 DEF IsSkipped
  <2> QED BY <1>2, <1>3, <1>4, <2>4, <2>5
<1>6. CASE Completed(r)
  <2>1. node_map' = Put(node_map, r.guid, r) /\ job'.phase = "found" /\ job.next = NPorts[r.guid]
    BY <1>6 DEF Completed
  <2>2. /\ DOMAIN node_map' = DOMAIN node_map \cup {r.guid} /\ node_map'[r.guid] = r
        /\ \A n \in DOMAIN node_map : node_map'[n] = node_map[n]
    BY <1>1, <2>1 DEF Put
  <2>3. \A n \in DOMAIN node_map : RecordedDown(n)' = RecordedDown(n) /\ Missing(n)' = Missing(n)
    BY <1>2, <2>2 DEF RecordedDown, Missing
  <2>4. RecordedDown(r.guid)' = DownPorts(r) /\ Missing(r.guid)' = Skipped(r, job.next)
    BY <1>2, <2>1, <2>2 DEF RecordedDown, DownPorts, Missing, Skipped
  <2>5. \A n, i : IsDown(n, i)' => IsDown(n, i) \/ (n = r.guid /\ i \in DownPorts(r))
    BY <1>2, <2>1, <2>2, <2>3, <2>4 DEF IsDown
  <2>6. \A n, p : IsSkipped(n, p)' => IsSkipped(n, p) \/ (n = r.guid /\ p \in Skipped(r, job.next))
    BY <2>1, <2>2, <2>3, <2>4 DEF IsSkipped
  <2> QED BY <1>2, <1>3, <1>4, <2>5, <2>6
<1> QED BY <1>5, <1>6 DEF NextRecord

(* What a port adds to the gaps of its node.                               *)
LEMMA AttachGaps ==
    ASSUME NEW node, RecordOK(node), NEW port \in PortRecord, port.number <= NPorts[node.guid]
    PROVE  LET r == Attach(node, port)
           IN  /\ DownPorts(r) \subseteq DownPorts(node) \cup {Len(node.ports) + 1}
               /\ (port.state = "Down" => <<node.guid, port.number>> \notin DOMAIN cabling)
                      => DownPorts(r) \subseteq DownPorts(node)
               /\ PortNumbers(r) = PortNumbers(node) \cup {port.number}
<1> DEFINE r == Attach(node, port)
           q == Attached(node, port)
           n == Len(node.ports)
<1>1. /\ r.guid = node.guid /\ r.ports = Append(node.ports, q)
      /\ q \in PortRecord /\ q.number = port.number /\ q.state = port.state
  BY AttachOK
<1>2. node.ports \in Seq(PortRecord)
  BY DEF RecordOK, NodeShape
<1> HIDE DEF r, q
<1>3. /\ DOMAIN r.ports = DOMAIN node.ports \cup {n + 1} /\ r.ports[n + 1] = q
      /\ \A i \in DOMAIN node.ports : r.ports[i] = node.ports[i]
  BY <1>1, <1>2, AppendElements
<1> HIDE DEF n
<1>4. DownPorts(r) \subseteq DownPorts(node) \cup {n + 1}
  BY <1>1, <1>3 DEF DownPorts
<1>5. (port.state = "Down" => <<node.guid, port.number>> \notin DOMAIN cabling)
        => DownPorts(r) \subseteq DownPorts(node)
  BY <1>1, <1>3 DEF DownPorts
<1>6. PortNumbers(r) = PortNumbers(node) \cup {port.number}
  BY <1>1, <1>3 DEF PortNumbers
<1> QED BY <1>4, <1>5, <1>6 DEF r, n

(* Gaps that stay, or grow by one.                                         *)
LEMMA GapsStay ==
    ASSUME \A n, i : IsDown(n, i)' => IsDown(n, i) PROVE Downs' \subseteq Downs
BY DEF Downs

(* One port more is recorded as down.                                      *)
LEMMA GapsGrow ==
    ASSUME NEW r, NEW k, \A n, i : IsDown(n, i)' => IsDown(n, i) \/ (n = r.guid /\ i = k)
    PROVE  Downs' \subseteq Downs \cup {<<r.guid, k>>}
BY DEF Downs

(* No more ports are left out.                                             *)
LEMMA SkipsStay ==
    ASSUME \A n, i : IsSkipped(n, i)' => IsSkipped(n, i) PROVE Skips' \subseteq Skips
BY DEF Skips

(* One port more is left out.                                              *)
LEMMA SkipsGrow ==
    ASSUME NEW r, NEW k, \A n, i : IsSkipped(n, i)' => IsSkipped(n, i) \/ (n = r.guid /\ i = k)
    PROVE  Skips' \subseteq Skips \cup {<<r.guid, k>>}
BY DEF Skips

(* Counters that stay cover gaps that do not grow.                         *)
LEMMA NoNewGaps ==
    ASSUME IsCounted(Downs, mad_timeouts), IsCounted(Skips, mad_errors), CountersOK,
           UNCHANGED counters,
           \A n, i : IsDown(n, i)' => IsDown(n, i),
           \A n, p : IsSkipped(n, p)' => IsSkipped(n, p)
    PROVE  IsCounted(Downs', mad_timeouts') /\ IsCounted(Skips', mad_errors')
<1>1. Downs' \subseteq Downs
  BY GapsStay
<1>2. Skips' \subseteq Skips
  BY SkipsStay
<1>3. mad_timeouts' = mad_timeouts /\ mad_errors' = mad_errors
  BY DEF counters
<1>4. IsCounted(Downs', mad_timeouts)
  BY <1>1, Counting DEF CountersOK
<1>5. IsCounted(Skips', mad_errors)
  BY <1>2, Counting DEF CountersOK
<1> QED BY <1>3, <1>4, <1>5

(* A step of discover_node that leaves a gap counts it.                    *)
LEMMA DiscoverNodeKeepsGaps == ASSUME NodeInv, GapInv, DiscoverNode PROVE GapInv'
<1> SUFFICES IsCounted(Downs', mad_timeouts') /\ IsCounted(Skips', mad_errors')
  BY DEF GapInv
<1>1. UNCHANGED fabric /\ (cut = {} => DOMAIN Cable = DOMAIN cabling)
  <2>1. UNCHANGED fabric
    BY DEF DiscoverNode, FetchNodeInfo, FetchNodeDesc, FetchPortInfo
  <2> QED BY <2>1 DEF Cable
<1>2. IsCounted(Downs, mad_timeouts) /\ IsCounted(Skips, mad_errors)
  BY DEF GapInv
<1>3. mad_timeouts \in Nat /\ mad_errors \in Nat /\ job \in JobShape
  BY DEF NodeInv, CountersOK, JobOK
<1>4. CASE FetchNodeInfo
  <2>1. UNCHANGED found /\ UNCHANGED counters
    BY <1>4 DEF FetchNodeInfo, graph
  <2>2. job'.phase # "portInfo"
    BY <1>3, <1>4 DEF FetchNodeInfo, Found, Lost, JobShape
  <2>3. /\ \A n, i : IsDown(n, i)' => IsDown(n, i)
       /\ \A n, p : IsSkipped(n, p)' => IsSkipped(n, p)
    BY <1>1, <2>1, <2>2 DEF IsDown, IsSkipped, RecordedDown, Missing, found, fabric
  <2> QED BY <1>2, <1>3, <2>1, <2>3, NoNewGaps DEF CountersOK
<1>5. CASE FetchNodeDesc
  <2>1. UNCHANGED found /\ UNCHANGED counters /\ DOMAIN job.node.ports = {}
    BY <1>5 DEF FetchNodeDesc, graph, NodeInv, JobOK
  <2>2. \/ job'.phase = "lost"
        \/ job'.node = job.node /\ job'.next \in {0, 1}
    BY <1>3, <1>5 DEF FetchNodeDesc, Lost, JobShape
  <2>3. CASE job'.phase = "lost"
    <3>1. /\ \A n, i : IsDown(n, i)' => IsDown(n, i)
         /\ \A n, p : IsSkipped(n, p)' => IsSkipped(n, p)
      BY <1>1, <2>1, <2>3 DEF IsDown, IsSkipped, RecordedDown, Missing, found, fabric
    <3> QED BY <1>2, <1>3, <2>1, <3>1, NoNewGaps DEF CountersOK
  <2>4. CASE job'.node = job.node /\ job'.next \in {0, 1}
    <3>1. DownPorts(job.node)' = {} /\ Skipped(job.node, job.next - 1)' = {}
      BY <2>1, <2>4 DEF DownPorts, Skipped
    <3>2. /\ \A n, i : IsDown(n, i)' => IsDown(n, i)
         /\ \A n, p : IsSkipped(n, p)' => IsSkipped(n, p)
      BY <1>1, <2>1, <3>1 DEF IsDown, IsSkipped, RecordedDown, Missing, found, fabric
    <3> QED BY <1>2, <1>3, <2>1, <3>2, NoNewGaps DEF CountersOK
  <2> QED BY <2>2, <2>3, <2>4
<1>6. CASE FetchPortInfo
  <2>1. job.phase = "portInfo"
    BY <1>6 DEF FetchPortInfo
  <2>2. CASE Lost /\ UNCHANGED <<found, counters>>
    <3>1. job'.phase = "lost" /\ UNCHANGED found /\ UNCHANGED counters
      BY <1>3, <2>2 DEF Lost, JobShape
    <3>2. /\ \A n, i : IsDown(n, i)' => IsDown(n, i)
         /\ \A n, p : IsSkipped(n, p)' => IsSkipped(n, p)
      BY <1>1, <3>1 DEF IsDown, IsSkipped, RecordedDown, Missing, found, fabric
    <3> QED BY <1>2, <1>3, <3>1, <3>2, NoNewGaps DEF CountersOK
  <2>3. ASSUME NEW r, PortStep(r)
        PROVE  IsCounted(Downs', mad_timeouts') /\ IsCounted(Skips', mad_errors')
    <3>1. NextRecord(r) /\ r.guid = job.node.guid
      BY <2>3 DEF PortStep, NextRecord
    <3>2. /\ \A n, i : IsDown(n, i)' => IsDown(n, i) \/ (n = r.guid /\ i \in DownPorts(r))
          /\ \A n, p : IsSkipped(n, p)' =>
                IsSkipped(n, p) \/ (n = r.guid /\ p \in Skipped(r, job.next))
          /\ \A n, i : IsDown(n, i)' => cut = {}
          /\ cut = {} => \A i \in DownPorts(job.node) : IsDown(r.guid, i)
          /\ \A p \in Skipped(job.node, job.next - 1) : IsSkipped(r.guid, p)
      BY <1>1, <2>1, <3>1, GapsAfterPort
    <3>3. RecordOK(job.node) /\ job.node.guid \in Node
      BY <2>1 DEF NodeInv, JobOK, RecordOK, NodeShape
    <3>4. /\ job.next \in FirstPort(job.node.guid)..NPorts[job.node.guid]
          /\ job.next \in Nat /\ job.next <= NPorts[job.node.guid]
      <4>1. job.next \in FirstPort(job.node.guid)..NPorts[job.node.guid]
        BY <2>1 DEF NodeInv, JobOK
      <4>2. NPorts[job.node.guid] \in 1..255
        BY <3>3, RouteAssumption
      <4> QED BY <4>1, <4>2 DEF FirstPort
    <3>5. ASSUME NEW node, NEW k,
                 PortNumbers(r) = PortNumbers(job.node) \cup {job.next}
          PROVE  Skipped(r, job.next) \subseteq Skipped(job.node, job.next - 1)
      BY <3>4, <3>5 DEF Skipped
    <3>6. CASE Arrived(r)
      <4> DEFINE port == PortOf(Cable, job.node.guid, job.next)
      <4>1. port \in PortRecord
        BY <3>3, <3>4, PortRecords
      <4>2. /\ port.number = job.next
            /\ cut = {} /\ port.state = "Down" =>
                  <<job.node.guid, port.number>> \notin DOMAIN cabling
        BY <1>1, RecordAssumption DEF PortOf
      <4> HIDE DEF port
      <4>3. r = Attach(job.node, port) /\ UNCHANGED counters
        BY <3>6 DEF Arrived, port
      <4>4. /\ cut = {} => DownPorts(r) \subseteq DownPorts(job.node)
            /\ PortNumbers(r) = PortNumbers(job.node) \cup {job.next}
        BY <3>3, <3>4, <4>1, <4>2, <4>3, AttachGaps
      <4>5. Downs' \subseteq Downs
        BY <3>2, <4>4, GapsStay
      <4>6. Skips' \subseteq Skips
        BY <3>2, <3>5, <4>4, SkipsStay
      <4> QED BY <1>2, <1>3, <4>3, <4>5, <4>6, Counting DEF counters
    <3>7. CASE RecordedAsDown(r)
      <4> DEFINE port == Placeholder(job.next)
      <4>1. port \in PortRecord /\ port.number = job.next
        BY <3>3, <3>4, PortRecords DEF Placeholder
      <4> HIDE DEF port
      <4>2. r = Attach(job.node, port) /\ mad_timeouts' = mad_timeouts + 1 /\ mad_errors' = mad_errors
        BY <3>7 DEF RecordedAsDown, port
      <4>3. /\ DownPorts(r) \subseteq DownPorts(job.node) \cup {Len(job.node.ports) + 1}
            /\ PortNumbers(r) = PortNumbers(job.node) \cup {job.next}
        BY <3>3, <3>4, <4>1, <4>2, AttachGaps
      <4>4. Downs' \subseteq Downs \cup {<<r.guid, Len(job.node.ports) + 1>>}
        <5> DEFINE k == Len(job.node.ports) + 1
        <5>1. cut = {} => \A i \in DownPorts(r) : i = k \/ IsDown(r.guid, i)
          BY <3>2, <4>3
        <5> HIDE DEF k
        <5>2. \A n, i : IsDown(n, i)' => IsDown(n, i) \/ (n = r.guid /\ i = k)
          BY <3>2, <5>1
        <5>3. Downs' \subseteq Downs \cup {<<r.guid, k>>}
          BY <5>2, GapsGrow
        <5> QED BY <5>3 DEF k
      <4>5. Skips' \subseteq Skips
        BY <3>2, <3>5, <4>3, SkipsStay
      <4> QED BY <1>2, <1>3, <4>2, <4>4, <4>5, Counting
    <3>8. CASE LeftOut(r)
      <4>1. r = job.node /\ mad_errors' = mad_errors + 1 /\ mad_timeouts' = mad_timeouts
        BY <3>8 DEF LeftOut
      <4>2. Skipped(r, job.next) \subseteq Skipped(job.node, job.next - 1) \cup {job.next}
        BY <3>4, <4>1 DEF Skipped
      <4>3. Downs' \subseteq Downs
        BY <3>2, <4>1, GapsStay
      <4>4. Skips' \subseteq Skips \cup {<<r.guid, job.next>>}
        BY <3>2, <4>2, SkipsGrow
      <4> QED BY <1>2, <1>3, <4>1, <4>3, <4>4, Counting
    <3>9. CASE WithoutPortZero(r)
      <4>1. /\ r = job.node /\ job.next = 0
            /\ mad_timeouts' \in {mad_timeouts, mad_timeouts + 1} /\ mad_errors' = mad_errors
        BY <3>9 DEF WithoutPortZero
      <4>2. Skipped(r, job.next) = {}
        BY <4>1 DEF Skipped
      <4>3. Downs' \subseteq Downs
        BY <3>2, <4>1, GapsStay
      <4>4. Skips' \subseteq Skips
        BY <3>2, <4>2, SkipsStay
      <4>5. IsCounted(Skips', mad_errors')
        BY <1>2, <1>3, <4>1, <4>4, Counting
      <4>6. IsCounted(Downs', mad_timeouts) /\ IsCounted(Downs', mad_timeouts + 1)
        BY <1>2, <1>3, <4>3, Counting
      <4> QED BY <4>1, <4>5, <4>6
    <3> QED BY <2>3, <3>6, <3>7, <3>8, <3>9 DEF PortStep
  <2> QED BY <1>6, <2>2, <2>3, FetchPortInfoSteps
<1> QED BY <1>4, <1>5, <1>6 DEF DiscoverNode

-----------------------------------------------------------------------------
(* All of it, and the steps that are not discover_node's.                  *)
GraphInv == NodeInv /\ EnumOK /\ LidInv /\ GapInv

(* The graph before the first call is well formed.                         *)
THEOREM GraphInvInit == CommonInit => GraphInv
<1> SUFFICES ASSUME CommonInit PROVE GraphInv
  OBVIOUS
<1>1. NodeInv /\ EnumOK
  BY NodeInvInit, EnumEmpty DEF CommonInit
<1>2. LidInv /\ GapInv
  BY <1>1, NoGaps DEF CommonInit, LidInv, Idle, NodeInv
<1> QED BY <1>1, <1>2 DEF GraphInv

(* Each step of discover_node keeps the graph well formed: every node      *)
(* listed once, LIDs passed on, gaps counted.                              *)
THEOREM DiscoverNodeKeepsGraphInv ==
    ASSUME GraphInv, DiscoverNode PROVE GraphInv' /\ job'.path = job.path
BY DiscoverNodeKeepsNodeInv, DiscoverNodeKeepsEnum, DiscoverNodeKeepsLid, DiscoverNodeKeepsGaps
   DEF GraphInv

(* Forgetting the node that was given keeps the graph well formed.         *)
THEOREM ForgetKeepsGraphInv == ASSUME GraphInv, Forget PROVE GraphInv'
<1>1. NodeInv' /\ EnumOK'
  <2>1. EnumOK'
    <3>1. nodes' = <<>> /\ node_map' = <<>>
      BY DEF Forget
    <3>2. DOMAIN node_map' = {} /\ nodes' \in Seq(Node) /\ Len(nodes') = 0 /\ DOMAIN nodes' = {}
      BY <3>1
    <3> QED BY <3>2, FS_EmptySet DEF EnumOK, ToSet
  <2> QED BY <2>1, ForgetKeepsNodeInv DEF GraphInv
<1>2. node_map' = <<>> /\ job'.phase # "portInfo" /\ CountersOK'
  BY <1>1 DEF Forget, Call, NodeInv
<1>3. LidInv'
  BY <1>2 DEF LidInv
<1>4. Downs' = {} /\ Skips' = {}
  BY <1>2 DEF Downs, Skips, IsDown, IsSkipped
<1>5. GapInv'
  BY <1>2, <1>4, FS_EmptySet DEF GapInv, IsCounted, CountersOK
<1> QED BY <1>1, <1>3, <1>5 DEF GraphInv

(* Unplugging keeps the graph well formed: it is about what was found, not *)
(* about what is there.                                                    *)
THEOREM UnplugKeepsGraphInv == ASSUME GraphInv, Unplug PROVE GraphInv'
<1>1. UNCHANGED found /\ UNCHANGED job /\ cut' # {}
  BY DEF Unplug, graph
<1>2. NodeInv'
  BY UnplugKeepsNodeInv DEF GraphInv
<1>3. EnumOK' /\ LidInv'
  BY <1>1 DEF GraphInv, EnumOK, LidInv, found
<1>4. GapInv'
  <2>1. \A n, i : IsDown(n, i)' => IsDown(n, i)
    BY <1>1 DEF IsDown
  <2>2. \A n, p : IsSkipped(n, p)' => IsSkipped(n, p)
    BY <1>1 DEF IsSkipped, Missing, found
  <2>3. UNCHANGED counters
    BY DEF Unplug
  <2> QED BY <2>1, <2>2, <2>3, NoNewGaps DEF GraphInv, GapInv, NodeInv
<1> QED BY <1>2, <1>3, <1>4 DEF GraphInv

(* Calling discover_node, or not, changes nothing of the graph.            *)
THEOREM CallKeepsGraphInv ==
    ASSUME GraphInv, UNCHANGED <<fabric, found, counters>>,
           job' = Idle \/ \E path : IsRoute(path) /\ job' = Call(path)
    PROVE  GraphInv'
<1>1. NodeInv'
  BY CallKeepsNodeInv DEF GraphInv
<1>2. job'.phase # "portInfo" /\ UNCHANGED found /\ UNCHANGED fabric /\ UNCHANGED counters
  BY DEF Idle, Call
<1>3. EnumOK' /\ LidInv'
  BY <1>2 DEF GraphInv, EnumOK, LidInv, found
<1>4. /\ \A n, i : IsDown(n, i)' => IsDown(n, i)
     /\ \A n, p : IsSkipped(n, p)' => IsSkipped(n, p)
  BY <1>2 DEF IsDown, IsSkipped, RecordedDown, Missing, found, fabric
<1>5. IsCounted(Downs', mad_timeouts') /\ IsCounted(Skips', mad_errors')
  <2>1. IsCounted(Downs, mad_timeouts) /\ IsCounted(Skips, mad_errors) /\ CountersOK
    BY DEF GraphInv, NodeInv, GapInv
  <2> QED BY <1>2, <1>4, <2>1, NoNewGaps
<1>6. GapInv'
  BY <1>5 DEF GapInv
<1> QED BY <1>1, <1>3, <1>6 DEF GraphInv

-----------------------------------------------------------------------------
(* The types of the graph.                                                 *)
LEMMA GraphTypes ==
    ASSUME NodeInv, EnumOK, DOMAIN remote \subseteq Ports, switches \in Seq(Node), hcas \in Seq(Node)
    PROVE  GraphTypeOK
<1>1. FabricOK /\ MapOK /\ CountersOK /\ JobOK
  BY DEF NodeInv
<1>2. DOMAIN node_map \subseteq Node /\ \A n \in DOMAIN node_map : node_map[n] \in NodeShape
  BY <1>1 DEF MapOK, RecordOK
<1>3. cut \subseteq DOMAIN cabling /\ nodes \in Seq(Node)
  BY <1>1 DEF FabricOK, EnumOK
<1>4. /\ job.phase \in Phases /\ job.path \in Path
      /\ job.phase \in {"nodeDesc", "portInfo", "found"} => job.node \in NodeShape
  BY <1>1 DEF JobOK, JobShape, RecordOK
<1>5. job.phase = "portInfo" => job.next \in 0..NPorts[job.node.guid]
  BY <1>1 DEF JobOK, FirstPort
<1> QED BY <1>1, <1>2, <1>3, <1>4, <1>5 DEF GraphTypeOK, Phases, CountersOK

(* A step that changes nothing.                                            *)
THEOREM StutterKeepsGraphInv == ASSUME GraphInv, UNCHANGED common PROVE GraphInv'
<1>1. UNCHANGED fabric /\ UNCHANGED found /\ UNCHANGED counters /\ UNCHANGED job
  BY DEF common, graph
<1>2. NodeInv'
  <2>1. FabricOK'
    BY <1>1, SameRoot DEF GraphInv, NodeInv
  <2>2. MapOK' /\ CountersOK'
    BY <1>1 DEF GraphInv, NodeInv, MapOK, CountersOK, found, counters
  <2>3. JobOK'
    BY <1>1, SameRoot DEF GraphInv, NodeInv, JobOK, found
  <2> QED BY <2>1, <2>2, <2>3 DEF NodeInv
<1>3. EnumOK' /\ LidInv'
  BY <1>1 DEF GraphInv, EnumOK, LidInv, found
<1>4. GapInv'
  <2>1. Downs' = Downs /\ Skips' = Skips
    BY <1>1 DEF Downs, Skips, IsDown, IsSkipped, RecordedDown, Missing, DownPorts, Skipped,
                found, fabric
  <2> QED BY <1>1, <2>1 DEF GraphInv, GapInv, counters
<1> QED BY <1>2, <1>3, <1>4 DEF GraphInv

-----------------------------------------------------------------------------
(* Queues of ports and the links across them, as both traversals have them *)

(* An entry of a queue: its route leads to the node of its port.           *)
QueueEntry == [port : Ports, path : Path]
EntryOK(entry) ==
    entry \in QueueEntry /\ IsRoute(entry.path) /\ LeadsTo(entry.path, entry.port[1])
QueueOK(queue) == queue \in Seq(QueueEntry) /\ \A i \in DOMAIN queue : EntryOK(queue[i])

(* A port and the route across it: if the route leads anywhere, it leads   *)
(* to the other end of the port's cable.                                   *)
ItemOK(it) ==
    /\ it \in QueueEntry /\ IsRoute(it.path)
    /\ Arrival(cabling, it.path) # Nowhere =>
          it.port \in DOMAIN cabling /\ Arrival(cabling, it.path) = cabling[it.port]

(* None of this looks at the cables that have been cut.                    *)
LEMMA SameCables ==
    ASSUME root_port' = root_port, cabling' = cabling
    PROVE  /\ \A path : Arrival(cabling, path)' = Arrival(cabling, path)
           /\ \A path, guid : LeadsTo(path, guid)' = LeadsTo(path, guid)
           /\ \A queue : QueueOK(queue)' = QueueOK(queue)
           /\ \A it : ItemOK(it)' = ItemOK(it)
<1>1. \A cable, path : Arrival(cable, path)' = Arrival(cable, path)
  <2> SUFFICES ASSUME NEW cable, NEW path PROVE Arrival(cable, path)' = Arrival(cable, path)
    OBVIOUS
  <2> QED BY ZenonT(30) DEF Arrival, Hop
<1>2. \A path : Arrival(cabling, path)' = Arrival(cabling, path)
  BY <1>1
<1>3. \A path, guid : LeadsTo(path, guid)' = LeadsTo(path, guid)
  BY <1>2 DEF LeadsTo
<1>4. \A entry : EntryOK(entry)' = EntryOK(entry)
  BY <1>3 DEF EntryOK
<1>5. \A queue : QueueOK(queue)' = QueueOK(queue)
  BY <1>4 DEF QueueOK
<1>6. \A it : ItemOK(it)' = ItemOK(it)
  BY <1>2 DEF ItemOK
<1> QED BY <1>2, <1>3, <1>5, <1>6

(* Leaving by the port of an entry.                                        *)
LEMMA RouteAcrossOK ==
    ASSUME FabricOK, NEW entry, EntryOK(entry), HasRoom(entry.path)
    PROVE  ItemOK([port |-> entry.port, path |-> RouteAcross(entry)])
<1> DEFINE it == [port |-> entry.port, path |-> RouteAcross(entry)]
           port == entry.port
           end == Arrival(cabling, entry.path)
<1>1. port \in Ports /\ entry.path \in Path /\ IsRoute(entry.path)
  BY DEF EntryOK, QueueEntry
<1>2. port = <<port[1], port[2]>> /\ port[2] \in 1..255
  <2>1. port \in AllPorts /\ port[2] # 0
    BY <1>1, PortFacts
  <2> QED BY <2>1, PortFacts
<1>3. GetHopCount(entry.path) + 1 < PathLen
  BY DEF HasRoom
<1>4. end # Nowhere /\ end[1] = port[1]
  BY DEF EntryOK, LeadsTo
<1> HIDE DEF port, end
<1>5. /\ IsRoute(RouteAcross(entry))
      /\ Arrival(cabling, RouteAcross(entry)) = Across(cabling, end, port[2])
  BY <1>1, <1>2, <1>3, OneHopMore DEF RouteAcross, port, end
<1>6. \/ Arrival(cabling, RouteAcross(entry)) = Nowhere
      \/ port \in DOMAIN cabling /\ Arrival(cabling, RouteAcross(entry)) = cabling[port]
  BY <1>2, <1>4, <1>5 DEF Across
<1>7. it \in QueueEntry
  BY <1>1, <1>5, RoutesArePaths DEF QueueEntry, port
<1> QED BY <1>5, <1>6, <1>7 DEF ItemOK, port

(* An empty stack.                                                         *)
LEMMA QueueEmpty == QueueOK(<<>>)
<1>1. <<>> \in Seq(QueueEntry) /\ DOMAIN <<>> = {}
  OBVIOUS
<1> QED BY <1>1 DEF QueueOK

(* Two stacks whose entries lead somewhere make one.                       *)
LEMMA QueueConcat ==
    ASSUME NEW queue, NEW more, QueueOK(queue), QueueOK(more) PROVE QueueOK(queue \o more)
<1>1. queue \in Seq(QueueEntry) /\ more \in Seq(QueueEntry)
  BY DEF QueueOK
<1>2. /\ queue \o more \in Seq(QueueEntry)
      /\ \A i \in DOMAIN (queue \o more) :
            \/ i \in DOMAIN queue /\ (queue \o more)[i] = queue[i]
            \/ i - Len(queue) \in DOMAIN more /\ (queue \o more)[i] = more[i - Len(queue)]
  BY <1>1
<1> QED BY <1>2 DEF QueueOK

(* What is left of a stack when its top is taken.                          *)
LEMMA QueueRest ==
    ASSUME NEW queue, QueueOK(queue), NEW i \in DOMAIN queue
    PROVE  QueueOK(SubSeq(queue, i + 1, Len(queue)))
<1> DEFINE rest == SubSeq(queue, i + 1, Len(queue))
<1>1. queue \in Seq(QueueEntry)
  BY DEF QueueOK
<1>2. /\ rest \in Seq(QueueEntry)
      /\ \A j \in DOMAIN rest : j + i \in DOMAIN queue /\ rest[j] = queue[j + i]
  BY <1>1
<1> QED BY <1>2 DEF QueueOK

(* A port of a record that is not port 0 is a port of the fabric.          *)
LEMMA PortOnCable ==
    ASSUME NEW node, RecordOK(node), NEW i \in DOMAIN node.ports, node.ports[i].number # 0
    PROVE  <<node.guid, node.ports[i].number>> \in Ports
<1> DEFINE number == node.ports[i].number
<1>1. node \in NodeShape /\ node.guid \in Node
  BY DEF RecordOK, NodeShape
<1>2. number \in 0..255 /\ number # 0 /\ number <= NPorts[node.guid]
  BY <1>1, PortNumberType DEF RecordOK
<1>3. NPorts[node.guid] \in 1..255
  BY <1>1, RouteAssumption
<1> HIDE DEF number
<1>4. number \in 1..NPorts[node.guid]
  BY <1>2, <1>3
<1> QED BY <1>1, <1>4, PortFacts DEF number

(* Ports of a node that a traversal follows or probes.                     *)
LEMMA KeptPorts ==
    ASSUME NEW node, RecordOK(node), NEW indices \in SUBSET DOMAIN node.ports,
           \A i \in indices : node.ports[i].number # 0
    PROVE  /\ Kept(node.ports, indices) \in Seq(PortRecord)
           /\ \A k \in DOMAIN Kept(node.ports, indices) :
                 <<node.guid, Kept(node.ports, indices)[k].number>> \in Ports
<1>1. node.ports \in Seq(PortRecord) /\ node \in NodeShape /\ node.guid \in Node
  BY DEF RecordOK, NodeShape
<1>2. \A i \in indices : <<node.guid, node.ports[i].number>> \in Ports
  BY PortOnCable
<1>3. /\ Kept(node.ports, indices) \in Seq(PortRecord)
      /\ \A k \in DOMAIN Kept(node.ports, indices) :
            \E i \in indices : Kept(node.ports, indices)[k] = node.ports[i]
  BY <1>1, KeptElements
<1> QED BY <1>2, <1>3

(* The ports of a node, with the route to it, make entries of a stack.     *)
LEMMA EntriesQueue ==
    ASSUME NEW guid, NEW ports \in Seq(PortRecord),
           \A k \in DOMAIN ports : <<guid, ports[k].number>> \in Ports,
           NEW path, IsRoute(path), LeadsTo(path, guid)
    PROVE  QueueOK([k \in DOMAIN ports |-> [port |-> <<guid, ports[k].number>>, path |-> path]])
<1> DEFINE queue == [k \in DOMAIN ports |-> [port |-> <<guid, ports[k].number>>, path |-> path]]
           n == Len(ports)
<1>1. n \in Nat /\ DOMAIN ports = 1..n
  OBVIOUS
<1> HIDE DEF n
<1>2. \A k \in DOMAIN ports : queue[k] = [port |-> <<guid, ports[k].number>>, path |-> path]
  OBVIOUS
<1>3. DOMAIN queue = 1..n /\ queue = [k \in 1..n |-> queue[k]]
  BY <1>1
<1> HIDE DEF queue
<1>4. ASSUME NEW k \in 1..n PROVE EntryOK(queue[k])
  <2>1. /\ queue[k] = [port |-> <<guid, ports[k].number>>, path |-> path]
        /\ <<guid, ports[k].number>> \in Ports
    BY <1>1, <1>2
  <2> DEFINE number == ports[k].number
  <2> HIDE DEF number
  <2>2. /\ queue[k] = [port |-> <<guid, number>>, path |-> path] /\ <<guid, number>> \in Ports
    BY <2>1 DEF number
  <2>3. queue[k].port = <<guid, number>> /\ queue[k].path = path /\ queue[k].port[1] = guid
    BY <2>2
  <2>4. queue[k] \in QueueEntry
    BY <2>2, RoutesArePaths DEF QueueEntry
  <2> QED BY <2>3, <2>4 DEF EntryOK
<1>5. \A k \in 1..n : queue[k] \in QueueEntry
  BY <1>4 DEF EntryOK
<1>6. queue \in Seq(QueueEntry)
  BY <1>1, <1>3, <1>5
<1> QED BY <1>3, <1>4, <1>6 DEF QueueOK, queue

(* The first open entry.                                                   *)
LEMMA LeastIndex ==
    ASSUME NEW queue, QueueOK(queue), NEW open \in SUBSET DOMAIN queue, open # {}
    PROVE  Min(open) \in open
<1>1. DOMAIN queue \subseteq Nat
  BY DEF QueueOK
<1>2. \E i \in open : \A j \in open : i <= j
  BY <1>1, LeastNat
<1> QED BY <1>2 DEF Min

-----------------------------------------------------------------------------
(* Links.                                                                  *)
LinksOK(links) ==
    \A p \in DOMAIN links : /\ p \in DOMAIN cabling /\ links[p] = cabling[p]
                            /\ links[p] \in DOMAIN links

(* The property under another name, for any set of links.                  *)
LEMMA LinksTrueIs == LinksTrue <=> LinksOK(remote)
BY DEF LinksTrue, LinksOK

(* The port a route arrives at is the other end of the cable that its last *)
(* hop crosses.                                                            *)
LEMMA LinkedPorts ==
    ASSUME FabricOK, DOMAIN remote \subseteq Ports, NEW it, ItemOK(it),
           NEW port, port = Arrival(cabling, it.path), port # Nowhere
    PROVE  /\ port \in Ports /\ port = cabling[it.port] /\ it.port \in DOMAIN cabling
           /\ DOMAIN Linked(it.port, port) \subseteq Ports
<1>1. it.port \in DOMAIN cabling /\ port = cabling[it.port] /\ it.port \in Ports
  BY DEF ItemOK, QueueEntry
<1>2. port \in Ports
  BY <1>1, CableFacts
<1> QED BY <1>1, <1>2 DEF Linked, Put

(* Linking the two ends of a cable keeps the links true.                   *)
LEMMA LinkedOK ==
    ASSUME IsCabling(cabling), LinksOK(remote), NEW local \in DOMAIN cabling
    PROVE  LinksOK(Linked(local, cabling[local]))
<1> DEFINE far == cabling[local]
           links == Put(Put(remote, far, local), local, far)
<1>1. far \in DOMAIN cabling /\ far # local /\ cabling[far] = local
  BY DEF IsCabling, IsWiring
<1> HIDE DEF far
<1>2. /\ DOMAIN links = DOMAIN remote \cup {far, local}
      /\ links[local] = far /\ links[far] = local
      /\ \A p \in DOMAIN remote \ {far, local} : links[p] = remote[p]
  BY <1>1 DEF Put
<1> HIDE DEF links
<1>3. LinksOK(links)
  BY <1>1, <1>2 DEF LinksOK, far
<1> QED BY <1>3 DEF Linked, links, far

(* What is so of links in any fabric, whether its ports are connected once *)
(* or more often.                                                          *)
ConnectedOK(links) ==
    \A p \in DOMAIN links :
        /\ {p, links[p]} \subseteq DOMAIN cabling
        /\ cabling[p] = links[p] \/ cabling[links[p]] = p
        /\ IsPrivate(p) => /\ links[p] = cabling[p]
                           /\ links[p] \in DOMAIN links /\ links[links[p]] = p

(* The property under another name, for any set of links.                  *)
LEMMA LinksAsConnectedIs == LinksAsConnected <=> ConnectedOK(remote)
BY DEF LinksAsConnected, ConnectedOK

(* A cable with no other connection at either end joins its ports both     *)
(* ways.                                                                   *)
LEMMA PrivateFacts ==
    ASSUME FabricOK, NEW p \in DOMAIN cabling, IsPrivate(p)
    PROVE  /\ cabling[p] \in DOMAIN cabling /\ cabling[p] # p /\ cabling[cabling[p]] = p
           /\ \A q \in DOMAIN cabling : cabling[q] \in {p, cabling[p]} => q \in {p, cabling[p]}
<1>1. \A q \in DOMAIN cabling : cabling[q] \in DOMAIN cabling /\ cabling[q] # q
  <2>1. IsWiring(cabling)
    BY DiscoveryAssumption DEF FabricOK
  <2> QED BY <2>1 DEF IsWiring
<1>2. cabling[cabling[p]] \in {p, cabling[p]}
  BY <1>1 DEF IsPrivate
<1> QED BY <1>1, <1>2 DEF IsPrivate

(* Linking a port with the one its connection leads to: the two ports that *)
(* are written over belong to no private cable but this one.               *)
LEMMA LinkedConnected ==
    ASSUME FabricOK, ConnectedOK(remote), NEW local \in DOMAIN cabling
    PROVE  ConnectedOK(Linked(local, cabling[local]))
<1> DEFINE far == cabling[local]
           links == Put(Put(remote, far, local), local, far)
<1>1. far \in DOMAIN cabling /\ far # local /\ cabling[local] = far
  <2>1. IsWiring(cabling)
    BY DiscoveryAssumption DEF FabricOK
  <2> QED BY <2>1 DEF IsWiring
<1> HIDE DEF far
<1>2. /\ DOMAIN links = DOMAIN remote \cup {far, local}
      /\ links[local] = far /\ links[far] = local
      /\ \A p \in DOMAIN remote \ {far, local} : links[p] = remote[p]
  BY <1>1 DEF Put
<1> HIDE DEF links
<1>3. ASSUME NEW p \in DOMAIN links
      PROVE  {p, links[p]} \subseteq DOMAIN cabling /\ (cabling[p] = links[p] \/ cabling[links[p]] = p)
  <2>1. CASE p \in {far, local}
    BY <1>1, <1>2, <2>1
  <2>2. CASE p \notin {far, local}
    BY <1>2, <1>3, <2>2 DEF ConnectedOK
  <2> QED BY <2>1, <2>2
<1>4. ASSUME NEW p \in DOMAIN links, IsPrivate(p)
      PROVE  links[p] = cabling[p] /\ links[p] \in DOMAIN links /\ links[links[p]] = p
  <2>1. p \in DOMAIN cabling
    BY <1>3
  <2>2. /\ cabling[p] \in DOMAIN cabling /\ cabling[p] # p /\ cabling[cabling[p]] = p
        /\ \A q \in DOMAIN cabling : cabling[q] \in {p, cabling[p]} => q \in {p, cabling[p]}
    BY <1>4, <2>1, PrivateFacts
  <2>3. CASE p = local
    BY <1>1, <1>2, <2>3
  <2>4. CASE p = far
    <3>1. local \in {p, cabling[p]}
      BY <1>1, <2>2, <2>4
    <3> QED BY <1>1, <1>2, <2>4, <3>1
  <2>5. CASE p \notin {far, local}
    <3>1. /\ p \in DOMAIN remote /\ links[p] = remote[p]
          /\ remote[p] = cabling[p] /\ remote[p] \in DOMAIN remote /\ remote[remote[p]] = p
      BY <1>2, <1>4, <2>5 DEF ConnectedOK
    <3>2. cabling[p] # local
      BY <1>1, <2>2, <2>5
    <3>3. cabling[p] # far
      BY <1>1, <2>2, <2>5
    <3> QED BY <1>2, <3>1, <3>2, <3>3
  <2> QED BY <2>3, <2>4, <2>5
<1>5. ConnectedOK(links)
  BY <1>3, <1>4 DEF ConnectedOK
<1> QED BY <1>5 DEF Linked, links, far

-----------------------------------------------------------------------------
(* The two lists of the end.                                               *)
LEMMA KeptNodes ==
    ASSUME NEW seq \in Seq(Node), NEW T, NEW kept,
           kept = Kept(seq, {i \in DOMAIN seq : seq[i] \in T})
    PROVE  kept \in Seq(Node) /\ ToSet(kept) = ToSet(seq) \cap T
<1> DEFINE indices == {i \in DOMAIN seq : seq[i] \in T}
<1>1. /\ kept \in Seq(Node)
      /\ \A k \in DOMAIN kept : \E i \in indices : kept[k] = seq[i]
      /\ \A i \in indices : \E k \in DOMAIN kept : kept[k] = seq[i]
  <2>1. indices \in SUBSET DOMAIN seq /\ kept = Kept(seq, indices)
    OBVIOUS
  <2> HIDE DEF indices
  <2>2. /\ Kept(seq, indices) \in Seq(Node)
        /\ \A k \in DOMAIN Kept(seq, indices) : \E i \in indices : Kept(seq, indices)[k] = seq[i]
        /\ \A i \in indices : \E k \in DOMAIN Kept(seq, indices) : Kept(seq, indices)[k] = seq[i]
    BY <2>1, KeptElements
  <2> QED BY <2>1, <2>2
<1>2. \A i \in indices : i \in DOMAIN seq /\ seq[i] \in T
  OBVIOUS
<1>3. \A i \in DOMAIN seq : seq[i] \in T => i \in indices
  OBVIOUS
<1> HIDE DEF indices
<1>4. ToSet(kept) \subseteq ToSet(seq) \cap T
  BY <1>1, <1>2 DEF ToSet
<1>5. ToSet(seq) \cap T \subseteq ToSet(kept)
  <2> SUFFICES ASSUME NEW i \in DOMAIN seq, seq[i] \in T PROVE seq[i] \in ToSet(kept)
    BY DEF ToSet
  <2> QED BY <1>1, <1>3 DEF ToSet
<1> QED BY <1>1, <1>4, <1>5

(* Each node found is counted as a switch or as an adapter, and as one of  *)
(* them only.                                                              *)
LEMMA Categorized ==
    ASSUME EnumOK, Categorize
    PROVE  /\ switches' \in Seq(Node) /\ hcas' \in Seq(Node)
           /\ ToSet(switches') = ToSet(nodes) \cap Switches
           /\ ToSet(hcas') = ToSet(nodes) \ Switches
<1>1. nodes \in Seq(Node)
  BY DEF EnumOK
<1>2. switches' = Kept(nodes, {i \in DOMAIN nodes : nodes[i] \in Switches})
  BY DEF Categorize, Filter, IsSwitchNode
<1>3. hcas' = Kept(nodes, {i \in DOMAIN nodes : nodes[i] \notin Switches})
  BY DEF Categorize, Filter, IsOtherNode
<1>4. \A i \in DOMAIN nodes : nodes[i] \in Node
  BY <1>1
<1>5. {i \in DOMAIN nodes : nodes[i] \notin Switches} = {i \in DOMAIN nodes : nodes[i] \in Node \ Switches}
  BY <1>4
<1>6. ToSet(nodes) \cap (Node \ Switches) = ToSet(nodes) \ Switches
  BY <1>4 DEF ToSet
<1>7. switches' \in Seq(Node) /\ ToSet(switches') = ToSet(nodes) \cap Switches
  BY <1>1, <1>2, KeptNodes
<1>8. hcas' \in Seq(Node) /\ ToSet(hcas') = ToSet(nodes) \ Switches
  <2> DEFINE T == Node \ Switches
  <2>1. hcas' = Kept(nodes, {i \in DOMAIN nodes : nodes[i] \in T})
    BY <1>3, <1>5
  <2> HIDE DEF T
  <2>2. hcas' \in Seq(Node) /\ ToSet(hcas') = ToSet(nodes) \cap T
    BY <1>1, <2>1, KeptNodes
  <2> QED BY <1>6, <2>2 DEF T
<1> QED BY <1>7, <1>8

-----------------------------------------------------------------------------
(* What a call of discover_node sees of the fabric while nothing fails.    *)

(* How far a known node is, by the route to it, and where a route leads    *)
(* now.                                                                    *)
DistOf(n) == Depth(node_map[n].path)
Finds(path, n) == Arrival(Cable, path) # Nowhere /\ Arrival(Cable, path)[1] = n

(* A record has every cabled port up to some number, as one to follow.     *)
IsWhole(node, last) ==
    \A p \in 1..last : <<node.guid, p>> \in DOMAIN Cable =>
        \E i \in DOMAIN node.ports : node.ports[i].number = p /\ IsEligible(node.ports[i])

(* Every known node was reached by a route as long as its distance says,   *)
(* and only the root without a hop.                                        *)
KnownAt(n) ==
    /\ IsRegular(node_map[n].path) /\ n \in Ball(Cable, DistOf(n))
    /\ IsWhole(node_map[n], NPorts[n])
    /\ n = Root <=> DistOf(n) = 0

(* What a call of discover_node knows while nothing fails.                 *)
JobSees ==
    /\ IsRegular(job.path)
    /\ job.phase = "lost" => Arrival(Cable, job.path) = Nowhere
    /\ job.phase \in {"nodeDesc", "portInfo", "found"} => Finds(job.path, job.node.guid)
    /\ job.phase \in {"nodeDesc", "portInfo"} => job.node.path = job.path
    /\ job.phase = "portInfo" => IsWhole(job.node, job.next - 1)
    /\ job.phase = "found" => job.node = node_map[job.node.guid]

(* Cuts take whole cables.                                                 *)
CutOK == \A p \in cut : cabling[p] \in cut

(* While the fabric stays as it is, what is said about it stays.           *)
LEMMA SameFabric ==
    ASSUME UNCHANGED fabric
    PROVE  /\ Cable' = Cable /\ Root' = Root /\ RootIsSwitch' = RootIsSwitch
           /\ \A cable, path : Arrival(cable, path)' = Arrival(cable, path)
           /\ \A path : Arrival(Cable, path)' = Arrival(Cable, path)
           /\ \A cable, k : Ball(cable, k)' = Ball(cable, k)
           /\ \A k : Ball(Cable, k)' = Ball(Cable, k)
           /\ \A path : IsRegular(path)' = IsRegular(path)
           /\ \A path, n : Finds(path, n)' = Finds(path, n)
           /\ \A node, last : IsWhole(node, last)' = IsWhole(node, last)
           /\ CutOK' = CutOK
<1>1. root_port' = root_port /\ cabling' = cabling /\ cut' = cut
  BY DEF fabric
<1>2. Root' = Root /\ RootIsSwitch' = RootIsSwitch
  BY <1>1 DEF Root, RootIsSwitch
<1>3. Cable' = Cable
  BY <1>1 DEF Cable
<1>4. \A cable, path : Arrival(cable, path)' = Arrival(cable, path)
  BY SameRoot
<1>5. \A path : Arrival(Cable, path)' = Arrival(Cable, path)
  BY <1>3, <1>4
<1>6. \A cable, k : Ball(cable, k)' = Ball(cable, k)
  BY <1>2 DEF Ball
<1>7. \A k : Ball(Cable, k)' = Ball(Cable, k)
  BY <1>3, <1>6
<1>8. \A path : IsRegular(path)' = IsRegular(path)
  BY <1>2 DEF IsRegular
<1>9. \A path, n : Finds(path, n)' = Finds(path, n)
  BY <1>5 DEF Finds
<1>10. \A node, last : IsWhole(node, last)' = IsWhole(node, last)
  BY <1>3 DEF IsWhole
<1>11. CutOK' = CutOK
  BY <1>1 DEF CutOK
<1> QED BY <1>2, <1>3, <1>4, <1>5, <1>6, <1>7, <1>8, <1>9, <1>10, <1>11

(* The cables that are left join ports of the fabric, pairwise.            *)
LEMMA CablePairs ==
    ASSUME FabricOK, CutOK, IsCabling(cabling)
    PROVE  /\ DOMAIN Cable \subseteq Ports
           /\ \A p \in DOMAIN Cable :
                 /\ Cable[p] \in DOMAIN Cable /\ Cable[Cable[p]] = p /\ Cable[p] # p
                 /\ p = <<p[1], p[2]>> /\ p[1] \in Node /\ p[2] \in 1..NPorts[p[1]]
                 /\ p[2] \in 1..255
<1>1. /\ DOMAIN cabling \subseteq Ports
      /\ \A p \in DOMAIN cabling : cabling[p] \in DOMAIN cabling \ {p} /\ cabling[cabling[p]] = p
  BY DEF IsCabling, IsWiring
<1>2. DOMAIN Cable = DOMAIN cabling \ cut /\ \A p \in DOMAIN Cable : Cable[p] = cabling[p]
  BY DEF Cable
<1>3. \A p \in DOMAIN Cable : cabling[p] \notin cut
  BY <1>1, <1>2 DEF CutOK
<1>4. \A p \in DOMAIN Cable : Cable[p] \in DOMAIN Cable /\ Cable[Cable[p]] = p /\ Cable[p] # p
  BY <1>1, <1>2, <1>3
<1>5. \A p \in Ports : /\ p = <<p[1], p[2]>> /\ p[1] \in Node /\ p[2] \in 1..NPorts[p[1]]
                       /\ p[2] \in 1..255
  <2>1. \A p \in Ports : p = <<p[1], p[2]>> /\ p[1] \in Node /\ p[2] \in 1..NPorts[p[1]]
    BY DEF Ports, PortsOf
  <2>2. \A n \in Node : NPorts[n] \in 1..255
    BY RouteAssumption
  <2> QED BY <2>1, <2>2
<1>6. DOMAIN Cable \subseteq Ports
  BY <1>1, <1>2
<1> QED BY <1>4, <1>5, <1>6

(* A discovery that nothing has failed in gets an answer from every node   *)
(* there is.                                                               *)
LEMMA QuietOutcome ==
    ASSUME NEW path, NEW outcome \in Outcome(path), Note(outcome), quiet'
    PROVE  quiet /\ (outcome.kind = "Ok" <=> Arrival(Cable, path) # Nowhere)
           /\ outcome.kind \in {"Ok", "TimedOut"}
<1>1. quiet /\ outcome.fault = 0
  BY DEF Note
<1>2. outcome = [kind |-> IF Arrival(Cable, path) = Nowhere THEN "TimedOut" ELSE "Ok", fault |-> 0]
  BY <1>1 DEF Outcome
<1> QED BY <1>1, <1>2

(* A node that becomes known.                                              *)
Entered(g) ==
    /\ g \in Node /\ g \notin DOMAIN node_map /\ Finds(job.path, g)
    /\ job'.phase = "found" /\ job'.node.guid = g
    /\ DOMAIN node_map' = DOMAIN node_map \cup {g}
    /\ \A n \in DOMAIN node_map : node_map'[n] = node_map[n]
    /\ node_map'[g].path = job.path /\ IsWhole(node_map'[g], NPorts[g])

(* NodeInfo: the node is known, or its record begun.                       *)
LEMMA NodeInfoSees ==
    ASSUME NodeInv, quiet', FetchNodeInfo, JobSees
    PROVE  /\ quiet /\ JobSees' /\ node_map' = node_map
           /\ job'.phase \in {"found", "nodeDesc", "lost"}
           /\ job'.phase = "found" => IsKnown(Arrival(Cable, job.path)[1])
<1>1. /\ job.phase = "nodeInfo" /\ UNCHANGED fabric /\ node_map' = node_map
      /\ JobOK /\ FabricOK /\ MapOK
  BY DEF FetchNodeInfo, graph, found, NodeInv
<1>2. PICK port : port = Arrival(Cable, job.path)
  OBVIOUS
<1>3. PICK outcome \in Outcome(job.path) :
         /\ Note(outcome)
         /\ \/ outcome.kind = "Ok" /\ IsKnown(port[1]) /\ Found(node_map[port[1]])
            \/ /\ outcome.kind = "Ok" /\ ~IsKnown(port[1])
               /\ job' = [job EXCEPT !.phase = "nodeDesc", !.node = NewNode(port[1], job.path, port[2])]
            \/ outcome.kind # "Ok" /\ Lost
  BY <1>2 DEF FetchNodeInfo
<1>4. quiet /\ (outcome.kind = "Ok" <=> port # Nowhere)
  BY <1>2, <1>3, QuietOutcome
<1>5. job \in JobShape /\ IsRegular(job.path)
  BY <1>1 DEF JobOK, JobSees
<1>10. \A path : IsRegular(path)' = IsRegular(path)
  BY <1>1, SameFabric
<1>11. \A path, n : Finds(path, n)' = Finds(path, n)
  BY <1>1, SameFabric
<1>6. \A path : Arrival(Cable, path)' = Arrival(Cable, path)
  BY <1>1, SameFabric
<1>7. CASE outcome.kind = "Ok" /\ IsKnown(port[1]) /\ Found(node_map[port[1]])
  <2>1. job'.phase = "found" /\ job'.path = job.path /\ job'.node = node_map[port[1]]
    BY <1>5, <1>7 DEF Found, JobShape
  <2>2. node_map[port[1]].guid = port[1]
    BY <1>1, <1>7 DEF MapOK, IsKnown
  <2>3. Finds(job.path, job.node.guid)'
    <3>1. Finds(job.path, port[1])
      BY <1>2, <1>4, <1>7 DEF Finds
    <3> QED BY <3>1, <2>1, <2>2, <1>11
  <2>4. IsRegular(job.path)'
    BY <1>5, <1>10, <2>1
  <2>5. JobSees'
    BY <1>1, <2>1, <2>2, <2>3, <2>4 DEF JobSees
  <2> QED BY <1>1, <1>2, <1>4, <1>7, <2>1, <2>5
<1>8. CASE /\ outcome.kind = "Ok"
           /\ job' = [job EXCEPT !.phase = "nodeDesc", !.node = NewNode(port[1], job.path, port[2])]
  <2>1. /\ job'.phase = "nodeDesc" /\ job'.path = job.path /\ job'.node.guid = port[1]
        /\ job'.node.path = job.path
    BY <1>5, <1>8 DEF NewNode, JobShape
  <2>2. Finds(job.path, job.node.guid)'
    <3>1. Finds(job.path, port[1])
      BY <1>2, <1>4, <1>8 DEF Finds
    <3> QED BY <3>1, <2>1, <1>11
  <2>3. IsRegular(job.path)'
    BY <1>5, <1>10, <2>1
  <2>4. JobSees'
    BY <2>1, <2>2, <2>3 DEF JobSees
  <2> QED BY <1>1, <1>4, <2>1, <2>4
<1>9. CASE outcome.kind # "Ok" /\ Lost
  <2>1. job'.phase = "lost" /\ job'.path = job.path
    BY <1>5, <1>9 DEF Lost, JobShape
  <2>2. Arrival(Cable, job.path)' = Nowhere
    <3>1. Arrival(Cable, job.path) = Nowhere
      BY <1>2, <1>4, <1>9
    <3> QED BY <3>1, <2>1, <1>6
  <2>3. IsRegular(job.path)'
    BY <1>5, <1>10, <2>1
  <2>4. JobSees'
    BY <2>1, <2>2, <2>3 DEF JobSees
  <2> QED BY <1>1, <1>4, <2>1, <2>4
<1> QED BY <1>3, <1>7, <1>8, <1>9

(* NodeDesc: the ports are asked for.                                      *)
LEMMA NodeDescSees ==
    ASSUME NodeInv, quiet', FetchNodeDesc, JobSees
    PROVE  quiet /\ JobSees' /\ node_map' = node_map /\ job'.phase = "portInfo"
<1>1. /\ job.phase = "nodeDesc" /\ UNCHANGED fabric /\ node_map' = node_map /\ JobOK
  BY DEF FetchNodeDesc, graph, found, NodeInv
<1>2. PICK outcome \in Outcome(job.path) :
         /\ Note(outcome)
         /\ \/ /\ outcome.kind = "Ok"
               /\ job' = [job EXCEPT !.phase = "portInfo",
                                     !.next = IF job.node.guid \in Switches THEN 0 ELSE 1]
            \/ outcome.kind # "Ok" /\ Lost
  BY DEF FetchNodeDesc
<1>3. /\ job \in JobShape /\ IsRegular(job.path) /\ Finds(job.path, job.node.guid)
      /\ job.node.path = job.path
  BY <1>1 DEF JobOK, JobSees
<1>4. quiet /\ outcome.kind = "Ok"
  BY <1>2, <1>3, QuietOutcome DEF Finds
<1>5. /\ job'.phase = "portInfo" /\ job'.path = job.path /\ job'.node = job.node
      /\ job'.next \in {0, 1}
  BY <1>2, <1>3, <1>4 DEF JobShape
<1>6. IsRegular(job.path)' /\ Finds(job.path, job.node.guid)'
  <2>1. \A path : IsRegular(path)' = IsRegular(path)
    BY <1>1, SameFabric
  <2>2. \A path, n : Finds(path, n)' = Finds(path, n)
    BY <1>1, SameFabric
  <2> QED BY <1>3, <1>5, <2>1, <2>2
<1>7. IsWhole(job.node, job.next - 1)'
  <2>1. 1..(job'.next - 1) = {}
    BY <1>5
  <2> QED BY <2>1 DEF IsWhole
<1>8. JobSees'
  BY <1>3, <1>5, <1>6, <1>7 DEF JobSees
<1> QED BY <1>1, <1>4, <1>5, <1>8

(* A port that is up joins the record as one to follow.                    *)
LEMMA AttachWhole ==
    ASSUME FabricOK, UpState \in {"Active", "Init"}, NEW node, RecordOK(node),
           NEW p \in FirstPort(node.guid)..NPorts[node.guid], p \in Nat, IsWhole(node, p - 1)
    PROVE  IsWhole(Attach(node, PortOf(Cable, node.guid, p)), p)
<1> DEFINE port == PortOf(Cable, node.guid, p)
           q == Attached(node, port)
           r == Attach(node, port)
<1>1. node.guid \in Node /\ node.ports \in Seq(PortRecord)
  BY DEF RecordOK, NodeShape
<1>2. port \in PortRecord /\ port.number = p /\ p <= NPorts[node.guid]
  <2>1. port \in PortRecord
    BY <1>1, PortRecords
  <2>2. NPorts[node.guid] \in 1..255
    BY <1>1, RouteAssumption
  <2>3. p <= NPorts[node.guid]
    BY <2>2 DEF FirstPort
  <2> QED BY <2>1, <2>3 DEF PortOf
<1>3. <<node.guid, p>> \in DOMAIN Cable => port.state = UpState
  BY DEF PortOf
<1> HIDE DEF port
<1>4. /\ r.guid = node.guid /\ r.ports = Append(node.ports, q)
      /\ q \in PortRecord /\ q.number = p /\ q.state = port.state
  BY <1>2, AttachOK
<1> HIDE DEF q, r
<1>5. /\ DOMAIN r.ports = DOMAIN node.ports \cup {Len(node.ports) + 1}
      /\ r.ports[Len(node.ports) + 1] = q
      /\ \A i \in DOMAIN node.ports : r.ports[i] = node.ports[i]
  BY <1>1, <1>4, AppendElements
<1>6. ASSUME NEW k \in 1..p, <<r.guid, k>> \in DOMAIN Cable
      PROVE  \E i \in DOMAIN r.ports : r.ports[i].number = k /\ IsEligible(r.ports[i])
  <2>1. CASE k = p
    <3>1. q.state = UpState /\ q.number # 0
      BY <1>3, <1>4, <1>6, <2>1
    <3>2. IsEligible(q)
      BY <3>1 DEF IsEligible
    <3> QED BY <3>2, <2>1, <1>4, <1>5
  <2>2. CASE k # p
    <3>1. k \in 1..(p - 1)
      BY <2>2
    <3>2. PICK i \in DOMAIN node.ports : node.ports[i].number = k /\ IsEligible(node.ports[i])
      BY <3>1, <1>4, <1>6 DEF IsWhole
    <3> QED BY <3>2, <1>5
  <2> QED BY <2>1, <2>2
<1>7. IsWhole(r, p)
  BY <1>6 DEF IsWhole
<1> QED BY <1>7 DEF r, port

(* PortInfo: the record gets longer, or the node is known.                 *)
LEMMA PortInfoSees ==
    ASSUME NodeInv, quiet', FetchPortInfo, JobSees, UpState \in {"Active", "Init"}
    PROVE  /\ quiet /\ JobSees'
           /\ \/ node_map' = node_map /\ job'.phase = "portInfo"
              \/ Entered(Arrival(Cable, job.path)[1])
<1>1. /\ job.phase = "portInfo" /\ UNCHANGED fabric /\ JobOK /\ FabricOK /\ MapOK
  BY DEF FetchPortInfo, NodeInv
<1>2. PICK p : p = job.next
  OBVIOUS
<1>3. PICK node : node = job.node
  OBVIOUS
<1>4. PICK r : r = Attach(node, PortOf(Cable, node.guid, p))
  OBVIOUS
<1>5. /\ job \in JobShape /\ RecordOK(node) /\ node.guid \notin DOMAIN node_map
      /\ p \in FirstPort(node.guid)..NPorts[node.guid] /\ p \in Nat
  BY <1>1, <1>2, <1>3 DEF JobOK, JobShape
<1>6. /\ IsRegular(job.path) /\ Finds(job.path, node.guid) /\ node.path = job.path
      /\ IsWhole(node, p - 1) /\ node.guid = Arrival(Cable, job.path)[1]
  BY <1>1, <1>2, <1>3 DEF JobSees, Finds
<1>7. PICK outcome \in Outcome(job.path) :
         /\ Note(outcome)
         /\ \/ outcome.kind = "Ok" /\ PortArrived(node, p)
            \/ outcome.kind = "TimedOut" /\ PortTimedOut(node, p)
            \/ outcome.kind = "InvalidInput" /\ PortInvalid(node, p)
            \/ outcome.kind = "Other" /\ PortFailed(node, p)
  BY <1>2, <1>3 DEF FetchPortInfo
<1>8. quiet /\ outcome.kind = "Ok"
  BY <1>6, <1>7, QuietOutcome DEF Finds
<1>9. PortDone(r, p)
  BY <1>4, <1>7, <1>8 DEF PortArrived
<1>10. IsWhole(r, p)
  BY <1>1, <1>4, <1>5, <1>6, AttachWhole
<1>11. r.guid = node.guid /\ r.path = node.path /\ node.guid \in Node
  <2>1. node \in NodeShape
    BY <1>5 DEF RecordOK
  <2> QED BY <2>1, <1>4 DEF Attach, NodeShape
<1>12. NPorts[r.guid] \in 1..255 /\ p <= NPorts[r.guid]
  <2>1. NPorts[r.guid] \in 1..255
    BY <1>11, RouteAssumption
  <2> QED BY <2>1, <1>5, <1>11 DEF FirstPort
<1>13. \A path, n : Finds(path, n)' = Finds(path, n)
  BY <1>1, SameFabric
<1>17. \A path : IsRegular(path)' = IsRegular(path)
  BY <1>1, SameFabric
<1>14. \A x, last : IsWhole(x, last)' = IsWhole(x, last)
  BY <1>1, SameFabric
<1>15. CASE p < NPorts[r.guid]
  <2>1. job' = [job EXCEPT !.node = r, !.next = p + 1] /\ node_map' = node_map
    BY <1>9, <1>15 DEF PortDone, found
  <2>2. job'.phase = "portInfo" /\ job'.path = job.path /\ job'.node = r /\ job'.next = p + 1
    BY <2>1, <1>1, <1>5 DEF JobShape
  <2>3. IsWhole(job.node, job.next - 1)'
    <3>1. IsWhole(job.node, job.next - 1)' = IsWhole(job'.node, job'.next - 1)
      BY <1>14
    <3>2. job'.next - 1 = p
      BY <2>2, <1>5
    <3> QED BY <3>1, <3>2, <2>2, <1>10
  <2>4. Finds(job.path, job.node.guid)'
    BY <1>6, <1>11, <1>13, <2>2
  <2>6. IsRegular(job.path)'
    BY <1>6, <1>17, <2>2
  <2>5. JobSees'
    BY <1>6, <1>11, <2>2, <2>3, <2>4, <2>6 DEF JobSees
  <2> QED BY <1>8, <2>1, <2>2, <2>5
<1>16. CASE ~(p < NPorts[r.guid])
  <2>1. /\ job' = [job EXCEPT !.phase = "found", !.node = r]
        /\ node_map' = Put(node_map, r.guid, r)
    BY <1>9, <1>16 DEF PortDone, Found
  <2>2. job'.phase = "found" /\ job'.path = job.path /\ job'.node = r
    BY <2>1, <1>5 DEF JobShape
  <2>3. /\ DOMAIN node_map' = DOMAIN node_map \cup {r.guid} /\ node_map'[r.guid] = r
        /\ \A n \in DOMAIN node_map : node_map'[n] = node_map[n]
    BY <2>1, <1>5, <1>11 DEF Put
  <2>4. Finds(job.path, job.node.guid)'
    BY <1>6, <1>11, <1>13, <2>2
  <2>8. IsRegular(job.path)'
    BY <1>6, <1>17, <2>2
  <2>5. JobSees'
    BY <2>2, <2>3, <2>4, <2>8 DEF JobSees
  <2>6. p = NPorts[r.guid]
    BY <1>12, <1>16, <1>5
  <2>7. Entered(r.guid)
    BY <1>5, <1>6, <1>10, <1>11, <2>2, <2>3, <2>6 DEF Entered
  <2> QED BY <1>6, <1>8, <1>11, <2>5, <2>7
<1> QED BY <1>15, <1>16

(* Cuts take whole cables: the two ends of one go at once.                 *)
LEMMA CutsStay ==
    ASSUME IsCabling(cabling), CutOK, cabling' = cabling,
           cut' = cut \/ \E p \in DOMAIN Cable : cut' = cut \cup {p, cabling[p]}
    PROVE  CutOK'
<1>1. CASE cut' = cut
  BY <1>1 DEF CutOK
<1>2. ASSUME NEW p \in DOMAIN Cable, cut' = cut \cup {p, cabling[p]} PROVE CutOK'
  <2>1. cabling[cabling[p]] = p
    BY DEF Cable, IsCabling
  <2> QED BY <1>2, <2>1 DEF CutOK
<1> QED BY <1>1, <1>2

-----------------------------------------------------------------------------
(***************************************************************************)
(* What a call of discover_node sees of the fabric while one exchange at   *)
(* most fails and nothing is unplugged: all but one port, which is missed. *)
(***************************************************************************)

(* A record has every cabled port up to some number, as one to follow,     *)
(* except for one that is missed.                                          *)
IsWholeBut(node, last, miss) ==
    \A p \in 1..last : <<node.guid, p>> \in DOMAIN Cable \ {miss} =>
        \E i \in DOMAIN node.ports : node.ports[i].number = p /\ IsEligible(node.ports[i])

(* What a call of discover_node knows.                                     *)
JobMinds(miss) ==
    /\ job.phase \in {"nodeDesc", "portInfo"} => job.node.path = job.path
    /\ job.phase = "portInfo" => IsWholeBut(job.node, job.next - 1, miss)
    /\ job.phase = "found" => job.node = node_map[job.node.guid]

(* A node that becomes known.                                              *)
EnteredBut(g, miss) ==
    /\ g \in Node /\ g \notin DOMAIN node_map /\ Finds(job.path, g)
    /\ job'.phase = "found" /\ job'.node.guid = g
    /\ DOMAIN node_map' = DOMAIN node_map \cup {g}
    /\ \A n \in DOMAIN node_map : node_map'[n] = node_map[n]
    /\ node_map'[g].path = job.path /\ IsWholeBut(node_map'[g], NPorts[g], miss)

(* The one exchange that fails, and when: before it no port is missed.     *)
IsMissed(miss) == faults \in Nat /\ (faults = 0 => miss = Nowhere)

(* As long as nothing has been unplugged, the cables are those of the      *)
(* start, and routes lead where they led.                                  *)
LEMMA Uncut ==
    ASSUME FabricOK, cut = {}
    PROVE  /\ CutOK /\ DOMAIN Cable = DOMAIN cabling
           /\ \A p \in DOMAIN Cable : Cable[p] = cabling[p]
           /\ \A path : Arrival(cabling, path) # Nowhere => Arrival(Cable, path) = Arrival(cabling, path)
           /\ \A path, n : LeadsTo(path, n) => Finds(path, n)
<1>1. DOMAIN Cable = DOMAIN cabling /\ \A p \in DOMAIN Cable : Cable[p] = cabling[p]
  BY DEF Cable
<1>2. PICK cable : cable = Cable
  OBVIOUS
<1>3. ASSUME NEW path, Arrival(cabling, path) # Nowhere
      PROVE  Arrival(Cable, path) = Arrival(cabling, path)
  <2>1. Arrival(cable, path) = Arrival(cabling, path)
    BY <1>1, <1>2, <1>3, FewerCables
  <2> QED BY <1>2, <2>1
<1>4. \A path, n : LeadsTo(path, n) => Finds(path, n)
  BY <1>3 DEF LeadsTo, Finds
<1> QED BY <1>1, <1>3, <1>4 DEF CutOK

(* An exchange succeeds if there is a node that answers, or it is the one  *)
(* that fails.                                                             *)
LEMMA OneFault ==
    ASSUME NEW path, NEW outcome \in Outcome(path), Note(outcome), faults \in Nat, faults' <= 1
    PROVE  /\ faults' \in Nat
           /\ outcome.kind \in {"Ok", "TimedOut", "InvalidInput", "Other"}
           /\ \/ faults' = faults /\ (outcome.kind = "Ok" <=> Arrival(Cable, path) # Nowhere)
              \/ faults = 0 /\ faults' = 1 /\ outcome.kind # "Ok"
<1>1. faults' = faults + outcome.fault
  BY DEF Note
<1>2. CASE outcome = [kind |-> IF Arrival(Cable, path) = Nowhere THEN "TimedOut" ELSE "Ok", fault |-> 0]
  BY <1>1, <1>2
<1>3. ASSUME NEW f \in FaultKinds, outcome = [kind |-> f, fault |-> 1]
      PROVE  /\ faults = 0 /\ faults' = 1 /\ outcome.kind # "Ok"
             /\ outcome.kind \in {"TimedOut", "InvalidInput", "Other"}
  BY <1>1, <1>3, DiscoveryAssumption
<1> QED BY <1>2, <1>3 DEF Outcome

(* While the fabric stays as it is, what is said about it stays.           *)
LEMMA SameWhole ==
    ASSUME UNCHANGED fabric
    PROVE  \A node, last, miss : IsWholeBut(node, last, miss)' = IsWholeBut(node, last, miss)
<1>1. Cable' = Cable
  BY SameFabric
<1> QED BY <1>1 DEF IsWholeBut

(* Missing a port is nothing else than not having it.                      *)
LEMMA MissOne ==
    ASSUME FabricOK
    PROVE  \A node, last, miss :
              IsWholeBut(node, last, Nowhere) => IsWholeBut(node, last, miss)
<1>1. \A a, b : <<a, b>> # Nowhere
  BY DEF Nowhere
<1> QED BY <1>1 DEF IsWholeBut

(* NodeInfo: the node is known, or its record begun.                       *)
LEMMA NodeInfoMinds ==
    ASSUME NodeInv, FetchNodeInfo, faults \in Nat, faults' <= 1, NEW miss
    PROVE  /\ faults' \in Nat /\ node_map' = node_map /\ JobMinds(miss)'
           /\ \/ /\ faults' = faults /\ Arrival(Cable, job.path) # Nowhere
                 /\ job'.phase \in {"found", "nodeDesc"}
              \/ /\ job'.phase = "lost"
                 /\ \/ faults' = faults /\ Arrival(Cable, job.path) = Nowhere
                    \/ faults = 0 /\ faults' = 1
<1>1. /\ job.phase = "nodeInfo" /\ UNCHANGED fabric /\ node_map' = node_map
      /\ JobOK /\ FabricOK /\ MapOK
  BY DEF FetchNodeInfo, graph, found, NodeInv
<1>2. PICK port : port = Arrival(Cable, job.path)
  OBVIOUS
<1>3. PICK outcome \in Outcome(job.path) :
         /\ Note(outcome)
         /\ \/ outcome.kind = "Ok" /\ IsKnown(port[1]) /\ Found(node_map[port[1]])
            \/ /\ outcome.kind = "Ok" /\ ~IsKnown(port[1])
               /\ job' = [job EXCEPT !.phase = "nodeDesc", !.node = NewNode(port[1], job.path, port[2])]
            \/ outcome.kind # "Ok" /\ Lost
  BY <1>2 DEF FetchNodeInfo
<1>4. /\ faults' \in Nat
      /\ \/ faults' = faults /\ (outcome.kind = "Ok" <=> port # Nowhere)
         \/ faults = 0 /\ faults' = 1 /\ outcome.kind # "Ok"
  BY <1>2, <1>3, OneFault
<1>5. job \in JobShape
  BY <1>1 DEF JobOK
<1>6. CASE outcome.kind = "Ok" /\ IsKnown(port[1]) /\ Found(node_map[port[1]])
  <2>1. job'.phase = "found" /\ job'.node = node_map[port[1]]
    BY <1>5, <1>6 DEF Found, JobShape
  <2>2. node_map[port[1]].guid = port[1]
    BY <1>1, <1>6 DEF MapOK, IsKnown
  <2>3. JobMinds(miss)'
    BY <1>1, <2>1, <2>2 DEF JobMinds
  <2> QED BY <1>1, <1>2, <1>4, <1>6, <2>1, <2>3
<1>7. CASE /\ outcome.kind = "Ok"
           /\ job' = [job EXCEPT !.phase = "nodeDesc", !.node = NewNode(port[1], job.path, port[2])]
  <2>1. /\ job'.phase = "nodeDesc" /\ job'.path = job.path /\ job'.node.path = job.path
    BY <1>5, <1>7 DEF NewNode, JobShape
  <2>2. JobMinds(miss)'
    BY <2>1 DEF JobMinds
  <2> QED BY <1>1, <1>2, <1>4, <1>7, <2>1, <2>2
<1>8. CASE outcome.kind # "Ok" /\ Lost
  <2>1. job'.phase = "lost"
    BY <1>5, <1>8 DEF Lost, JobShape
  <2>2. JobMinds(miss)'
    BY <2>1 DEF JobMinds
  <2> QED BY <1>1, <1>2, <1>4, <1>8, <2>1, <2>2
<1> QED BY <1>3, <1>6, <1>7, <1>8

(* NodeDesc: the ports are asked for.                                      *)
LEMMA NodeDescMinds ==
    ASSUME NodeInv, FetchNodeDesc, cut = {}, faults \in Nat, faults' <= 1, NEW miss, JobMinds(miss)
    PROVE  /\ faults' \in Nat /\ node_map' = node_map /\ JobMinds(miss)'
           /\ \/ faults' = faults /\ job'.phase = "portInfo"
              \/ faults = 0 /\ faults' = 1 /\ job'.phase = "lost"
<1>1. /\ job.phase = "nodeDesc" /\ UNCHANGED fabric /\ node_map' = node_map /\ JobOK /\ FabricOK
  BY DEF FetchNodeDesc, graph, found, NodeInv
<1>2. PICK outcome \in Outcome(job.path) :
         /\ Note(outcome)
         /\ \/ /\ outcome.kind = "Ok"
               /\ job' = [job EXCEPT !.phase = "portInfo",
                                     !.next = IF job.node.guid \in Switches THEN 0 ELSE 1]
            \/ outcome.kind # "Ok" /\ Lost
  BY DEF FetchNodeDesc
<1>3. job \in JobShape /\ Finds(job.path, job.node.guid) /\ job.node.path = job.path
  <2>1. job \in JobShape /\ LeadsTo(job.path, job.node.guid)
    BY <1>1 DEF JobOK
  <2> QED BY <1>1, <2>1, Uncut DEF JobMinds
<1>4. /\ faults' \in Nat
      /\ \/ faults' = faults /\ outcome.kind = "Ok"
         \/ faults = 0 /\ faults' = 1 /\ outcome.kind # "Ok"
  BY <1>2, <1>3, OneFault DEF Finds
<1>5. CASE outcome.kind = "Ok"
  <2>1. /\ job'.phase = "portInfo" /\ job'.path = job.path /\ job'.node = job.node
        /\ job'.next \in {0, 1}
    BY <1>2, <1>3, <1>5 DEF JobShape
  <2>2. 1..(job'.next - 1) = {}
    BY <2>1
  <2>3. IsWholeBut(job.node, job.next - 1, miss)'
    BY <2>2 DEF IsWholeBut
  <2>4. JobMinds(miss)'
    BY <1>3, <2>1, <2>3 DEF JobMinds
  <2> QED BY <1>1, <1>4, <1>5, <2>1, <2>4
<1>6. CASE outcome.kind # "Ok"
  <2>1. job'.phase = "lost"
    BY <1>2, <1>3, <1>6 DEF Lost, JobShape
  <2>2. JobMinds(miss)'
    BY <2>1 DEF JobMinds
  <2> QED BY <1>1, <1>4, <1>6, <2>1, <2>2
<1> QED BY <1>5, <1>6

(* A port that is up joins the record as one to follow.                    *)
LEMMA AttachWholeBut ==
    ASSUME FabricOK, UpState \in {"Active", "Init"}, NEW node, RecordOK(node),
           NEW p \in FirstPort(node.guid)..NPorts[node.guid], p \in Nat,
           NEW miss, IsWholeBut(node, p - 1, miss)
    PROVE  IsWholeBut(Attach(node, PortOf(Cable, node.guid, p)), p, miss)
<1> DEFINE port == PortOf(Cable, node.guid, p)
           q == Attached(node, port)
           r == Attach(node, port)
<1>1. node.guid \in Node /\ node.ports \in Seq(PortRecord)
  BY DEF RecordOK, NodeShape
<1>2. port \in PortRecord /\ port.number = p /\ p <= NPorts[node.guid]
  <2>1. port \in PortRecord
    BY <1>1, PortRecords
  <2>2. NPorts[node.guid] \in 1..255
    BY <1>1, RouteAssumption
  <2>3. p <= NPorts[node.guid]
    BY <2>2 DEF FirstPort
  <2> QED BY <2>1, <2>3 DEF PortOf
<1>3. <<node.guid, p>> \in DOMAIN Cable => port.state = UpState
  BY DEF PortOf
<1> HIDE DEF port
<1>4. /\ r.guid = node.guid /\ r.ports = Append(node.ports, q)
      /\ q \in PortRecord /\ q.number = p /\ q.state = port.state
  BY <1>2, AttachOK
<1> HIDE DEF q, r
<1>5. /\ DOMAIN r.ports = DOMAIN node.ports \cup {Len(node.ports) + 1}
      /\ r.ports[Len(node.ports) + 1] = q
      /\ \A i \in DOMAIN node.ports : r.ports[i] = node.ports[i]
  BY <1>1, <1>4, AppendElements
<1>6. ASSUME NEW k \in 1..p, <<r.guid, k>> \in DOMAIN Cable \ {miss}
      PROVE  \E i \in DOMAIN r.ports : r.ports[i].number = k /\ IsEligible(r.ports[i])
  <2>1. CASE k = p
    <3>1. q.state = UpState /\ q.number # 0
      BY <1>3, <1>4, <1>6, <2>1
    <3>2. IsEligible(q)
      BY <3>1 DEF IsEligible
    <3> QED BY <3>2, <2>1, <1>4, <1>5
  <2>2. CASE k # p
    <3>1. k \in 1..(p - 1)
      BY <2>2
    <3>2. PICK i \in DOMAIN node.ports : node.ports[i].number = k /\ IsEligible(node.ports[i])
      BY <3>1, <1>4, <1>6 DEF IsWholeBut
    <3> QED BY <3>2, <1>5
  <2> QED BY <2>1, <2>2
<1>7. IsWholeBut(r, p, miss)
  BY <1>6 DEF IsWholeBut
<1> QED BY <1>7 DEF r, port

(* The port whose PortInfo fails is missed, however it is recorded.        *)
LEMMA MissedWhole ==
    ASSUME FabricOK, NEW node, RecordOK(node),
           NEW p \in FirstPort(node.guid)..NPorts[node.guid], p \in Nat,
           IsWholeBut(node, p - 1, Nowhere),
           NEW r, r = node \/ r = Attach(node, Placeholder(p))
    PROVE  IsWholeBut(r, p, <<node.guid, p>>)
<1>1. node.guid \in Node /\ node.ports \in Seq(PortRecord)
  BY DEF RecordOK, NodeShape
<1>2. /\ r.guid = node.guid
      /\ \A i \in DOMAIN node.ports : i \in DOMAIN r.ports /\ r.ports[i] = node.ports[i]
  <2>1. CASE r = node
    BY <2>1
  <2>2. CASE r = Attach(node, Placeholder(p))
    <3>1. PICK port : port = Placeholder(p)
      OBVIOUS
    <3>2. port \in PortRecord /\ port.number <= NPorts[node.guid]
      <4>1. port \in PortRecord
        BY <1>1, <3>1, PortRecords
      <4>2. NPorts[node.guid] \in 1..255
        BY <1>1, RouteAssumption
      <4>3. p <= NPorts[node.guid]
        BY <4>2 DEF FirstPort
      <4> QED BY <3>1, <4>1, <4>3 DEF Placeholder
    <3>3. /\ r.guid = node.guid /\ r.ports = Append(node.ports, Attached(node, port))
          /\ Attached(node, port) \in PortRecord
      BY <2>2, <3>1, <3>2, AttachOK
    <3> QED BY <1>1, <3>3, AppendElements
  <2> QED BY <2>1, <2>2
<1>3. ASSUME NEW k \in 1..p, <<r.guid, k>> \in DOMAIN Cable \ {<<node.guid, p>>}
      PROVE  \E i \in DOMAIN r.ports : r.ports[i].number = k /\ IsEligible(r.ports[i])
  <2>1. k \in 1..(p - 1)
    BY <1>2, <1>3
  <2>2. <<node.guid, k>> \in DOMAIN Cable \ {Nowhere}
    BY <1>2, <1>3 DEF Nowhere
  <2>3. PICK i \in DOMAIN node.ports : node.ports[i].number = k /\ IsEligible(node.ports[i])
    BY <2>1, <2>2 DEF IsWholeBut
  <2> QED BY <1>2, <2>3
<1> QED BY <1>3 DEF IsWholeBut

(* The record of a node after a port: it goes on, or into the map.         *)
LEMMA PortDoneMinds ==
    ASSUME NodeInv, UNCHANGED fabric, cut = {}, job.phase = "portInfo", job.node.path = job.path,
           NEW r, r.guid = job.node.guid, r.path = job.node.path, PortDone(r, job.next),
           NEW miss, IsWholeBut(r, job.next, miss)
    PROVE  /\ JobMinds(miss)'
           /\ \/ node_map' = node_map /\ job'.phase = "portInfo"
              \/ EnteredBut(job.node.guid, miss)
<1>1. JobOK /\ FabricOK /\ MapOK
  BY DEF NodeInv
<1>2. PICK p : p = job.next
  OBVIOUS
<1>3. /\ job \in JobShape /\ RecordOK(job.node) /\ job.node.guid \notin DOMAIN node_map
      /\ p \in FirstPort(job.node.guid)..NPorts[job.node.guid] /\ p \in Nat
      /\ LeadsTo(job.path, job.node.guid) /\ job.node.guid \in Node
  BY <1>1, <1>2 DEF JobOK, JobShape, RecordOK, NodeShape
<1>4. Finds(job.path, r.guid)
  BY <1>1, <1>3, Uncut
<1>5. NPorts[r.guid] \in 1..255 /\ p <= NPorts[r.guid]
  <2>1. PICK g : g = r.guid /\ g = job.node.guid
    OBVIOUS
  <2>2. g \in Node /\ p \in FirstPort(g)..NPorts[g]
    BY <1>3, <2>1
  <2>3. NPorts[g] \in 1..255
    BY <2>2, RouteAssumption
  <2>4. FirstPort(g) \in Nat
    BY DEF FirstPort
  <2>5. p <= NPorts[g]
    BY <2>2, <2>3, <2>4
  <2> QED BY <2>1, <2>3, <2>5
<1>6. \A x, last : IsWholeBut(x, last, miss)' = IsWholeBut(x, last, miss)
  BY SameWhole
<1>7. PortDone(r, p) /\ IsWholeBut(r, p, miss)
  BY <1>2
<1>8. CASE p < NPorts[r.guid]
  <2>1. job' = [job EXCEPT !.node = r, !.next = p + 1] /\ node_map' = node_map
    BY <1>7, <1>8 DEF PortDone, found
  <2>2. job'.phase = "portInfo" /\ job'.path = job.path /\ job'.node = r /\ job'.next = p + 1
    BY <2>1, <1>3 DEF JobShape
  <2>3. IsWholeBut(job.node, job.next - 1, miss)'
    <3>1. IsWholeBut(job.node, job.next - 1, miss)' = IsWholeBut(job'.node, job'.next - 1, miss)
      BY <1>6
    <3>2. job'.next - 1 = p
      BY <2>2, <1>3
    <3> QED BY <3>1, <3>2, <2>2, <1>7
  <2>4. JobMinds(miss)'
    BY <2>2, <2>3 DEF JobMinds
  <2> QED BY <2>1, <2>2, <2>4
<1>9. CASE ~(p < NPorts[r.guid])
  <2>1. /\ job' = [job EXCEPT !.phase = "found", !.node = r]
        /\ node_map' = Put(node_map, r.guid, r)
    BY <1>7, <1>9 DEF PortDone, Found
  <2>2. job'.phase = "found" /\ job'.path = job.path /\ job'.node = r
    BY <2>1, <1>3 DEF JobShape
  <2>3. /\ DOMAIN node_map' = DOMAIN node_map \cup {r.guid} /\ node_map'[r.guid] = r
        /\ \A n \in DOMAIN node_map : node_map'[n] = node_map[n]
    BY <2>1, <1>3 DEF Put
  <2>4. JobMinds(miss)'
    BY <2>2, <2>3 DEF JobMinds
  <2>5. p = NPorts[r.guid]
    BY <1>3, <1>5, <1>9
  <2>6. EnteredBut(r.guid, miss)
    BY <1>3, <1>4, <1>7, <2>2, <2>3, <2>5 DEF EnteredBut
  <2> QED BY <2>4, <2>6
<1> QED BY <1>8, <1>9

(* PortInfo: the record gets longer, or the node is known or lost; if it   *)
(* fails, its port is the one that is missed.                              *)
LEMMA PortInfoMinds ==
    ASSUME NodeInv, FetchPortInfo, cut = {}, UpState \in {"Active", "Init"},
           faults \in Nat, faults' <= 1, NEW miss, IsMissed(miss), JobMinds(miss)
    PROVE  /\ faults' \in Nat
           /\ \E now : /\ (now = miss /\ faults' = faults) \/ (faults = 0 /\ faults' = 1)
                       /\ JobMinds(now)'
                       /\ \/ node_map' = node_map /\ job'.phase = "portInfo"
                          \/ EnteredBut(job.node.guid, now)
                          \/ /\ node_map' = node_map /\ job'.phase = "lost"
                             /\ faults = 0 /\ faults' = 1
<1>1. /\ job.phase = "portInfo" /\ UNCHANGED fabric /\ JobOK /\ FabricOK /\ MapOK
  BY DEF FetchPortInfo, NodeInv
<1>2. PICK p : p = job.next
  OBVIOUS
<1>3. PICK node : node = job.node
  OBVIOUS
<1>4. /\ job \in JobShape /\ RecordOK(node) /\ LeadsTo(job.path, node.guid)
      /\ p \in FirstPort(node.guid)..NPorts[node.guid] /\ p \in Nat
  BY <1>1, <1>2, <1>3 DEF JobOK, JobShape
<1>5. Finds(job.path, node.guid) /\ node.path = job.path /\ IsWholeBut(node, p - 1, miss)
  BY <1>1, <1>2, <1>3, <1>4, Uncut DEF JobMinds
<1>6. PICK outcome \in Outcome(job.path) :
         /\ Note(outcome)
         /\ \/ outcome.kind = "Ok" /\ PortArrived(node, p)
            \/ outcome.kind = "TimedOut" /\ PortTimedOut(node, p)
            \/ outcome.kind = "InvalidInput" /\ PortInvalid(node, p)
            \/ outcome.kind = "Other" /\ PortFailed(node, p)
  BY <1>2, <1>3 DEF FetchPortInfo
<1>7. /\ faults' \in Nat
      /\ \/ faults' = faults /\ outcome.kind = "Ok"
         \/ faults = 0 /\ faults' = 1 /\ outcome.kind # "Ok"
  BY <1>5, <1>6, OneFault DEF Finds
<1>8. \A port : Attach(node, port).guid = node.guid /\ Attach(node, port).path = node.path
  <2>1. node \in NodeShape
    BY <1>4 DEF RecordOK
  <2> QED BY <2>1 DEF Attach, NodeShape
<1>9. CASE faults' = faults /\ outcome.kind = "Ok"
  <2>1. PICK r : r = Attach(node, PortOf(Cable, node.guid, p))
    OBVIOUS
  <2>2. PortDone(r, p)
    BY <1>6, <1>9, <2>1 DEF PortArrived
  <2>3. IsWholeBut(r, p, miss)
    BY <1>1, <1>4, <1>5, <2>1, AttachWholeBut
  <2>4. /\ JobMinds(miss)'
        /\ \/ node_map' = node_map /\ job'.phase = "portInfo"
           \/ EnteredBut(job.node.guid, miss)
    BY <1>1, <1>2, <1>3, <1>5, <1>8, <2>1, <2>2, <2>3, PortDoneMinds
  <2> QED BY <1>7, <1>9, <2>4
<1>10. CASE faults = 0 /\ faults' = 1 /\ outcome.kind # "Ok"
  <2>1. \/ \E r : (r = node \/ r = Attach(node, Placeholder(p))) /\ PortDone(r, p)
        \/ Lost /\ UNCHANGED found
    BY <1>6, <1>10 DEF PortTimedOut, PortInvalid, PortFailed
  <2>2. PICK now : now = <<node.guid, p>>
    OBVIOUS
  <2>3. IsWholeBut(node, p - 1, Nowhere)
    BY <1>5, <1>10 DEF IsMissed
  <2>4. ASSUME NEW r, r = node \/ r = Attach(node, Placeholder(p)), PortDone(r, p)
        PROVE  /\ JobMinds(now)'
               /\ \/ node_map' = node_map /\ job'.phase = "portInfo"
                  \/ EnteredBut(job.node.guid, now)
    <3>1. IsWholeBut(r, p, now)
      BY <1>1, <1>4, <2>2, <2>3, <2>4, MissedWhole
    <3> QED BY <1>1, <1>2, <1>3, <1>5, <1>8, <2>4, <3>1, PortDoneMinds
  <2>5. CASE Lost /\ UNCHANGED found
    <3>1. job'.phase = "lost" /\ node_map' = node_map
      BY <1>4, <2>5 DEF Lost, JobShape, found
    <3>2. JobMinds(now)'
      BY <3>1 DEF JobMinds
    <3> QED BY <1>7, <1>10, <3>1, <3>2
  <2> QED BY <1>7, <1>10, <2>1, <2>4, <2>5
<1> QED BY <1>7, <1>9, <1>10

(* A step of discover_node: the port missed stays the same, or there was   *)
(* none yet and the step is the one that fails.                            *)
LEMMA DiscoverMinds ==
    ASSUME NodeInv, DiscoverNode, cut = {}, UpState \in {"Active", "Init"},
           faults \in Nat, faults' <= 1, NEW miss, IsMissed(miss), JobMinds(miss)
    PROVE  /\ faults' \in Nat
           /\ \E now : /\ (now = miss /\ faults' = faults) \/ (faults = 0 /\ faults' = 1)
                       /\ JobMinds(now)'
                       /\ \/ node_map' = node_map /\ job'.phase \in {"nodeDesc", "portInfo", "found"}
                          \/ EnteredBut(job.node.guid, now)
                          \/ /\ node_map' = node_map /\ job'.phase = "lost"
                             /\ \/ faults' = faults /\ Arrival(Cable, job.path) = Nowhere
                                \/ faults = 0 /\ faults' = 1
<1>1. CASE FetchNodeInfo
  BY <1>1, NodeInfoMinds
<1>2. CASE FetchNodeDesc
  BY <1>2, NodeDescMinds
<1>3. CASE FetchPortInfo
  BY <1>3, PortInfoMinds
<1> QED BY <1>1, <1>2, <1>3 DEF DiscoverNode
=============================================================================
