----------------------- MODULE NvlinkDiscovery_proofs -----------------------
(***************************************************************************)
(* The safety of the NVLink traversal for every fabric: its links are      *)
(* cables, and it gives a discovery up only for a reason that is counted.  *)
(* When nothing fails and nothing is unplugged, it finds everything in a   *)
(* fabric that is wired as it expects; and one exchange that fails does    *)
(* not cost it a switch of a closed ring.                                  *)
(***************************************************************************)
EXTENDS NvlinkDiscovery, NodeDiscovery_proofs

-----------------------------------------------------------------------------
(* The inductive invariant.                                                *)
ListsOK ==
    /\ switches \in Seq(Node) /\ hcas \in Seq(Node)
    /\ pc # "done" => switches = <<>> /\ hcas = <<>>
    /\ switches # <<>> \/ hcas # <<>> => /\ ToSet(switches) = ToSet(nodes) \cap Switches
                                         /\ ToSet(hcas) = ToSet(nodes) \ Switches

PlaceOK ==
    /\ pc \in {"idle", "root", "first", "probe", "loop", "ends", "end", "done", "failed"}
    /\ pc \in {"root", "first", "loop", "end"} <=> job.phase # "none"
    /\ job.phase = "none" => job = Idle

(* What the loop has learned about its current port is still true when the *)
(* ends of the switch behind it have been probed.                          *)
InLoop == pc = "loop" \/ (pc \in {"ends", "end"} /\ host.for = "loop")
TraversalOK ==
    /\ QueueOK(stack) /\ first \in Seq(PortRecord)
    /\ item \in [port : Ports \cup {Nowhere}, path : Path]
    /\ pc = "probe" \/ InLoop => ItemOK(item)
    /\ InLoop => probed = Arrival(cabling, item.path) /\ probed # Nowhere
    /\ pc = "loop" => job.path = item.path

(* The switch whose ends are probed is known, and the route to it is the   *)
(* one it was found by.                                                    *)
ProbingOK ==
    /\ QueueOK(ends) /\ \A i \in DOMAIN ends : HasRoom(ends[i].path)
    /\ pc \in {"ends", "end"} =>
          /\ RecordOK(host.node) /\ host.node.guid \in DOMAIN node_map
          /\ IsRoute(host.path) /\ LeadsTo(host.path, host.node.guid)
          /\ host.for \in {"first", "loop"}
          /\ host.for = "loop" => host.path = item.path
    /\ pc = "end" =>
          /\ ends # <<>> /\ job.path = RouteAcross(Head(ends))
          /\ seen = Arrival(cabling, job.path) /\ seen # Nowhere

RemoteOK == DOMAIN remote \subseteq Ports /\ (IsCabling(cabling) => LinksOK(remote))

(* A discovery is given up without its first node, or for a port left out. *)
CauseOK ==
    /\ pc = "root" => job.phase = "found" \/ DOMAIN node_map = {}
    /\ pc = "failed" => DOMAIN node_map = {} \/ mad_errors > 0

IInv == GraphInv /\ ListsOK /\ PlaceOK /\ TraversalOK /\ ProbingOK /\ RemoteOK /\ CauseOK

(* The invariant says what the properties say.                             *)
LEMMA IInvImplies ==
    IInv => /\ GraphTypeOK /\ Enumerated /\ LidPropagated /\ GapsAreCounted /\ GivenUpForCause
            /\ IsCabling(cabling) => LinksTrue
<1> SUFFICES ASSUME IInv
             PROVE  /\ GraphTypeOK /\ Enumerated /\ LidPropagated /\ GapsAreCounted
                    /\ GivenUpForCause
                    /\ IsCabling(cabling) => LinksTrue
  OBVIOUS
<1>1. NodeInv /\ EnumOK /\ LidInv /\ GapInv /\ ListsOK /\ RemoteOK /\ CauseOK
  BY DEF IInv, GraphInv
<1>2. FabricOK /\ MapOK /\ CountersOK /\ JobOK
  BY <1>1 DEF NodeInv
<1>3. GraphTypeOK
  BY <1>1, GraphTypes DEF RemoteOK, ListsOK
<1>4. Enumerated
  BY <1>1 DEF EnumOK, ListsOK, Enumerated
<1>5. GivenUpForCause
  BY <1>1 DEF CauseOK, GivenUpForCause, IsKnown
<1> QED BY <1>1, <1>2, <1>3, <1>4, <1>5, LidInvImplies, GapInvImplies, LinksTrueIs DEF RemoteOK

(* A traversal starts with nothing found and nothing under way.            *)
LEMMA Initially == Init => IInv
<1> SUFFICES ASSUME Init PROVE IInv
  OBVIOUS
<1>1. CommonInit /\ GraphInv
  BY GraphInvInit DEF Init
<1>2. <<>> \in Seq(Node) /\ <<>> \in Seq(PortRecord) /\ DOMAIN <<>> = {}
  OBVIOUS
<1>3. ListsOK /\ PlaceOK /\ CauseOK
  BY <1>1, <1>2 DEF Init, CommonInit, ListsOK, PlaceOK, CauseOK, Idle
<1>4. TraversalOK /\ ProbingOK
  BY <1>2, QueueEmpty, RoutesArePaths DEF Init, TraversalOK, ProbingOK, InLoop, NoItem
<1>5. RemoteOK
  BY <1>1, <1>2 DEF CommonInit, RemoteOK, LinksOK
<1> QED BY <1>1, <1>3, <1>4, <1>5 DEF IInv

-----------------------------------------------------------------------------
(* The queues of a switch.                                                 *)

(* RingEntries turn by turn: a ring port is pushed before what is there.   *)
RingTurn(node, path, i, before) ==
    IF IsRing(node.ports[i]) THEN <<Entry(node, path, node.ports[i])>> \o before ELSE before

(* The entries are built in as many turns as the record has ports.         *)
LEMMA RingTurns ==
    ASSUME NEW node, Len(node.ports) \in Nat, NEW path
    PROVE  \E u : /\ RingEntries(node, path) = u[Len(node.ports)] /\ u[0] = <<>>
                  /\ \A i \in 1..Len(node.ports) : u[i] = RingTurn(node, path, i, u[i - 1])
<1> DEFINE n == Len(node.ports)
           Step(i, before) == RingTurn(node, path, i, before)
           Upto(m, u) == u = [i \in 0..m |-> IF i = 0 THEN <<>> ELSE Step(i, u[i - 1])]
<1>0. n \in Nat
  OBVIOUS
<1> HIDE DEF Step, n
<1>1. \A m \in 0..n : \E u : Upto(m, u)
  <2> DEFINE T == {m \in Nat : \E u : Upto(m, u)}
  <2>1. 0 \in T
    <3> DEFINE u == [i \in 0..0 |-> <<>>]
    <3>1. Upto(0, u)
      OBVIOUS
    <3> QED BY <3>1
  <2>2. ASSUME NEW m \in 0..(n - 1), m \in T PROVE m + 1 \in T
    <3>1. PICK u : Upto(m, u)
      BY <2>2
    <3> DEFINE v == [i \in 0..(m + 1) |-> IF i = 0 THEN <<>> ELSE Step(i, u[i - 1])]
    <3>2. \A i \in 0..m : v[i] = u[i]
      <4>1. \A i \in 0..m : u[i] = IF i = 0 THEN <<>> ELSE Step(i, u[i - 1])
        BY <3>1
      <4>2. \A i \in 0..m : i \in 0..(m + 1)
        OBVIOUS
      <4> QED BY <4>1, <4>2
    <3>3. \A i \in 0..(m + 1) : i # 0 => i - 1 \in 0..m
      OBVIOUS
    <3>4. Upto(m + 1, v)
      BY <3>2, <3>3
    <3>5. m + 1 \in Nat
      OBVIOUS
    <3> QED BY <3>4, <3>5
  <2> HIDE DEF T
  <2>3. 0..n \subseteq T
    BY <2>1, <2>2, <1>0, IntervalInduction
  <2> QED BY <2>3 DEF T
<1> DEFINE u == CHOOSE u : Upto(n, u)
<1>2. Upto(n, u)
  <2>1. n \in 0..n
    BY <1>0
  <2> HIDE DEF Upto
  <2> QED BY <1>1, <2>1
<1>3. RingEntries(node, path) = u[n]
  BY DEF RingEntries, n, Step, RingTurn
<1> HIDE DEF u
<1>4. u[0] = <<>> /\ \A i \in 1..n : u[i] = Step(i, u[i - 1])
  <2>1. \A i \in 0..n : u[i] = IF i = 0 THEN <<>> ELSE Step(i, u[i - 1])
    BY <1>2
  <2>2. 0 \in 0..n /\ \A i \in 1..n : i \in 0..n /\ i # 0
    BY <1>0
  <2> QED BY <2>1, <2>2
<1> QED BY <1>3, <1>4 DEF n, Step

(* Ring ports are pushed one by one, each an entry of the queue.           *)
LEMMA RingQueue ==
    ASSUME NEW node, RecordOK(node), NEW path, IsRoute(path), LeadsTo(path, node.guid)
    PROVE  QueueOK(RingEntries(node, path))
<1> DEFINE n == Len(node.ports)
<1>0. n \in Nat /\ DOMAIN node.ports = 1..n /\ node.ports \in Seq(PortRecord)
  BY DEF RecordOK, NodeShape
<1>1. ASSUME NEW i \in 1..n, NEW before, QueueOK(before)
      PROVE  QueueOK(RingTurn(node, path, i, before))
  <2>1. CASE IsRing(node.ports[i])
    <3> DEFINE entry == Entry(node, path, node.ports[i])
    <3>1. i \in DOMAIN node.ports /\ node.ports[i].number # 0 /\ node.guid \in Node
      BY <1>0, <2>1 DEF IsRing, IsEligible, RecordOK, NodeShape
    <3>2. <<node.guid, node.ports[i].number>> \in Ports
      BY <3>1, PortOnCable
    <3>3. EntryOK(entry)
      BY <3>2, RoutesArePaths DEF Entry, EntryOK, QueueEntry
    <3> HIDE DEF entry
    <3>4. QueueOK(<<entry>>)
      BY <3>3 DEF QueueOK, EntryOK
    <3>5. QueueOK(<<entry>> \o before)
      BY <1>1, <3>4, QueueConcat
    <3> QED BY <2>1, <3>5 DEF entry, RingTurn
  <2>2. CASE ~IsRing(node.ports[i])
    BY <1>1, <2>2 DEF RingTurn
  <2> QED BY <2>1, <2>2
<1>2. PICK u : /\ RingEntries(node, path) = u[n] /\ u[0] = <<>>
               /\ \A i \in 1..n : u[i] = RingTurn(node, path, i, u[i - 1])
  BY <1>0, RingTurns
<1> HIDE DEF n
<1> DEFINE S == {m \in 0..n : QueueOK(u[m])}
<1>5. 0 \in S
  BY <1>0, <1>2, QueueEmpty
<1>6. ASSUME NEW m \in 0..(n - 1), m \in S PROVE m + 1 \in S
  <2>1. m + 1 \in 1..n /\ m + 1 \in 0..n /\ (m + 1) - 1 = m
    BY <1>0
  <2>2. u[m + 1] = RingTurn(node, path, m + 1, u[m])
    BY <1>2, <2>1
  <2> QED BY <2>1, <2>2, <1>6, <1>1
<1> HIDE DEF S
<1>7. 0..n \subseteq S
  BY <1>0, <1>5, <1>6, IntervalInduction
<1> QED BY <1>0, <1>2, <1>7 DEF S

(* The other ports, to be probed by routes with room for one hop more.     *)
LEMMA EndQueue ==
    ASSUME NEW node, RecordOK(node), NEW path, IsRoute(path), LeadsTo(path, node.guid)
    PROVE  /\ QueueOK(EndEntries(node, path))
           /\ \A i \in DOMAIN EndEntries(node, path) : HasRoom(EndEntries(node, path)[i].path)
<1> DEFINE indices == {i \in DOMAIN node.ports :
                         /\ IsEnd(node.ports[i])
                         /\ <<node.guid, node.ports[i].number>> \notin DOMAIN remote}
           ports == Kept(node.ports, indices)
           queue == [k \in DOMAIN ports |-> [port |-> <<node.guid, ports[k].number>>, path |-> path]]
<1>1. EndEntries(node, path) = IF HasRoom(path) THEN queue ELSE <<>>
  BY DEF EndEntries, Filter, Entry
<1>2. indices \in SUBSET DOMAIN node.ports /\ \A i \in indices : node.ports[i].number # 0
  BY DEF IsEnd, IsEligible
<1> HIDE DEF indices
<1>3. /\ ports \in Seq(PortRecord)
      /\ \A k \in DOMAIN ports : <<node.guid, ports[k].number>> \in Ports
  BY <1>2, KeptPorts
<1> HIDE DEF ports
<1>4. QueueOK(queue)
  BY <1>3, EntriesQueue
<1>5. \A k \in DOMAIN queue : queue[k].path = path
  OBVIOUS
<1> HIDE DEF queue
<1>6. DOMAIN <<>> = {}
  OBVIOUS
<1> QED BY <1>1, <1>4, <1>5, <1>6, QueueEmpty

-----------------------------------------------------------------------------
(* Pieces of the steps.                                                    *)

(* The first entry of a queue and the rest, with room for one hop more.    *)
LEMMA QueueTail ==
    ASSUME NEW queue, QueueOK(queue), \A i \in DOMAIN queue : HasRoom(queue[i].path), queue # <<>>
    PROVE  /\ EntryOK(Head(queue)) /\ HasRoom(Head(queue).path)
           /\ QueueOK(Tail(queue)) /\ \A i \in DOMAIN Tail(queue) : HasRoom(Tail(queue)[i].path)
<1>1. queue \in Seq(QueueEntry)
  BY DEF QueueOK
<1>2. 1 \in DOMAIN queue /\ Head(queue) = queue[1]
  BY <1>1
<1>3. Tail(queue) \in Seq(QueueEntry)
  BY <1>1
<1>4. \A i \in DOMAIN Tail(queue) : i + 1 \in DOMAIN queue /\ Tail(queue)[i] = queue[i + 1]
  BY <1>1
<1> QED BY <1>2, <1>3, <1>4 DEF QueueOK

(* The next port is taken, or the traversal is over.                       *)
LEMMA TraverseFacts ==
    ASSUME FabricOK, EnumOK, UNCHANGED <<fabric, found>>, switches = <<>>, hcas = <<>>,
           NEW queue, QueueOK(queue), NEW links, Traverse(queue, links)
    PROVE  /\ pc' \in {"done", "probe"} /\ job' = Idle
           /\ QueueOK(stack') /\ first' = <<>>
           /\ item' \in [port : Ports \cup {Nowhere}, path : Path]
           /\ pc' = "probe" => ItemOK(item')
           /\ ListsOK'
<1> DEFINE open == {i \in DOMAIN queue : IsOpen(queue[i], links)}
<1>1. job' = Idle /\ first' = <<>>
  BY DEF Traverse
<1>2. CASE open = {}
  <2>1. pc' = "done" /\ stack' = <<>> /\ item' = NoItem /\ Categorize
    BY <1>2 DEF Traverse
  <2>2. ListsOK'
    BY <2>1, Categorized DEF ListsOK, found
  <2> QED BY <1>1, <2>1, <2>2, QueueEmpty, RoutesArePaths DEF NoItem
<1>3. CASE open # {}
  <2> DEFINE i == Min(open)
             entry == queue[i]
  <2>1. /\ pc' = "probe" /\ stack' = SubSeq(queue, i + 1, Len(queue))
        /\ item' = [port |-> entry.port, path |-> RouteAcross(entry)]
        /\ UNCHANGED <<switches, hcas>>
    BY <1>3 DEF Traverse
  <2>2. i \in open
    <3>1. open \in SUBSET DOMAIN queue
      OBVIOUS
    <3> HIDE DEF open
    <3> QED BY <1>3, <3>1, LeastIndex
  <2>3. i \in DOMAIN queue /\ HasRoom(entry.path)
    BY <2>2 DEF IsOpen
  <2> HIDE DEF i
  <2>4. EntryOK(entry)
    BY <2>3 DEF QueueOK
  <2>5. QueueOK(stack')
    BY <2>1, <2>3, QueueRest
  <2> HIDE DEF entry
  <2>6. ItemOK(item')
    BY <2>1, <2>3, <2>4, RouteAcrossOK
  <2>7. item' \in [port : Ports \cup {Nowhere}, path : Path]
    BY <2>6 DEF ItemOK, QueueEntry
  <2>8. ListsOK'
    <3>1. <<>> \in Seq(Node)
      OBVIOUS
    <3> QED BY <2>1, <3>1 DEF ListsOK
  <2> QED BY <1>1, <2>1, <2>5, <2>6, <2>7, <2>8
<1> QED BY <1>2, <1>3

(* The end of an exchange of the loop, or of the first hop.                *)
LEMMA TraverseKeeps ==
    ASSUME IInv, UNCHANGED <<fabric, counters, found>>, UNCHANGED probing, pc # "done",
           NEW queue, QueueOK(queue), NEW links, Traverse(queue, links), RemoteOK'
    PROVE  IInv'
<1>1. FabricOK /\ EnumOK /\ GraphInv
  BY DEF IInv, GraphInv, NodeInv
<1>2. switches = <<>> /\ hcas = <<>>
  BY DEF IInv, ListsOK
<1>3. /\ pc' \in {"done", "probe"} /\ job' = Idle
      /\ QueueOK(stack') /\ first' = <<>>
      /\ item' \in [port : Ports \cup {Nowhere}, path : Path]
      /\ pc' = "probe" => ItemOK(item')
      /\ ListsOK'
  BY <1>1, <1>2, TraverseFacts
<1>4. GraphInv'
  BY <1>1, <1>3, CallKeepsGraphInv
<1>5. PlaceOK' /\ CauseOK'
  BY <1>3 DEF PlaceOK, CauseOK, Idle
<1>6. TraversalOK'
  <2>1. QueueOK(stack)' /\ (pc' = "probe" => ItemOK(item)')
    BY <1>3, SameCables DEF fabric
  <2>2. first' \in Seq(PortRecord) /\ ~InLoop'
    BY <1>3 DEF InLoop
  <2> QED BY <1>3, <2>1, <2>2 DEF TraversalOK
<1>7. ProbingOK'
  <2>1. QueueOK(ends)'
    BY SameCables DEF IInv, ProbingOK, fabric, probing
  <2> QED BY <1>3, <2>1 DEF IInv, ProbingOK, probing
<1> QED BY <1>3, <1>4, <1>5, <1>6, <1>7 DEF IInv

(* Links stay true while neither they nor the cables change.               *)
LEMMA RemoteStays == ASSUME IInv, UNCHANGED <<cabling, remote>> PROVE RemoteOK'
BY DEF IInv, RemoteOK, LinksOK

(* A link between a port and the one a route across it leads to.           *)
LEMMA RemoteLinked ==
    ASSUME IInv, UNCHANGED fabric, NEW it, ItemOK(it),
           NEW port, port = Arrival(cabling, it.path), port # Nowhere,
           remote' = Linked(it.port, port)
    PROVE  RemoteOK'
<1>1. FabricOK /\ DOMAIN remote \subseteq Ports
  BY DEF IInv, GraphInv, NodeInv, RemoteOK
<1>2. port = cabling[it.port] /\ it.port \in DOMAIN cabling /\ DOMAIN remote' \subseteq Ports
  BY <1>1, LinkedPorts
<1>3. cabling' = cabling
  BY DEF fabric
<1>4. ASSUME IsCabling(cabling) PROVE LinksOK(remote')
  BY <1>2, <1>4, LinkedOK DEF IInv, RemoteOK
<1>5. IsCabling(cabling) => LinksOK(remote)'
  BY <1>3, <1>4 DEF LinksOK
<1> QED BY <1>2, <1>3, <1>5 DEF RemoteOK

(* A port that a known node has no record of has been counted.             *)
LEMMA LeftOutIsCounted ==
    ASSUME GraphInv, NEW port \in Ports, port[1] \in DOMAIN node_map,
           port[2] \notin PortNumbers(node_map[port[1]])
    PROVE  mad_errors > 0
<1>1. IsCounted(Skips, mad_errors) /\ mad_errors \in Nat
  BY DEF GraphInv, GapInv, NodeInv, CountersOK
<1>2. port[1] \in Node /\ port[2] \in 1..NPorts[port[1]] /\ NPorts[port[1]] \in Nat
  BY PortFacts, RouteAssumption
<1>3. IsSkipped(port[1], port[2])
  BY <1>2 DEF IsSkipped, Missing
<1>4. <<port[1], port[2]>> \in Skips
  BY <1>2, <1>3 DEF Skips
<1> HIDE DEF Skips
<1>5. Skips # {} /\ IsFiniteSet(Skips)
  BY <1>1, <1>4 DEF IsCounted
<1>6. Cardinality(Skips) \in Nat /\ Cardinality(Skips) # 0
  BY <1>5, FS_CardinalityType, FS_EmptySet
<1> QED BY <1>1, <1>6 DEF IsCounted

(* Linking a node that is known and going on with what is on the stack.    *)
LEMMA LinkAndTraverseKeeps ==
    ASSUME IInv, UNCHANGED <<fabric, counters, found>>, UNCHANGED probing, pc = "probe" \/ InLoop,
           NEW queue, QueueOK(queue), NEW port, port = Arrival(cabling, item.path), port # Nowhere,
           port[1] \in DOMAIN node_map, LinkAndTraverse(queue, port)
    PROVE  IInv'
<1>1. ItemOK(item) /\ FabricOK /\ GraphInv /\ pc # "done"
  BY DEF IInv, TraversalOK, GraphInv, NodeInv, InLoop
<1>2. UNCHANGED fabric /\ UNCHANGED found /\ UNCHANGED counters
  OBVIOUS
<1>3. CASE remote' = Linked(item.port, port) /\ Traverse(queue, remote')
  <2>1. RemoteOK'
    BY <1>1, <1>2, <1>3, RemoteLinked
  <2> QED BY <1>1, <1>3, <2>1, TraverseKeeps
<1>4. CASE /\ port[2] \notin PortNumbers(node_map[port[1]])
           /\ pc' = "failed" /\ job' = Idle
           /\ stack' = queue
           /\ UNCHANGED <<remote, switches, hcas, first, item>>
  <2>1. port \in Ports
    BY <1>1, LinkedPorts DEF IInv, RemoteOK
  <2>2. mad_errors > 0
    BY <1>1, <1>4, <2>1, LeftOutIsCounted
  <2>3. GraphInv'
    BY <1>1, <1>4, CallKeepsGraphInv
  <2>4. ListsOK' /\ PlaceOK' /\ CauseOK'
    BY <1>1, <1>2, <1>4, <2>2 DEF IInv, ListsOK, PlaceOK, CauseOK, Idle, found, counters
  <2>5. RemoteOK'
    BY <1>2, <1>4, RemoteStays DEF fabric
  <2>6. QueueOK(stack)' /\ QueueOK(ends)'
    BY <1>2, <1>4, SameCables DEF IInv, ProbingOK, fabric, probing
  <2>7. TraversalOK'
    BY <1>4, <2>6 DEF IInv, TraversalOK, InLoop
  <2>8. ProbingOK'
    BY <1>4, <2>6 DEF IInv, ProbingOK, probing
  <2> QED BY <2>3, <2>4, <2>5, <2>7, <2>8 DEF IInv
<1> QED BY <1>3, <1>4 DEF LinkAndTraverse

(* A route of one hop.                                                     *)
LEMMA FirstHopRoute ==
    ASSUME NEW port \in PortRecord PROVE IsRoute(FirstHopPath(port.number))
<1> DEFINE p == port.number
           path == FirstHopPath(p)
<1>1. p \in 0..255
  BY DEF PortRecord
<1> HIDE DEF p
<1>2. StartPath \in [Index -> 0..255] /\ 0 \in Index /\ 1 \in Index
  BY IndexFacts DEF StartPath
<1>3. path \in [Index -> 0..255] /\ \A i \in Index : i > 1 => path[i] = 0
  BY <1>1, <1>2, IndexFacts DEF FirstHopPath, StartPath
<1> HIDE DEF path
<1>4. \A i \in 1..(PathLen - 1) : i \in Index
  BY RouteAssumption DEF Index
<1> QED BY <1>3, <1>4, RouteAssumption DEF IsRoute, path, p

-----------------------------------------------------------------------------
(* The steps.                                                              *)
LEMMA StartKeepsIInv == ASSUME IInv, Start PROVE IInv'
<1>1. /\ Forget /\ pc' = "root"
      /\ stack' = <<>> /\ first' = <<>> /\ item' = NoItem /\ ends' = <<>>
  BY DEF Start
<1>2. GraphInv'
  BY <1>1, ForgetKeepsGraphInv DEF IInv
<1>3. /\ remote' = <<>> /\ switches' = <<>> /\ hcas' = <<>> /\ job' = Call(StartPath)
      /\ node_map' = <<>>
  BY <1>1 DEF Forget
<1>4. <<>> \in Seq(Node) /\ <<>> \in Seq(PortRecord) /\ DOMAIN <<>> = {}
  OBVIOUS
<1>5. ListsOK' /\ PlaceOK' /\ CauseOK'
  BY <1>1, <1>3, <1>4 DEF ListsOK, PlaceOK, CauseOK, Call
<1>6. QueueOK(stack)' /\ QueueOK(ends)'
  BY <1>1, <1>4 DEF QueueOK
<1>7. TraversalOK' /\ ProbingOK'
  BY <1>1, <1>4, <1>6, RoutesArePaths DEF TraversalOK, ProbingOK, InLoop, NoItem
<1>8. RemoteOK'
  BY <1>3, <1>4 DEF RemoteOK, LinksOK
<1> QED BY <1>2, <1>5, <1>7, <1>8 DEF IInv

(* What stays true of the traversal while discover_node goes on: the map   *)
(* only grows.                                                             *)
LEMMA SamePlace ==
    ASSUME IInv, root_port' = root_port, cabling' = cabling,
           UNCHANGED <<traversal, probing>>, job'.path = job.path,
           DOMAIN node_map \subseteq DOMAIN node_map'
    PROVE  TraversalOK' /\ ProbingOK'
<1>1. /\ UNCHANGED pc /\ UNCHANGED stack /\ UNCHANGED first /\ UNCHANGED item /\ UNCHANGED probed
      /\ UNCHANGED ends /\ UNCHANGED seen /\ UNCHANGED host
  BY DEF traversal, probing
<1>2. Arrival(cabling, item.path)' = Arrival(cabling, item.path)
  BY <1>1, SameCables
<1>3. Arrival(cabling, job.path)' = Arrival(cabling, job.path)
  BY SameCables
<1>4. QueueOK(stack)' /\ QueueOK(ends)' /\ (ItemOK(item) => ItemOK(item)')
  BY <1>1, SameCables DEF IInv, TraversalOK, ProbingOK
<1>5. LeadsTo(host.path, host.node.guid)' = LeadsTo(host.path, host.node.guid)
  BY <1>1, SameCables
<1>6. TraversalOK'
  BY <1>1, <1>2, <1>4 DEF IInv, TraversalOK, InLoop
<1>7. ProbingOK'
  BY <1>1, <1>3, <1>4, <1>5 DEF IInv, ProbingOK
<1> QED BY <1>6, <1>7

(* A step of discover_node.                                                *)
LEMMA DiscoverKeepsIInv ==
    ASSUME IInv, DiscoverNode, UNCHANGED <<traversal, probing>> PROVE IInv'
<1>1. GraphInv' /\ job'.path = job.path
  BY DiscoverNodeKeepsGraphInv DEF IInv
<1>2. /\ UNCHANGED fabric /\ UNCHANGED <<remote, switches, hcas>>
      /\ job.phase \in {"nodeInfo", "nodeDesc", "portInfo"}
  BY DEF DiscoverNode, FetchNodeInfo, FetchNodeDesc, FetchPortInfo, graph
<1>3. /\ job'.phase # "none"
      /\ DOMAIN node_map \subseteq DOMAIN node_map'
      /\ job'.phase = "found" \/ node_map' = node_map
  <2>1. job \in JobShape
    BY DEF IInv, GraphInv, NodeInv, JobOK
  <2>2. CASE FetchNodeInfo
    BY <2>1, <2>2 DEF FetchNodeInfo, Found, Lost, JobShape, graph, found
  <2>3. CASE FetchNodeDesc
    BY <2>1, <2>3 DEF FetchNodeDesc, Lost, JobShape, graph, found
  <2>4. CASE FetchPortInfo
    <3>1. (\E r : PortStep(r)) \/ (Lost /\ UNCHANGED <<found, counters>>)
      BY <2>4, FetchPortInfoSteps DEF IInv, GraphInv
    <3>2. CASE Lost /\ UNCHANGED <<found, counters>>
      BY <2>1, <3>2 DEF Lost, JobShape, found
    <3>3. ASSUME NEW r, Continued(r)
          PROVE  job'.phase # "none" /\ node_map' = node_map
      BY <1>2, <2>1, <3>3 DEF Continued, JobShape, found
    <3>4. ASSUME NEW r, Completed(r)
          PROVE  job'.phase = "found" /\ DOMAIN node_map \subseteq DOMAIN node_map'
      BY <2>1, <3>4 DEF Completed, JobShape, Put
    <3> QED BY <3>1, <3>2, <3>3, <3>4 DEF PortStep, NextRecord
  <2> QED BY <2>2, <2>3, <2>4 DEF DiscoverNode
<1>4. UNCHANGED pc
  BY DEF traversal
<1>5. pc \in {"root", "first", "loop", "end"}
  BY <1>2 DEF IInv, PlaceOK
<1>6. ListsOK' /\ PlaceOK'
  BY <1>2, <1>3, <1>4, <1>5 DEF IInv, ListsOK, PlaceOK
<1>7. CauseOK'
  BY <1>2, <1>3, <1>4, <1>5 DEF IInv, CauseOK
<1>8. TraversalOK' /\ ProbingOK'
  BY <1>1, <1>2, <1>3, SamePlace DEF fabric
<1>9. RemoteOK'
  BY <1>2, RemoteStays DEF fabric
<1> QED BY <1>1, <1>6, <1>7, <1>8, <1>9 DEF IInv

(* Cables and nodes go away.                                               *)
LEMMA UnplugKeepsIInv == ASSUME IInv, Unplug, UNCHANGED <<traversal, probing>> PROVE IInv'
<1>1. GraphInv'
  BY UnplugKeepsGraphInv DEF IInv
<1>2. /\ root_port' = root_port /\ cabling' = cabling /\ job' = job /\ nodes' = nodes
      /\ node_map' = node_map /\ mad_errors' = mad_errors
      /\ UNCHANGED <<remote, switches, hcas>>
  BY DEF Unplug, graph, found, counters
<1>3. UNCHANGED pc
  BY DEF traversal
<1>4. ListsOK' /\ PlaceOK' /\ CauseOK'
  BY <1>2, <1>3 DEF IInv, ListsOK, PlaceOK, CauseOK
<1>5. TraversalOK' /\ ProbingOK'
  BY <1>2, SamePlace
<1>6. RemoteOK'
  BY <1>2, RemoteStays
<1> QED BY <1>1, <1>4, <1>5, <1>6 DEF IInv

(* Nothing happens.                                                        *)
LEMMA StutterKeepsIInv == ASSUME IInv, UNCHANGED vars PROVE IInv'
<1>1. UNCHANGED common /\ UNCHANGED <<traversal, probing>> /\ UNCHANGED pc
  BY DEF vars, traversal
<1>2. /\ UNCHANGED fabric /\ UNCHANGED found /\ UNCHANGED job /\ UNCHANGED counters
      /\ UNCHANGED <<remote, switches, hcas>>
  BY <1>1 DEF common, graph
<1>3. GraphInv'
  BY <1>1, StutterKeepsGraphInv DEF IInv
<1>4. ListsOK' /\ PlaceOK' /\ CauseOK'
  BY <1>1, <1>2 DEF IInv, ListsOK, PlaceOK, CauseOK, found, counters
<1>5. TraversalOK' /\ ProbingOK'
  BY <1>1, <1>2, SamePlace DEF fabric, found
<1>6. RemoteOK'
  BY <1>2, RemoteStays DEF fabric
<1> QED BY <1>3, <1>4, <1>5, <1>6 DEF IInv

(* The loop asks who is behind its current port.                           *)
LEMMA ProbeKeepsIInv == ASSUME IInv, Probe PROVE IInv'
<1> DEFINE port == Arrival(Cable, item.path)
<1>1. /\ pc = "probe" /\ UNCHANGED fabric /\ UNCHANGED counters /\ UNCHANGED found
      /\ UNCHANGED <<fabric, counters, found>> /\ UNCHANGED probing
  BY DEF Probe
<1>2. FabricOK /\ ItemOK(item) /\ QueueOK(stack)
  BY <1>1 DEF IInv, GraphInv, NodeInv, TraversalOK
<1>3. PICK outcome \in Outcome(item.path) :
         \/ /\ outcome.kind = "Ok" /\ IsKnown(port[1]) /\ LinkAndTraverse(stack, port)
         \/ /\ outcome.kind = "Ok" /\ ~IsKnown(port[1])
            /\ probed' = port /\ pc' = "loop" /\ job' = Call(item.path)
            /\ UNCHANGED <<remote, switches, hcas, stack, first, item>>
         \/ /\ outcome.kind # "Ok" /\ Traverse(stack, remote) /\ UNCHANGED <<remote, probed>>
  BY DEF Probe
<1>4. outcome.kind = "Ok" => port # Nowhere /\ port = Arrival(cabling, item.path)
  BY <1>2, OutcomeFacts, Reached
<1> HIDE DEF port
<1>5. CASE outcome.kind = "Ok" /\ IsKnown(port[1]) /\ LinkAndTraverse(stack, port)
  BY <1>1, <1>2, <1>4, <1>5, LinkAndTraverseKeeps DEF IsKnown
<1>6. CASE /\ outcome.kind = "Ok" /\ probed' = port /\ pc' = "loop" /\ job' = Call(item.path)
           /\ UNCHANGED <<remote, switches, hcas, stack, first, item>>
  <2>1. IsRoute(item.path)
    BY <1>2 DEF ItemOK
  <2>2. GraphInv'
    BY <1>1, <1>6, <2>1, CallKeepsGraphInv DEF IInv
  <2>3. ListsOK' /\ PlaceOK' /\ CauseOK'
    BY <1>1, <1>6 DEF IInv, ListsOK, PlaceOK, CauseOK, Call, found
  <2>4. QueueOK(stack)' /\ QueueOK(ends)' /\ ItemOK(item)'
    BY <1>1, <1>2, <1>6, SameCables DEF IInv, ProbingOK, fabric, probing
  <2>5. TraversalOK'
    <3>1. job'.path = item.path
      BY <1>6 DEF Call
    <3>2. Arrival(cabling, item.path)' = Arrival(cabling, item.path)
      BY <1>1, <1>6, SameCables DEF fabric
    <3>3. first' \in Seq(PortRecord) /\ item' \in [port : Ports \cup {Nowhere}, path : Path]
      BY <1>6 DEF IInv, TraversalOK
    <3> QED BY <1>4, <1>6, <2>4, <3>1, <3>2, <3>3 DEF TraversalOK
  <2>6. ProbingOK'
    BY <1>1, <1>6, <2>4 DEF IInv, ProbingOK, probing
  <2>7. RemoteOK'
    BY <1>1, <1>6, RemoteStays DEF fabric
  <2> QED BY <2>2, <2>3, <2>5, <2>6, <2>7 DEF IInv
<1>7. CASE Traverse(stack, remote) /\ UNCHANGED <<remote, probed>>
  <2>1. RemoteOK'
    BY <1>1, <1>7, RemoteStays DEF fabric
  <2> QED BY <1>1, <1>2, <1>7, <2>1, TraverseKeeps
<1> QED BY <1>3, <1>5, <1>6, <1>7

(* A switch is found, and its ends are probed before anything else.        *)
LEMMA SwitchFoundKeepsIInv ==
    ASSUME IInv, LoopSwitchFound \/ FirstSwitchFound PROVE IInv'
<1>1. /\ UNCHANGED fabric /\ UNCHANGED counters /\ UNCHANGED graph /\ job.phase = "found"
      /\ UNCHANGED <<stack, first, item, probed, seen>>
      /\ pc' = "ends" /\ job' = Idle /\ ends' = EndEntries(job.node, job.path)
      /\ \/ pc = "loop" /\ host' = [node |-> job.node, path |-> job.path, for |-> "loop"]
         \/ pc = "first" /\ host' = [node |-> job.node, path |-> job.path, for |-> "first"]
  BY DEF LoopSwitchFound, FirstSwitchFound, ProbeEndsOf
<1>2. UNCHANGED <<fabric, found, counters>> /\ UNCHANGED <<nodes, node_map, remote, switches, hcas>>
  BY <1>1 DEF graph, found
<1>3. /\ RecordOK(job.node) /\ IsRoute(job.path) /\ LeadsTo(job.path, job.node.guid)
      /\ job.node.guid \in DOMAIN node_map
  BY <1>1 DEF IInv, GraphInv, NodeInv, JobOK
<1>4. GraphInv'
  BY <1>1, <1>2, CallKeepsGraphInv DEF IInv
<1>5. ListsOK' /\ PlaceOK' /\ CauseOK'
  BY <1>1, <1>2 DEF IInv, ListsOK, PlaceOK, CauseOK, Idle
<1>6. Arrival(cabling, item.path)' = Arrival(cabling, item.path)
  BY <1>1, SameCables DEF fabric
<1>7. QueueOK(stack)' /\ (ItemOK(item) => ItemOK(item)')
  BY <1>1, SameCables DEF IInv, TraversalOK, fabric
<1>8. TraversalOK'
  BY <1>1, <1>6, <1>7 DEF IInv, TraversalOK, InLoop
<1>9. ProbingOK'
  <2>1. QueueOK(ends') /\ \A i \in DOMAIN ends' : HasRoom(ends'[i].path)
    BY <1>1, <1>3, EndQueue, Zenon
  <2>2. QueueOK(ends)'
    BY <1>1, <2>1, SameCables DEF fabric
  <2>3. host'.node = job.node /\ host'.path = job.path
    BY <1>1
  <2>4. LeadsTo(host.path, host.node.guid)'
    <3>1. LeadsTo(host'.path, host'.node.guid)
      BY <1>3, <2>3
    <3>2. /\ cabling' = cabling
          /\ \A cable, path : Arrival(cable, path)' = Arrival(cable, path)
      BY <1>1, SameRoot DEF fabric
    <3> QED BY <3>1, <3>2 DEF LeadsTo
  <2>5. host'.for \in {"first", "loop"} /\ (host'.for = "loop" => host'.path = item'.path)
    BY <1>1 DEF IInv, TraversalOK
  <2>6. IsRoute(host'.path) /\ RecordOK(host'.node) /\ host'.node.guid \in DOMAIN node_map'
    BY <1>2, <1>3, <2>3
  <2> QED BY <1>1, <2>1, <2>2, <2>4, <2>5, <2>6 DEF ProbingOK
<1>10. RemoteOK'
  BY <1>1, <1>2, RemoteStays DEF fabric
<1> QED BY <1>4, <1>5, <1>8, <1>9, <1>10 DEF IInv

(* At the ends of a switch only the queue of ends, the links and the call  *)
(* change; what the loop waits for stays.                                  *)
LEMMA EndsKeep ==
    ASSUME IInv, pc \in {"ends", "end"}, pc' = "ends", job' = Idle,
           UNCHANGED <<fabric, counters, found>>, UNCHANGED <<switches, hcas>>,
           UNCHANGED <<stack, first, item, probed, host>>,
           QueueOK(ends'), \A i \in DOMAIN ends' : HasRoom(ends'[i].path), RemoteOK'
    PROVE  IInv'
<1>1. UNCHANGED fabric /\ UNCHANGED found /\ UNCHANGED counters
  OBVIOUS
<1>2. GraphInv'
  BY CallKeepsGraphInv DEF IInv
<1>3. ListsOK' /\ PlaceOK' /\ CauseOK'
  BY <1>1 DEF IInv, ListsOK, PlaceOK, CauseOK, Idle, found
<1>4. Arrival(cabling, item.path)' = Arrival(cabling, item.path)
  BY <1>1, SameCables DEF fabric
<1>5. LeadsTo(host.path, host.node.guid)' = LeadsTo(host.path, host.node.guid)
  BY <1>1, SameCables DEF fabric
<1>6. QueueOK(stack)' /\ QueueOK(ends)' /\ (ItemOK(item) => ItemOK(item)')
  BY <1>1, SameCables DEF IInv, TraversalOK, fabric
<1>7. TraversalOK'
  BY <1>4, <1>6 DEF IInv, TraversalOK, InLoop
<1>8. ProbingOK'
  BY <1>1, <1>5, <1>6 DEF IInv, ProbingOK, found
<1> QED BY <1>2, <1>3, <1>7, <1>8 DEF IInv

(* The probe has come to its end: the node is known, or it has to be       *)
(* discovered, or it is given up.                                          *)
LEMMA ProbeEndKeepsIInv == ASSUME IInv, ProbeEnd PROVE IInv'
<1> DEFINE path == RouteAcross(Head(ends))
           local == Head(ends).port
           port == Arrival(Cable, path)
<1>1. /\ pc = "ends" /\ ends # <<>>
      /\ UNCHANGED fabric /\ UNCHANGED counters /\ UNCHANGED found
      /\ UNCHANGED <<fabric, counters, found>> /\ UNCHANGED <<switches, hcas>>
      /\ UNCHANGED <<stack, first, item, probed, host>>
  BY DEF ProbeEnd
<1>2. FabricOK /\ QueueOK(ends) /\ \A i \in DOMAIN ends : HasRoom(ends[i].path)
  BY DEF IInv, GraphInv, NodeInv, ProbingOK
<1>3. /\ EntryOK(Head(ends)) /\ HasRoom(Head(ends).path)
      /\ QueueOK(Tail(ends)) /\ \A i \in DOMAIN Tail(ends) : HasRoom(Tail(ends)[i].path)
  BY <1>1, <1>2, QueueTail
<1>4. ItemOK([port |-> local, path |-> path])
  BY <1>2, <1>3, RouteAcrossOK
<1>5. PICK outcome \in Outcome(path) :
         \/ /\ outcome.kind = "Ok" /\ remote' = Linked(local, port)
            /\ ends' = Tail(ends) /\ UNCHANGED <<pc, job>>
         \/ /\ outcome.kind = "Ok" /\ seen' = port
            /\ pc' = "end" /\ job' = Call(path)
            /\ UNCHANGED <<remote, ends>>
         \/ ends' = Tail(ends) /\ UNCHANGED <<pc, job, remote>>
  BY DEF ProbeEnd
<1>6. outcome.kind = "Ok" => port # Nowhere /\ port = Arrival(cabling, path)
  BY <1>2, OutcomeFacts, Reached
<1> HIDE DEF port, path, local
<1>7. ASSUME ends' = Tail(ends), UNCHANGED <<pc, job>>, RemoteOK' PROVE IInv'
  <2>1. pc' = "ends"
    BY <1>1, <1>7
  <2>2. job' = Idle
    BY <1>1, <1>7 DEF IInv, PlaceOK
  <2> QED BY <1>1, <1>3, <1>7, <2>1, <2>2, EndsKeep
<1>8. CASE outcome.kind = "Ok" /\ remote' = Linked(local, port) /\ ends' = Tail(ends) /\ UNCHANGED <<pc, job>>
  <2> DEFINE it == [port |-> local, path |-> path]
  <2>1. ItemOK(it) /\ it.port = local /\ it.path = path
    BY <1>4
  <2> HIDE DEF it
  <2>2. RemoteOK'
    BY <1>1, <1>6, <1>8, <2>1, RemoteLinked
  <2> QED BY <1>7, <1>8, <2>2
<1>9. CASE ends' = Tail(ends) /\ UNCHANGED <<pc, job, remote>>
  BY <1>1, <1>7, <1>9, RemoteStays DEF fabric
<1>10. CASE /\ outcome.kind = "Ok" /\ seen' = port
            /\ pc' = "end" /\ job' = Call(path)
            /\ UNCHANGED <<remote, ends>>
  <2>1. IsRoute(path)
    BY <1>4 DEF ItemOK
  <2>2. GraphInv'
    BY <1>1, <1>10, <2>1, CallKeepsGraphInv DEF IInv
  <2>3. ListsOK' /\ PlaceOK' /\ CauseOK'
    BY <1>1, <1>10 DEF IInv, ListsOK, PlaceOK, CauseOK, Call, found
  <2>4. Arrival(cabling, item.path)' = Arrival(cabling, item.path)
    BY <1>1, SameCables DEF fabric
  <2>5. LeadsTo(host.path, host.node.guid)' = LeadsTo(host.path, host.node.guid)
    BY <1>1, SameCables DEF fabric
  <2>6. QueueOK(stack)' /\ QueueOK(ends)' /\ (ItemOK(item) => ItemOK(item)')
    BY <1>1, <1>10, SameCables DEF IInv, TraversalOK, ProbingOK, fabric
  <2>7. TraversalOK'
    BY <1>1, <1>10, <2>4, <2>6 DEF IInv, TraversalOK, InLoop
  <2>8. job'.path = path /\ seen' # Nowhere
    BY <1>6, <1>10 DEF Call
  <2>9. seen' = Arrival(cabling, job.path)'
    <3>1. Arrival(cabling, path) = seen'
      BY <1>6, <1>10
    <3>2. \A cable, route : Arrival(cable, route)' = Arrival(cable, route)
      BY <1>1, SameRoot
    <3>3. cabling' = cabling
      BY <1>1 DEF fabric
    <3> QED BY <2>8, <3>1, <3>2, <3>3
  <2>10. ProbingOK'
    <3>1. ends' # <<>> /\ job'.path = RouteAcross(Head(ends'))
      BY <1>1, <1>10, <2>8 DEF path
    <3> QED BY <1>1, <1>2, <1>10, <2>5, <2>6, <2>8, <2>9, <3>1 DEF IInv, ProbingOK, found
  <2>11. RemoteOK'
    BY <1>1, <1>10, RemoteStays DEF fabric
  <2> QED BY <2>2, <2>3, <2>7, <2>10, <2>11 DEF IInv
<1> QED BY <1>5, <1>8, <1>9, <1>10

(* discover_node returns to the probing of the ends.                       *)
LEMMA EndKeepsIInv == ASSUME IInv, EndFound \/ EndLost PROVE IInv'
<1>1. /\ pc = "end" /\ pc' = "ends" /\ job' = Idle /\ ends' = Tail(ends)
      /\ UNCHANGED fabric /\ UNCHANGED counters /\ UNCHANGED found
      /\ UNCHANGED <<fabric, counters, found>> /\ UNCHANGED <<switches, hcas>>
      /\ UNCHANGED <<stack, first, item, probed, host>>
  BY DEF EndFound, EndLost, graph
<1>2. /\ FabricOK /\ JobOK /\ QueueOK(ends) /\ \A i \in DOMAIN ends : HasRoom(ends[i].path)
      /\ ends # <<>> /\ job.path = RouteAcross(Head(ends))
      /\ seen = Arrival(cabling, job.path) /\ seen # Nowhere
      /\ DOMAIN remote \subseteq Ports
  BY <1>1 DEF IInv, GraphInv, NodeInv, ProbingOK, RemoteOK
<1>3. /\ EntryOK(Head(ends)) /\ HasRoom(Head(ends).path)
      /\ QueueOK(Tail(ends)) /\ \A i \in DOMAIN Tail(ends) : HasRoom(Tail(ends)[i].path)
  BY <1>2, QueueTail
<1> DEFINE it == [port |-> Head(ends).port, path |-> RouteAcross(Head(ends))]
<1>4. ItemOK(it) /\ it.port = Head(ends).port /\ it.path = job.path
  BY <1>2, <1>3, RouteAcrossOK
<1> HIDE DEF it
<1>5. CASE EndFound
  <2>1. job.phase = "found" /\ remote' = Linked(it.port, <<job.node.guid, seen[2]>>)
    BY <1>4, <1>5 DEF EndFound
  <2>2. seen \in Ports
    BY <1>2, <1>4, LinkedPorts
  <2>3. seen[1] = job.node.guid
    BY <1>2, <2>1 DEF JobOK, LeadsTo
  <2>4. seen = <<job.node.guid, seen[2]>>
    BY <2>2, <2>3, PortFacts
  <2>5. remote' = Linked(it.port, seen)
    BY <2>1, <2>4, Zenon
  <2>6. RemoteOK'
    BY <1>1, <1>2, <1>4, <2>5, RemoteLinked
  <2> QED BY <1>1, <1>3, <2>6, EndsKeep
<1>6. CASE EndLost
  <2>1. RemoteOK'
    BY <1>1, <1>6, RemoteStays DEF EndLost, graph, fabric
  <2> QED BY <1>1, <1>3, <2>1, EndsKeep
<1> QED BY <1>5, <1>6

(* The loop goes on with the node it found: the ends of a switch have been *)
(* probed meanwhile.                                                       *)
LEMMA LoopKeepsIInv ==
    ASSUME IInv, LoopSwitchDone \/ LoopEndFound \/ LoopLost PROVE IInv'
<1>1. /\ UNCHANGED fabric /\ UNCHANGED <<fabric, counters, found>> /\ UNCHANGED probing
      /\ InLoop /\ pc # "done"
  BY DEF LoopSwitchDone, LoopEndFound, LoopLost, InLoop
<1>2. /\ FabricOK /\ JobOK /\ ItemOK(item) /\ QueueOK(stack)
      /\ probed = Arrival(cabling, item.path) /\ probed # Nowhere
      /\ DOMAIN remote \subseteq Ports
  BY <1>1 DEF IInv, GraphInv, NodeInv, TraversalOK, RemoteOK
<1>3. probed \in Ports
  BY <1>2, LinkedPorts
<1>4. ASSUME NEW guid, guid \in DOMAIN node_map, LeadsTo(item.path, guid),
             NEW queue, QueueOK(queue), LinkAndTraverse(queue, <<guid, probed[2]>>)
      PROVE  IInv'
  <2>1. probed[1] = guid
    BY <1>2, <1>4 DEF LeadsTo
  <2>2. probed = <<guid, probed[2]>>
    BY <1>3, <2>1, PortFacts
  <2>3. LinkAndTraverse(queue, probed)
    BY <1>4, <2>2, Zenon
  <2> QED BY <1>1, <1>2, <1>4, <2>1, <2>3, LinkAndTraverseKeeps
<1>5. CASE LoopSwitchDone
  <2>1. /\ pc = "ends" /\ host.for = "loop"
        /\ LinkAndTraverse(RingEntries(host.node, host.path) \o stack, <<host.node.guid, probed[2]>>)
    BY <1>5 DEF LoopSwitchDone
  <2>2. /\ RecordOK(host.node) /\ host.node.guid \in DOMAIN node_map
        /\ IsRoute(host.path) /\ LeadsTo(host.path, host.node.guid) /\ host.path = item.path
    BY <2>1 DEF IInv, ProbingOK
  <2>3. QueueOK(RingEntries(host.node, host.path) \o stack)
    BY <1>2, <2>2, RingQueue, QueueConcat
  <2>4. LeadsTo(item.path, host.node.guid)
    BY <2>2
  <2> QED BY <1>4, <2>1, <2>2, <2>3, <2>4
<1>6. CASE LoopEndFound
  <2>1. /\ pc = "loop" /\ job.phase = "found"
        /\ LinkAndTraverse(stack, <<job.node.guid, probed[2]>>)
    BY <1>6 DEF LoopEndFound
  <2>2. LeadsTo(item.path, job.node.guid) /\ job.node.guid \in DOMAIN node_map
    BY <1>2, <2>1 DEF IInv, JobOK, TraversalOK
  <2> QED BY <1>2, <1>4, <2>1, <2>2
<1>7. CASE LoopLost
  <2>1. Traverse(stack, remote) /\ UNCHANGED remote
    BY <1>7 DEF LoopLost
  <2>2. RemoteOK'
    BY <1>1, <2>1, RemoteStays DEF fabric
  <2> QED BY <1>1, <1>2, <2>1, <2>2, TraverseKeeps
<1> QED BY <1>5, <1>6, <1>7

(* The first hop: the next port of the first node, or the loop.            *)
LEMMA FirstHopKeepsIInv ==
    ASSUME IInv, pc \in {"root", "first", "ends"},
           NEW ports \in Seq(PortRecord), NEW queue, QueueOK(queue), FirstHop(ports, queue)
    PROVE  IInv'
<1>1. /\ UNCHANGED fabric /\ UNCHANGED found /\ UNCHANGED <<fabric, counters, found>>
      /\ UNCHANGED probing /\ remote' = remote
  BY DEF FirstHop
<1>2. RemoteOK'
  BY <1>1, RemoteStays DEF fabric
<1>3. CASE Traverse(queue, remote)
  BY <1>1, <1>2, <1>3, TraverseKeeps
<1>4. CASE /\ ports # <<>> /\ pc' = "first"
           /\ job' = Call(FirstHopPath(Head(ports).number))
           /\ first' = Tail(ports) /\ stack' = queue
           /\ UNCHANGED <<switches, hcas, item>>
  <2>1. Head(ports) \in PortRecord /\ Tail(ports) \in Seq(PortRecord)
    BY <1>4
  <2>2. IsRoute(FirstHopPath(Head(ports).number))
    BY <2>1, FirstHopRoute
  <2>3. GraphInv'
    BY <1>1, <1>4, <2>2, CallKeepsGraphInv DEF IInv
  <2>4. ListsOK' /\ PlaceOK' /\ CauseOK'
    BY <1>1, <1>4 DEF IInv, ListsOK, PlaceOK, CauseOK, Call, found
  <2>5. QueueOK(stack)' /\ QueueOK(ends)'
    BY <1>1, <1>4, SameCables DEF IInv, ProbingOK, fabric, probing
  <2>6. TraversalOK'
    BY <1>4, <2>1, <2>5 DEF IInv, TraversalOK, InLoop
  <2>7. ProbingOK'
    BY <1>1, <1>4, <2>5 DEF IInv, ProbingOK, probing
  <2> QED BY <1>2, <2>3, <2>4, <2>6, <2>7 DEF IInv
<1> QED BY <1>3, <1>4 DEF FirstHop

(* The calls for the root and for the first switch have returned.          *)
LEMMA FirstKeepsIInv ==
    ASSUME IInv, RootFound \/ FirstSwitchDone \/ FirstOther PROVE IInv'
<1>1. NodeInv /\ JobOK /\ QueueOK(stack) /\ first \in Seq(PortRecord)
  BY DEF IInv, GraphInv, NodeInv, TraversalOK
<1>2. CASE RootFound
  <2> DEFINE indices == {i \in DOMAIN job.node.ports : IsExternal(job.node.ports[i])}
             ports == Filter(job.node.ports, IsExternal)
  <2>1. pc = "root" /\ job.phase = "found" /\ FirstHop(ports, stack)
    BY <1>2 DEF RootFound
  <2>2. job.node.ports \in Seq(PortRecord)
    BY <1>1, <2>1 DEF JobOK, RecordOK, NodeShape
  <2>3. indices \in SUBSET DOMAIN job.node.ports /\ ports = Kept(job.node.ports, indices)
    BY DEF Filter
  <2> HIDE DEF ports, indices
  <2>4. ports \in Seq(PortRecord)
    BY <2>2, <2>3, KeptElements
  <2> QED BY <1>1, <2>1, <2>4, FirstHopKeepsIInv
<1>3. CASE FirstSwitchDone
  <2>1. /\ pc = "ends" /\ FirstHop(first, RingEntries(host.node, host.path) \o stack)
    BY <1>3 DEF FirstSwitchDone
  <2>2. RecordOK(host.node) /\ IsRoute(host.path) /\ LeadsTo(host.path, host.node.guid)
    BY <2>1 DEF IInv, ProbingOK
  <2>3. QueueOK(RingEntries(host.node, host.path) \o stack)
    BY <1>1, <2>2, RingQueue, QueueConcat
  <2> QED BY <1>1, <2>1, <2>3, FirstHopKeepsIInv
<1>4. CASE FirstOther
  BY <1>1, <1>4, FirstHopKeepsIInv DEF FirstOther
<1> QED BY <1>2, <1>3, <1>4

(* Without its first node the discovery has entered no node at all.        *)
LEMMA RootLostKeepsIInv == ASSUME IInv, RootLost PROVE IInv'
<1>1. /\ pc = "root" /\ job.phase = "lost" /\ pc' = "failed" /\ job' = Idle
      /\ UNCHANGED fabric /\ UNCHANGED graph /\ UNCHANGED counters
      /\ UNCHANGED <<stack, first, item, probed>> /\ UNCHANGED probing
  BY DEF RootLost
<1>2. UNCHANGED <<fabric, found, counters>> /\ UNCHANGED <<node_map, nodes, remote, switches, hcas>>
  BY <1>1 DEF graph, found
<1>3. GraphInv'
  BY <1>1, <1>2, CallKeepsGraphInv DEF IInv
<1>4. ListsOK' /\ PlaceOK' /\ CauseOK'
  BY <1>1, <1>2 DEF IInv, ListsOK, PlaceOK, CauseOK, Idle
<1>5. QueueOK(stack)' /\ QueueOK(ends)'
  BY <1>1, SameCables DEF IInv, TraversalOK, ProbingOK, fabric, probing
<1>6. TraversalOK' /\ ProbingOK'
  BY <1>1, <1>5 DEF IInv, TraversalOK, ProbingOK, InLoop, probing
<1>7. RemoteOK'
  BY <1>1, <1>2, RemoteStays DEF fabric
<1> QED BY <1>3, <1>4, <1>6, <1>7 DEF IInv

(* Every step keeps the invariant, whatever fails and whatever is          *)
(* unplugged.                                                              *)
LEMMA Inductive == IInv /\ [Next]_vars => IInv'
<1> SUFFICES ASSUME IInv, [Next]_vars PROVE IInv'
  OBVIOUS
<1> QED BY StartKeepsIInv, DiscoverKeepsIInv, UnplugKeepsIInv, StutterKeepsIInv, ProbeKeepsIInv,
           SwitchFoundKeepsIInv, ProbeEndKeepsIInv, EndKeepsIInv, LoopKeepsIInv, FirstKeepsIInv,
           RootLostKeepsIInv
        DEF Next, Progress

(* The invariant that the theorems rest on.                                *)
LEMMA Invariance == Spec => []IInv
BY Initially, Inductive, PTL DEF Spec

-----------------------------------------------------------------------------
(* The graph stays well typed, as far as discover_node has filled it and   *)
(* as the traversal has linked and sorted it.                              *)
THEOREM RingTypes == Spec => []GraphTypeOK
<1>1. IInv => GraphTypeOK
  BY IInvImplies
<1> QED BY Invariance, <1>1, PTL

(* The nodes are enumerated once each, and sorted by type, although        *)
(* discover_node is called from the loop and from the probing of ends.     *)
THEOREM RingEnumeratedOnce == Spec => []Enumerated
<1>1. IInv => Enumerated
  BY IInvImplies
<1> QED BY Invariance, <1>1, PTL

(* The LIDs of a switch agree, and the gaps in the records of all nodes,   *)
(* those found at the ends of switches included, are counted.              *)
THEOREM RingRecords == Spec => [](LidPropagated /\ GapsAreCounted)
<1>1. IInv => LidPropagated /\ GapsAreCounted
  BY IInvImplies
<1> QED BY Invariance, <1>1, PTL

(* Once its first node is known a discovery is only given up for a port    *)
(* that was left out as invalid, and such a port was counted.              *)
THEOREM GivenUpOnlyForCause == Spec => []GivenUpForCause
<1>1. IInv => GivenUpForCause
  BY IInvImplies
<1> QED BY Invariance, <1>1, PTL

(* In fabrics whose cables are plugged in at both ends every link that is  *)
(* recorded is a cable, and is recorded at both of its ends: the port the  *)
(* loop remembers is still the right one after the ends have been probed.  *)
THEOREM RingLinksAreCables ==
    ASSUME \A cable \in Cablings : IsCabling(cable) PROVE Spec => []LinksTrue
<1>1. IInv => LinksTrue
  BY IInvImplies DEF IInv, GraphInv, NodeInv, FabricOK
<1> QED BY Invariance, <1>1, PTL

-----------------------------------------------------------------------------
(* What the traversal has found, and has left to do, while nothing fails.  *)

(* A route to a known switch, with room for a hop more: it has passed      *)
(* fewer nodes than are known.                                             *)
RouteSees(path, n) ==
    /\ IsRegular(path) /\ Finds(path, n)
    /\ IsKnown(n) /\ n \in Switches
    /\ n \in Ball(Cable, Depth(path)) /\ Depth(path) < Cardinality(DOMAIN node_map)
QueueSees(queue) == \A i \in DOMAIN queue : RouteSees(queue[i].path, queue[i].port[1])

(* A route across a port of a known switch.                                *)
AcrossSees(port, path) ==
    /\ IsRegular(path) /\ IsKnown(port[1]) /\ port[1] \in Switches
    /\ Depth(path) \in 1..Cardinality(DOMAIN node_map)
    /\ Arrival(Cable, path) = IF port \in DOMAIN Cable THEN Cable[port] ELSE Nowhere
    /\ port \in DOMAIN Cable => Cable[port][1] \in Ball(Cable, Depth(path))

(* The ends of the switch that is probed.                                  *)
Probing == pc \in {"ends", "end"}
EndsSee(queue) ==
    \A i \in DOMAIN queue : /\ queue[i].port[1] = host.node.guid /\ queue[i].path = host.path
                            /\ queue[i].port[2] \notin RingPorts
HostSees ==
    /\ host.node = node_map[host.node.guid] /\ RouteSees(host.path, host.node.guid)
    /\ EndsSee(ends)

(* What is left to do for a node: discover_node has been called for it, or *)
(* will be for a port of the root; and for a port.                         *)
ToCall(ports, n) == \E i \in DOMAIN ports : Finds(FirstHopPath(ports[i].number), n)
Called(n) == pc \in {"first", "loop"} /\ Finds(job.path, n)
InQueue(queue, p) == \E i \in DOMAIN queue : queue[i].port = p
ToPush(p) == Probing /\ p[1] = host.node.guid /\ p[2] \in RingPorts
ToProbe(p) == Probing /\ InQueue(ends, p)
IsNext(p) == (pc = "probe" \/ InLoop) /\ item.port = p

(* What has been done: a cable is recorded, and the node behind it known.  *)
Settled(p, links) == p \in DOMAIN links /\ IsKnown(Cable[p][1])
LinksSeen(links) ==
    \A p \in DOMAIN links : p \in DOMAIN Cable /\ IsKnown(p[1]) /\ IsKnown(Cable[p][1])

(* The phases of the traversal, and what each of them knows.               *)
Begun == pc \in {"first", "ends", "end", "probe", "loop", "done"}
InFirst == pc = "first" \/ (Probing /\ host.for = "first")
KnownSees == \A n \in DOMAIN node_map : KnownAt(n)
StackSees ==
    /\ QueueSees(stack)
    /\ pc = "done" => stack = <<>>
    /\ pc = "probe" \/ InLoop => AcrossSees(item.port, item.path)
    /\ Probing => HostSees
FirstSees ==
    /\ \A i \in DOMAIN first : first[i].number \in 1..NPorts[Root]
    /\ Begun /\ ~InFirst => first = <<>>
CallSees ==
    /\ pc \in {"root", "first", "loop", "end"} => JobSees
    /\ pc = "root" => /\ job.path = StartPath /\ stack = <<>> /\ remote = <<>>
                      /\ DOMAIN node_map = IF job.phase = "found" THEN {Root} ELSE {}
    /\ pc = "first" => \E q \in 1..NPorts[Root] : job.path = FirstHopPath(q)
    /\ pc \in {"loop", "end"} => Arrival(Cable, job.path) # Nowhere
    /\ pc = "loop" => IF job.phase = "found" THEN Depth(job.path) < Cardinality(DOMAIN node_map)
                      ELSE ~IsKnown(Arrival(Cable, job.path)[1])
RootSees ==
    Begun => /\ IsKnown(Root)
             /\ \A p \in DOMAIN Cable : p[1] = Root =>
                   \/ pc = "first" /\ Called(Cable[p][1])
                   \/ ToCall(first, Cable[p][1]) \/ IsKnown(Cable[p][1])
DoneSees ==
    Begun => \A p \in DOMAIN Cable : IsKnown(p[1]) /\ p[1] \in Switches =>
                \/ Called(p[1]) \/ ToPush(p) \/ ToProbe(p)
                \/ InQueue(stack, p) \/ IsNext(p) \/ Settled(p, remote)

QuietOK ==
    KnownSees /\ StackSees /\ FirstSees /\ CallSees /\ RootSees /\ LinksSeen(remote) /\ DoneSees
QInv == CutOK /\ (quiet /\ WellWired /\ ~RootIsSwitch => QuietOK)

(* What a node that gets known leaves as it is.                            *)
LEMMA MapGrows ==
    ASSUME UNCHANGED fabric, DOMAIN node_map \subseteq DOMAIN node_map',
           \A n \in DOMAIN node_map : node_map'[n] = node_map[n],
           Cardinality(DOMAIN node_map) \in Nat, Cardinality(DOMAIN node_map') \in Nat,
           Cardinality(DOMAIN node_map) <= Cardinality(DOMAIN node_map')
    PROVE  /\ \A n : IsKnown(n) => IsKnown(n)'
           /\ \A n \in DOMAIN node_map : KnownAt(n) => KnownAt(n)'
           /\ \A path, n : RouteSees(path, n) => RouteSees(path, n)'
           /\ \A port, path : AcrossSees(port, path) => AcrossSees(port, path)'
           /\ \A p, links : Settled(p, links) => Settled(p, links)'
           /\ \A links : LinksSeen(links) => LinksSeen(links)'
<1>1. /\ Cable' = Cable /\ Root' = Root /\ RootIsSwitch' = RootIsSwitch
      /\ \A path : Arrival(Cable, path)' = Arrival(Cable, path)
      /\ \A k : Ball(Cable, k)' = Ball(Cable, k)
      /\ \A path : IsRegular(path)' = IsRegular(path)
      /\ \A path, n : Finds(path, n)' = Finds(path, n)
      /\ \A node, last : IsWhole(node, last)' = IsWhole(node, last)
  BY SameFabric
<1>2. \A n : IsKnown(n) => IsKnown(n)'
  BY DEF IsKnown
<1>3. \A n \in DOMAIN node_map : KnownAt(n) => KnownAt(n)'
  <2> SUFFICES ASSUME NEW n \in DOMAIN node_map, KnownAt(n) PROVE KnownAt(n)'
    OBVIOUS
  <2>1. DistOf(n)' = DistOf(n) /\ node_map'[n] = node_map[n]
    BY DEF DistOf
  <2>2. \A k : Ball(Cable, k)' = Ball(Cable, k)
    BY <1>1
  <2>3. Ball(Cable, DistOf(n))' = Ball(Cable, DistOf(n))
    BY <2>1, <2>2
  <2>4. IsRegular(node_map[n].path)' /\ IsWhole(node_map[n], NPorts[n])'
    BY <1>1, <2>1 DEF KnownAt
  <2> QED BY <1>1, <2>1, <2>3, <2>4 DEF KnownAt
<1>4. PICK before \in Nat : before = Cardinality(DOMAIN node_map)
  OBVIOUS
<1>5. PICK after \in Nat : after = Cardinality(DOMAIN node_map')
  OBVIOUS
<1>6. before <= after
  BY <1>4, <1>5
<1>7. \A path, n : RouteSees(path, n) => RouteSees(path, n)'
  <2> SUFFICES ASSUME NEW path, NEW n, RouteSees(path, n) PROVE RouteSees(path, n)'
    OBVIOUS
  <2>1. /\ IsRegular(path) /\ Finds(path, n) /\ IsKnown(n) /\ n \in Switches
        /\ n \in Ball(Cable, Depth(path)) /\ Depth(path) < before
    BY <1>4 DEF RouteSees
  <2>2. Depth(path) < Cardinality(DOMAIN node_map')
    BY <2>1, <1>5, <1>6, DepthFacts
  <2>3. Ball(Cable, Depth(path))' = Ball(Cable, Depth(path))
    BY <1>1
  <2> QED BY <1>1, <1>2, <2>1, <2>2, <2>3 DEF RouteSees
<1>8. \A port, path : AcrossSees(port, path) => AcrossSees(port, path)'
  <2> SUFFICES ASSUME NEW port, NEW path, AcrossSees(port, path) PROVE AcrossSees(port, path)'
    OBVIOUS
  <2>1. /\ IsRegular(path) /\ IsKnown(port[1]) /\ port[1] \in Switches
        /\ Depth(path) \in 1..before
        /\ Arrival(Cable, path) = IF port \in DOMAIN Cable THEN Cable[port] ELSE Nowhere
        /\ port \in DOMAIN Cable => Cable[port][1] \in Ball(Cable, Depth(path))
    BY <1>4 DEF AcrossSees
  <2>2. Depth(path) \in 1..Cardinality(DOMAIN node_map')
    BY <2>1, <1>5, <1>6
  <2>3. Ball(Cable, Depth(path))' = Ball(Cable, Depth(path))
    BY <1>1
  <2>4. Arrival(Cable, path)' = Arrival(Cable, path)
    BY <1>1
  <2> QED BY <1>1, <1>2, <2>1, <2>2, <2>3, <2>4 DEF AcrossSees
<1>9. \A p, links : Settled(p, links) => Settled(p, links)'
  BY <1>1, <1>2 DEF Settled
<1>10. \A links : LinksSeen(links) => LinksSeen(links)'
  BY <1>1, <1>2 DEF LinksSeen
<1> QED BY <1>2, <1>3, <1>7, <1>8, <1>9, <1>10

(* While no node gets known either nothing that is said changes.           *)
LEMMA SameView ==
    ASSUME UNCHANGED fabric, node_map' = node_map
    PROVE  /\ Cable' = Cable /\ Root' = Root
           /\ \A n : IsKnown(n)' = IsKnown(n)
           /\ \A path, n : RouteSees(path, n)' = RouteSees(path, n)
           /\ \A queue : QueueSees(queue)' = QueueSees(queue)
           /\ \A port, path : AcrossSees(port, path)' = AcrossSees(port, path)
           /\ \A p, links : Settled(p, links)' = Settled(p, links)
           /\ \A links : LinksSeen(links)' = LinksSeen(links)
           /\ \A ports, n : ToCall(ports, n)' = ToCall(ports, n)
           /\ KnownSees' = KnownSees
           /\ \A q : FirstHopPath(q)' = FirstHopPath(q)
<1>1. /\ Cable' = Cable /\ Root' = Root /\ RootIsSwitch' = RootIsSwitch
      /\ \A path : Arrival(Cable, path)' = Arrival(Cable, path)
      /\ \A k : Ball(Cable, k)' = Ball(Cable, k)
      /\ \A path : IsRegular(path)' = IsRegular(path)
      /\ \A path, n : Finds(path, n)' = Finds(path, n)
      /\ \A node, last : IsWhole(node, last)' = IsWhole(node, last)
  BY SameFabric
<1>2. \A n : IsKnown(n)' = IsKnown(n) /\ DistOf(n)' = DistOf(n)
  BY DEF IsKnown, DistOf
<1>3. \A n : KnownAt(n)' = KnownAt(n)
  <2> TAKE n
  <2>1. DistOf(n)' = DistOf(n)
    BY <1>2
  <2>2. Ball(Cable, DistOf(n))' = Ball(Cable, DistOf(n))
    BY <2>1, <1>1
  <2>3. IsRegular(node_map[n].path)' = IsRegular(node_map[n].path)
    BY <1>1
  <2>4. IsWhole(node_map[n], NPorts[n])' = IsWhole(node_map[n], NPorts[n])
    BY <1>1
  <2> QED BY <1>1, <2>1, <2>2, <2>3, <2>4 DEF KnownAt
<1>4. \A path, n : RouteSees(path, n)' = RouteSees(path, n)
  BY <1>1, <1>2 DEF RouteSees
<1>5. \A queue : QueueSees(queue)' = QueueSees(queue)
  BY <1>4 DEF QueueSees
<1>6. \A port, path : AcrossSees(port, path)' = AcrossSees(port, path)
  BY <1>1, <1>2 DEF AcrossSees
<1>7. \A p, links : Settled(p, links)' = Settled(p, links)
  BY <1>1, <1>2 DEF Settled
<1>8. \A links : LinksSeen(links)' = LinksSeen(links)
  BY <1>1, <1>2 DEF LinksSeen
<1>9. \A q : FirstHopPath(q)' = FirstHopPath(q)
  BY <1>1 DEF FirstHopPath
<1>10. \A ports, n : ToCall(ports, n)' = ToCall(ports, n)
  BY <1>1, <1>9 DEF ToCall
<1>11. KnownSees' = KnownSees
  BY <1>3 DEF KnownSees
<1> QED BY <1>1, <1>2, <1>4, <1>5, <1>6, <1>7, <1>8, <1>9, <1>10, <1>11

(* A route to a known switch has room for a hop more where the routes are  *)
(* as long as the fabric has nodes.                                        *)
LEMMA RouteHasRoom ==
    ASSUME MapOK, WellWired, ~RootIsSwitch, NEW path, NEW n, RouteSees(path, n)
    PROVE  /\ HasRoom(path) /\ Depth(path) \in Nat
           /\ Cardinality(DOMAIN node_map) \in Nat /\ Cardinality(DOMAIN node_map) < PathLen
<1>1. IsFiniteSet(Node) /\ DOMAIN node_map \subseteq Node
  BY RouteAssumption DEF MapOK
<1>2. /\ Cardinality(DOMAIN node_map) \in Nat /\ Cardinality(Node) \in Nat
      /\ Cardinality(DOMAIN node_map) <= Cardinality(Node)
  BY <1>1, FS_Subset, FS_CardinalityType
<1>3. Cardinality(Node) < PathLen /\ PathLen \in Nat
  BY RouteAssumption DEF WellWired
<1>4. /\ Depth(path) \in Nat /\ Depth(path) < Cardinality(DOMAIN node_map)
      /\ HasRoom(path) <=> Depth(path) < Farthest
  BY DepthFacts DEF RouteSees, HasRoom
<1>5. Farthest = PathLen - 1
  BY DEF Farthest
<1> QED BY <1>2, <1>3, <1>4, <1>5

(* The route across the port of an entry.                                  *)
LEMMA RouteCrosses ==
    ASSUME FabricOK, MapOK, CutOK, IsCabling(cabling), WellWired, ~RootIsSwitch,
           KnownSees, IsKnown(Root),
           NEW e, EntryOK(e), RouteSees(e.path, e.port[1])
    PROVE  AcrossSees(e.port, RouteAcross(e)) /\ HasRoom(e.path)
<1> DEFINE path == RouteAcross(e)
<1>1. e.port = <<e.port[1], e.port[2]>> /\ e.port[2] \in 1..255
  <2>1. e.port \in Ports
    BY DEF EntryOK, QueueEntry
  <2>2. e.port \in AllPorts /\ e.port[2] # 0
    BY <2>1, PortFacts
  <2> QED BY <2>2, PortFacts
<1>2. /\ IsRegular(e.path) /\ Finds(e.path, e.port[1]) /\ HasRoom(e.path) /\ Depth(e.path) \in Nat
      /\ IsKnown(e.port[1]) /\ e.port[1] \in Switches
      /\ e.port[1] \in Ball(Cable, Depth(e.path)) /\ Depth(e.path) < Cardinality(DOMAIN node_map)
      /\ Cardinality(DOMAIN node_map) \in Nat
  BY RouteHasRoom DEF RouteSees
<1>3. GetHopCount(e.path) + 1 < PathLen
  BY <1>2 DEF HasRoom
<1>5. /\ IsRegular(path) /\ Depth(path) = Depth(e.path) + 1
      /\ Arrival(Cable, path) = Across(Cable, Arrival(Cable, e.path), e.port[2])
  BY <1>1, <1>2, <1>3, DepthAcross DEF RouteAcross
<1> HIDE DEF path
<1>6. Across(Cable, Arrival(Cable, e.path), e.port[2]) =
         IF e.port \in DOMAIN Cable THEN Cable[e.port] ELSE Nowhere
  BY <1>1, <1>2 DEF Across, Finds
<1>7. Depth(path) \in 1..Cardinality(DOMAIN node_map)
  BY <1>2, <1>5
<1>8. ASSUME e.port \in DOMAIN Cable PROVE Cable[e.port][1] \in Ball(Cable, Depth(path))
  <2>1. Depth(path) \in Nat /\ Depth(e.path) < Depth(path)
    BY <1>2, <1>5
  <2> QED BY <1>2, <1>8, <2>1, BallNext
<1>9. AcrossSees(e.port, path)
  BY <1>2, <1>5, <1>6, <1>7, <1>8 DEF AcrossSees
<1> QED BY <1>2, <1>9 DEF path

(* What is pushed for a switch: entries of its own, one for every cabled   *)
(* ring port.                                                              *)
LEMMA RingCovers ==
    ASSUME FabricOK, CutOK, IsCabling(cabling), NEW node, RecordOK(node), NEW path
    PROVE  LET queue == RingEntries(node, path)
           IN  /\ \A k \in DOMAIN queue :
                     queue[k].path = path /\ queue[k].port[1] = node.guid
               /\ \A i \in DOMAIN node.ports : IsRing(node.ports[i]) =>
                     InQueue(queue, <<node.guid, node.ports[i].number>>)
               /\ IsWhole(node, NPorts[node.guid]) =>
                     \A p \in DOMAIN Cable :
                         p[1] = node.guid /\ p[2] \in RingPorts => InQueue(queue, p)
<1> DEFINE n == Len(node.ports)
<1>0. n \in Nat /\ DOMAIN node.ports = 1..n
  BY DEF RecordOK, NodeShape
<1>1. PICK u : /\ RingEntries(node, path) = u[n] /\ u[0] = <<>>
               /\ \A i \in 1..n : u[i] = RingTurn(node, path, i, u[i - 1])
  BY <1>0, RingTurns
<1> HIDE DEF n
<1> DEFINE Own(queue) == \A k \in DOMAIN queue :
                            queue[k].path = path /\ queue[k].port[1] = node.guid
           Has(queue, i) == IsRing(node.ports[i]) =>
                              \E k \in DOMAIN queue :
                                 queue[k].port = <<node.guid, node.ports[i].number>>
           Good(m) == /\ \E len \in Nat : DOMAIN u[m] = 1..len /\ Len(u[m]) = len
                      /\ Own(u[m]) /\ \A i \in 1..m : Has(u[m], i)
           S == {m \in 0..n : Good(m)}
<1>2. 0 \in S
  <2>1. DOMAIN u[0] = 1..0 /\ Len(u[0]) = 0
    BY <1>1
  <2> QED BY <2>1, <1>0
<1>3. ASSUME NEW m \in 0..(n - 1), m \in S PROVE m + 1 \in S
  <2>1. /\ m + 1 \in 1..n /\ m + 1 \in 0..n /\ (m + 1) - 1 = m
        /\ \A i \in 1..(m + 1) : i = m + 1 \/ i \in 1..m
    BY <1>0
  <2>2. PICK old : old = u[m]
    OBVIOUS
  <2>3. PICK new : new = u[m + 1]
    OBVIOUS
  <2>4. new = RingTurn(node, path, m + 1, old)
    BY <1>1, <2>1, <2>2, <2>3
  <2>5. PICK len \in Nat : DOMAIN old = 1..len /\ Len(old) = len
    BY <1>3, <2>2
  <2>6. Own(old) /\ \A i \in 1..m : Has(old, i)
    BY <1>3, <2>2
  <2> HIDE DEF Own, Has
  <2>7. CASE IsRing(node.ports[m + 1])
    <3>1. PICK e : e = Entry(node, path, node.ports[m + 1])
      OBVIOUS
    <3>2. new = <<e>> \o old
      BY <2>4, <2>7, <3>1 DEF RingTurn
    <3>3. /\ DOMAIN new = 1..(len + 1) /\ Len(new) = len + 1 /\ new[1] = e
          /\ \A k \in DOMAIN old : k + 1 \in DOMAIN new /\ new[k + 1] = old[k]
          /\ \A k \in DOMAIN new : k = 1 \/ (k - 1 \in DOMAIN old /\ new[k] = old[k - 1])
      BY <2>5, <3>2
    <3>4. /\ e.path = path /\ e.port = <<node.guid, node.ports[m + 1].number>>
          /\ e.port[1] = node.guid
      BY <3>1 DEF Entry
    <3>5. Own(new)
      BY <2>6, <3>3, <3>4 DEF Own
    <3>6. Has(new, m + 1)
      BY <3>3, <3>4 DEF Has
    <3>7. \A i \in 1..m : Has(new, i)
      <4> SUFFICES ASSUME NEW i \in 1..m, IsRing(node.ports[i])
                   PROVE  \E k \in DOMAIN new : new[k].port = <<node.guid, node.ports[i].number>>
        BY DEF Has
      <4>1. PICK k \in DOMAIN old : old[k].port = <<node.guid, node.ports[i].number>>
        BY <2>6 DEF Has
      <4> QED BY <3>3, <4>1
    <3>8. len + 1 \in Nat
      OBVIOUS
    <3>9. Good(m + 1)
      BY <2>1, <2>3, <3>3, <3>5, <3>6, <3>7, <3>8
    <3> QED BY <2>1, <3>9
  <2>8. CASE ~IsRing(node.ports[m + 1])
    <3>1. new = old
      BY <2>4, <2>8 DEF RingTurn
    <3>2. Has(new, m + 1)
      BY <2>8 DEF Has
    <3>3. Good(m + 1)
      BY <2>1, <2>3, <2>5, <2>6, <3>1, <3>2
    <3> QED BY <2>1, <3>3
  <2> QED BY <2>7, <2>8
<1> HIDE DEF S
<1>4. n \in S
  <2>1. 0..n \subseteq S
    BY <1>0, <1>2, <1>3, IntervalInduction
  <2> QED BY <2>1, <1>0
<1>5. PICK queue : queue = RingEntries(node, path)
  OBVIOUS
<1>6. Own(queue) /\ \A i \in 1..n : Has(queue, i)
  BY <1>1, <1>4, <1>5 DEF S
<1>7. ASSUME IsWhole(node, NPorts[node.guid]), NEW p \in DOMAIN Cable,
             p[1] = node.guid, p[2] \in RingPorts
      PROVE  InQueue(queue, p)
  <2>1. p = <<node.guid, p[2]>> /\ p[2] \in 1..NPorts[node.guid]
    BY <1>7, CablePairs
  <2>2. PICK i \in DOMAIN node.ports : node.ports[i].number = p[2] /\ IsEligible(node.ports[i])
    BY <1>7, <2>1 DEF IsWhole
  <2>3. IsRing(node.ports[i])
    BY <1>7, <2>2 DEF IsRing
  <2> QED BY <1>0, <1>6, <2>1, <2>2, <2>3 DEF InQueue
<1>8. ASSUME NEW i \in DOMAIN node.ports, IsRing(node.ports[i])
      PROVE  InQueue(queue, <<node.guid, node.ports[i].number>>)
  BY <1>0, <1>6, <1>8 DEF InQueue
<1> QED BY <1>5, <1>6, <1>7, <1>8

(* What is to be probed: the ends that are not linked yet.                 *)
LEMMA EndsCover ==
    ASSUME FabricOK, CutOK, IsCabling(cabling), NEW node, RecordOK(node), NEW path, HasRoom(path)
    PROVE  LET queue == EndEntries(node, path)
           IN  /\ \A k \in DOMAIN queue : /\ queue[k].path = path /\ queue[k].port[1] = node.guid
                                          /\ queue[k].port[2] \notin RingPorts
               /\ IsWhole(node, NPorts[node.guid]) =>
                     \A p \in DOMAIN Cable : p[1] = node.guid =>
                         p[2] \in RingPorts \/ InQueue(queue, p) \/ p \in DOMAIN remote
<1> DEFINE indices == {i \in DOMAIN node.ports :
                         /\ IsEnd(node.ports[i])
                         /\ <<node.guid, node.ports[i].number>> \notin DOMAIN remote}
           ports == Kept(node.ports, indices)
           queue == EndEntries(node, path)
<1>1. queue = [k \in DOMAIN ports |-> [port |-> <<node.guid, ports[k].number>>, path |-> path]]
  BY DEF EndEntries, Filter, Entry
<1>2. indices \in SUBSET DOMAIN node.ports /\ node.ports \in Seq(PortRecord)
  BY DEF RecordOK, NodeShape
<1>3. /\ \A i \in indices : IsEnd(node.ports[i])
      /\ \A i \in DOMAIN node.ports :
            \/ i \in indices \/ ~IsEnd(node.ports[i])
            \/ <<node.guid, node.ports[i].number>> \in DOMAIN remote
  OBVIOUS
<1> HIDE DEF indices
<1>4. /\ \A k \in DOMAIN ports : \E i \in indices : ports[k] = node.ports[i]
      /\ \A i \in indices : \E k \in DOMAIN ports : ports[k] = node.ports[i]
  BY <1>2, KeptElements
<1> HIDE DEF ports, queue
<1>5. /\ DOMAIN queue = DOMAIN ports
      /\ \A k \in DOMAIN ports : /\ queue[k].path = path /\ queue[k].port[1] = node.guid
                                 /\ queue[k].port[2] = ports[k].number
                                 /\ queue[k].port = <<node.guid, ports[k].number>>
  BY <1>1
<1>6. \A k \in DOMAIN ports : ports[k].number \notin RingPorts
  BY <1>3, <1>4 DEF IsEnd
<1>7. ASSUME IsWhole(node, NPorts[node.guid]), NEW p \in DOMAIN Cable, p[1] = node.guid
      PROVE  p[2] \in RingPorts \/ InQueue(queue, p) \/ p \in DOMAIN remote
  <2>1. p = <<node.guid, p[2]>> /\ p[2] \in 1..NPorts[node.guid]
    BY <1>7, CablePairs
  <2>2. PICK i \in DOMAIN node.ports : node.ports[i].number = p[2] /\ IsEligible(node.ports[i])
    BY <1>7, <2>1 DEF IsWhole
  <2>3. p[2] \in RingPorts \/ i \in indices \/ p \in DOMAIN remote
    BY <1>3, <2>1, <2>2 DEF IsEnd
  <2>4. ASSUME i \in indices PROVE InQueue(queue, p)
    <3>1. PICK k \in DOMAIN ports : ports[k] = node.ports[i]
      BY <1>4, <2>4
    <3> QED BY <1>5, <2>1, <2>2, <3>1 DEF InQueue
  <2> QED BY <2>3, <2>4
<1> QED BY <1>5, <1>6, <1>7 DEF queue

(* What every step of a discovery in which nothing fails starts from.      *)
World ==
    /\ FabricOK /\ MapOK /\ CutOK /\ IsCabling(cabling)
    /\ WellWired /\ ~RootIsSwitch /\ KnownSees

(* The root's neighbours are known, and what is left of the known switches *)
(* is in the queue.                                                        *)
RootDone == IsKnown(Root) /\ \A p \in DOMAIN Cable : p[1] = Root => IsKnown(Cable[p][1])
LeftIn(queue, links) ==
    \A p \in DOMAIN Cable :
        IsKnown(p[1]) /\ p[1] \in Switches => InQueue(queue, p) \/ Settled(p, links)

(* What is pushed before a queue is part of it.                            *)
LEMMA PushSees ==
    ASSUME NEW more, QueueOK(more), QueueSees(more), NEW queue, QueueOK(queue), QueueSees(queue)
    PROVE  /\ QueueSees(more \o queue)
           /\ \A p : InQueue(more, p) \/ InQueue(queue, p) => InQueue(more \o queue, p)
<1>1. PICK all : all = more \o queue
  OBVIOUS
<1>2. queue \in Seq(QueueEntry) /\ more \in Seq(QueueEntry)
  BY DEF QueueOK
<1>3. /\ \A i \in DOMAIN all : \/ i \in DOMAIN more /\ all[i] = more[i]
                               \/ i - Len(more) \in DOMAIN queue /\ all[i] = queue[i - Len(more)]
      /\ \A i \in DOMAIN more : i \in DOMAIN all /\ all[i] = more[i]
      /\ \A k \in DOMAIN queue : k + Len(more) \in DOMAIN all /\ all[k + Len(more)] = queue[k]
  BY <1>1, <1>2
<1>4. QueueSees(all)
  BY <1>3 DEF QueueSees
<1>5. \A p : InQueue(more, p) \/ InQueue(queue, p) => InQueue(all, p)
  BY <1>3 DEF InQueue
<1> QED BY <1>1, <1>4, <1>5

(* The next port is taken, or the traversal is over: what is skipped is    *)
(* recorded already.                                                       *)
LEMMA TraverseSees ==
    ASSUME World, UNCHANGED fabric, node_map' = node_map,
           NEW queue, QueueOK(queue), QueueSees(queue),
           NEW links, LinksSeen(links), remote' = links, Traverse(queue, links),
           RootDone, LeftIn(queue, links)
    PROVE  QuietOK'
<1> DEFINE open == {i \in DOMAIN queue : IsOpen(queue[i], links)}
<1>0. FabricOK /\ MapOK /\ CutOK /\ IsCabling(cabling) /\ WellWired /\ ~RootIsSwitch /\ KnownSees
  BY DEF World
<1>1. first' = <<>> /\ job' = Idle /\ pc' \in {"done", "probe"}
  BY DEF Traverse
<1>2. Cable' = Cable /\ Root' = Root
  BY SameView
<1>3. KnownSees' /\ LinksSeen(remote)'
  BY <1>0, SameView
<1>4. FirstSees' /\ ~Probing' /\ ~InLoop'
  BY <1>1 DEF FirstSees, Probing, InLoop
<1>5. RootSees'
  <2>1. IsKnown(Root)' /\ \A p \in DOMAIN Cable' : p[1] = Root' => IsKnown(Cable[p][1])'
    BY <1>2, SameView DEF RootDone
  <2> QED BY <2>1 DEF RootSees
<1>6. ASSUME NEW i \in DOMAIN queue, i \notin open, NEW p \in DOMAIN Cable, queue[i].port = p
      PROVE  Settled(p, links)
  <2>1. RouteSees(queue[i].path, p[1])
    BY <1>6 DEF QueueSees
  <2>2. HasRoom(queue[i].path)
    BY <1>0, <2>1, RouteHasRoom
  <2>3. p[2] # 0
    BY <1>0, CablePairs
  <2>4. p \in DOMAIN links
    BY <1>6, <2>2, <2>3 DEF IsOpen
  <2> QED BY <2>4 DEF LinksSeen, Settled
<1>7. CASE open = {}
  <2>1. pc' = "done" /\ stack' = <<>>
    BY <1>7 DEF Traverse
  <2>2. StackSees' /\ CallSees'
    BY <1>4, <2>1 DEF StackSees, QueueSees, CallSees
  <2>3. ASSUME NEW p \in DOMAIN Cable, IsKnown(p[1]), p[1] \in Switches PROVE Settled(p, links)
    <3>1. \A i \in DOMAIN queue : i \notin open
      BY <1>7
    <3> HIDE DEF open
    <3> QED BY <1>6, <2>3, <3>1 DEF InQueue, LeftIn
  <2>4. \A p \in DOMAIN Cable' : IsKnown(p[1])' /\ p[1] \in Switches => Settled(p, remote)'
    <3>1. \A p : IsKnown(p[1])' = IsKnown(p[1]) /\ Settled(p, links)' = Settled(p, links)
      BY SameView
    <3> QED BY <1>2, <2>3, <3>1
  <2>5. DoneSees'
    BY <2>4 DEF DoneSees
  <2> QED BY <1>3, <1>4, <1>5, <2>2, <2>5 DEF QuietOK
<1>8. CASE open # {}
  <2> DEFINE i == Min(open)
             e == queue[i]
  <2>1. /\ pc' = "probe" /\ stack' = SubSeq(queue, i + 1, Len(queue))
        /\ item' = [port |-> e.port, path |-> RouteAcross(e)]
    BY <1>8 DEF Traverse
  <2>2. i \in open /\ \A j \in open : i <= j
    <3>1. open \in SUBSET DOMAIN queue
      OBVIOUS
    <3>2. DOMAIN queue \subseteq Nat
      BY DEF QueueOK
    <3> HIDE DEF open
    <3>3. \E k \in open : \A j \in open : k <= j
      BY <1>8, <3>1, <3>2, LeastNat
    <3> QED BY <3>3 DEF Min
  <2>3. i \in DOMAIN queue /\ i \in Nat
    BY <2>2 DEF QueueOK
  <2> HIDE DEF i
  <2>4. PICK rest : rest = SubSeq(queue, i + 1, Len(queue))
    OBVIOUS
  <2>5. /\ \A j \in DOMAIN rest : j + i \in DOMAIN queue /\ rest[j] = queue[j + i]
        /\ \A j \in DOMAIN queue : i < j => j - i \in DOMAIN rest /\ rest[j - i] = queue[j]
    <3>1. queue \in Seq(QueueEntry)
      BY DEF QueueOK
    <3>2. \A j \in DOMAIN rest : j + i \in DOMAIN queue /\ rest[j] = queue[j + i]
      BY <2>3, <2>4, <3>1, SMTT(30)
    <3>3. \A j \in DOMAIN queue : i < j => j - i \in DOMAIN rest /\ rest[j - i] = queue[j]
      BY <2>3, <2>4, <3>1, SMTT(30)
    <3> QED BY <3>2, <3>3
  <2>6. EntryOK(e) /\ RouteSees(e.path, e.port[1])
    BY <2>3 DEF QueueOK, QueueSees
  <2>7. QueueSees(rest)
    BY <2>5 DEF QueueSees
  <2>8. PICK port : port = e.port
    OBVIOUS
  <2>9. PICK path : path = RouteAcross(e)
    OBVIOUS
  <2>10. AcrossSees(port, path)
    BY <1>0, <2>6, <2>8, <2>9, RouteCrosses DEF RootDone
  <2>11. item'.port = port /\ item'.path = path /\ stack' = rest
    BY <2>1, <2>4, <2>8, <2>9
  <2>12. StackSees'
    <3>1. QueueSees(rest)' /\ AcrossSees(port, path)'
      BY <2>7, <2>10, SameView
    <3>2. QueueSees(stack)' /\ AcrossSees(item.port, item.path)'
      BY <2>11, <3>1
    <3> QED BY <1>4, <2>1, <3>2 DEF StackSees
  <2>13. CallSees'
    BY <2>1 DEF CallSees
  <2>14. ASSUME NEW p \in DOMAIN Cable, IsKnown(p[1]), p[1] \in Switches
         PROVE  InQueue(rest, p) \/ port = p \/ Settled(p, links)
    <3>1. CASE Settled(p, links)
      BY <3>1
    <3>2. ASSUME NEW j \in DOMAIN queue, queue[j].port = p
          PROVE  InQueue(rest, p) \/ port = p \/ Settled(p, links)
      <4>0. j \in Nat
        BY DEF QueueOK
      <4>1. CASE i < j
        BY <4>1, <2>5, <3>2 DEF InQueue
      <4>2. CASE i = j
        BY <4>2, <2>8, <3>2
      <4>3. CASE j < i
        <5>1. j \notin open
          BY <2>2, <2>3, <4>0, <4>3
        <5> QED BY <5>1, <1>6, <2>14, <3>2
      <4> QED BY <4>0, <4>1, <4>2, <4>3, <2>3
    <3> QED BY <3>1, <3>2, <2>14 DEF InQueue, LeftIn
  <2>15. \A p \in DOMAIN Cable' : IsKnown(p[1])' /\ p[1] \in Switches =>
            InQueue(stack', p) \/ item'.port = p \/ Settled(p, remote)'
    <3>1. \A p : IsKnown(p[1])' = IsKnown(p[1]) /\ Settled(p, links)' = Settled(p, links)
      BY SameView
    <3> QED BY <1>2, <2>11, <2>14, <3>1
  <2>16. DoneSees'
    BY <2>1, <2>15 DEF DoneSees, IsNext, InQueue
  <2> QED BY <1>3, <1>4, <1>5, <2>12, <2>13, <2>16 DEF QuietOK
<1> QED BY <1>7, <1>8

(* A cable that is recorded is settled, and what was settled stays so.     *)
LEMMA LinkedSees ==
    ASSUME World, LinksSeen(remote), NEW local \in DOMAIN Cable, IsKnown(local[1]),
           NEW port, port = Cable[local], IsKnown(port[1])
    PROVE  /\ port[2] \in PortNumbers(node_map[port[1]])
           /\ LinksSeen(Linked(local, port)) /\ Settled(local, Linked(local, port))
           /\ \A p : Settled(p, remote) => Settled(p, Linked(local, port))
<1> DEFINE links == Linked(local, port)
<1>0. FabricOK /\ MapOK /\ CutOK /\ IsCabling(cabling) /\ KnownSees
  BY DEF World
<1>2. /\ port \in DOMAIN Cable /\ Cable[port] = local /\ port = <<port[1], port[2]>>
      /\ port[2] \in 1..NPorts[port[1]]
  BY <1>0, CablePairs
<1>3. port[2] \in PortNumbers(node_map[port[1]])
  <2>1. IsWhole(node_map[port[1]], NPorts[port[1]]) /\ node_map[port[1]].guid = port[1]
    BY <1>0 DEF KnownSees, KnownAt, MapOK, IsKnown
  <2>2. <<node_map[port[1]].guid, port[2]>> \in DOMAIN Cable
    BY <1>2, <2>1
  <2>3. \E i \in DOMAIN node_map[port[1]].ports : node_map[port[1]].ports[i].number = port[2]
    BY <1>2, <2>1, <2>2 DEF IsWhole
  <2> QED BY <2>3 DEF PortNumbers
<1>4. DOMAIN links = DOMAIN remote \cup {local, port}
  BY <1>3 DEF Linked, Put
<1> HIDE DEF links
<1>6. LinksSeen(links)
  BY <1>2, <1>4 DEF LinksSeen
<1>7. Settled(local, links)
  BY <1>4 DEF Settled
<1>8. \A p : Settled(p, remote) => Settled(p, links)
  BY <1>4 DEF Settled
<1> QED BY <1>3, <1>6, <1>7, <1>8 DEF links

(* The current port is linked and the traversal goes on: while nothing     *)
(* fails there is a record of the port.                                    *)
LEMMA LinkAndTraverseSees ==
    ASSUME World, UNCHANGED fabric, node_map' = node_map, LinksSeen(remote),
           AcrossSees(item.port, item.path),
           NEW port, port = Arrival(Cable, item.path), port # Nowhere, IsKnown(port[1]),
           NEW queue, QueueOK(queue), QueueSees(queue), LinkAndTraverse(queue, port), RootDone,
           \A p \in DOMAIN Cable : IsKnown(p[1]) /\ p[1] \in Switches =>
               InQueue(queue, p) \/ item.port = p \/ Settled(p, remote)
    PROVE  QuietOK'
<1>1. /\ item.port \in DOMAIN Cable /\ port = Cable[item.port] /\ IsKnown(item.port[1])
  BY DEF AcrossSees
<1>2. PICK links : links = Linked(item.port, port)
  OBVIOUS
<1>3. /\ port[2] \in PortNumbers(node_map[port[1]])
      /\ LinksSeen(links) /\ Settled(item.port, links)
      /\ \A p : Settled(p, remote) => Settled(p, links)
  BY <1>1, <1>2, LinkedSees
<1>4. remote' = links /\ Traverse(queue, links)
  BY <1>2, <1>3 DEF LinkAndTraverse
<1>5. LeftIn(queue, links)
  BY <1>3 DEF LeftIn
<1> QED BY <1>3, <1>4, <1>5, TraverseSees

(* A discovery in which nothing has failed so far.                         *)
Smooth == IInv /\ QuietOK /\ CutOK /\ IsCabling(cabling) /\ WellWired /\ ~RootIsSwitch

(* What that says of the parts.                                            *)
LEMMA SmoothFacts ==
    ASSUME Smooth
    PROVE  /\ World /\ NodeInv /\ FabricOK /\ MapOK /\ JobOK /\ KnownSees
           /\ QueueOK(stack) /\ QueueSees(stack) /\ QueueOK(ends) /\ LinksSeen(remote)
           /\ first \in Seq(PortRecord)
<1>1. NodeInv /\ FabricOK /\ MapOK /\ JobOK
  BY DEF Smooth, IInv, GraphInv, NodeInv
<1>2. QueueOK(stack) /\ QueueOK(ends) /\ first \in Seq(PortRecord)
  BY DEF Smooth, IInv, TraversalOK, ProbingOK
<1>3. KnownSees /\ QueueSees(stack) /\ LinksSeen(remote)
  BY DEF Smooth, QuietOK, StackSees
<1> QED BY <1>1, <1>2, <1>3 DEF Smooth, World

(* What the loop has when it gets an answer.                               *)
LEMMA LoopSees ==
    ASSUME Smooth, pc = "probe" \/ InLoop
    PROVE  /\ AcrossSees(item.port, item.path) /\ RootDone
           /\ \A p \in DOMAIN Cable : IsKnown(p[1]) /\ p[1] \in Switches =>
                 \/ Called(p[1]) \/ ToPush(p) \/ ToProbe(p)
                 \/ InQueue(stack, p) \/ item.port = p \/ Settled(p, remote)
<1>1. AcrossSees(item.port, item.path)
  BY DEF Smooth, QuietOK, StackSees
<1>2. Begun /\ ~InFirst /\ pc # "first"
  BY DEF Begun, InFirst, InLoop, Probing
<1>3. \A n : ~ToCall(first, n)
  <2>1. first = <<>>
    BY <1>2 DEF Smooth, QuietOK, FirstSees
  <2> QED BY <2>1 DEF ToCall
<1>4. RootDone
  BY <1>2, <1>3 DEF Smooth, QuietOK, RootSees, RootDone
<1>5. \A p \in DOMAIN Cable : IsKnown(p[1]) /\ p[1] \in Switches =>
         \/ Called(p[1]) \/ ToPush(p) \/ ToProbe(p)
         \/ InQueue(stack, p) \/ item.port = p \/ Settled(p, remote)
  BY <1>2 DEF Smooth, QuietOK, DoneSees, IsNext
<1> QED BY <1>1, <1>4, <1>5

-----------------------------------------------------------------------------
(* The steps of the loop.                                                 *)

(* The loop's own NodeInfo: the cable is recorded, there is none, or the   *)
(* node is to be discovered.                                               *)
LEMMA ProbeSees == ASSUME Smooth, Probe, quiet' PROVE QuietOK'
<1>1. /\ pc = "probe" /\ UNCHANGED fabric /\ node_map' = node_map
  BY DEF Probe, found
<1>2. PICK port : port = Arrival(Cable, item.path)
  OBVIOUS
<1>3. PICK outcome \in Outcome(item.path) :
         /\ Note(outcome)
         /\ \/ outcome.kind = "Ok" /\ IsKnown(port[1]) /\ LinkAndTraverse(stack, port)
            \/ /\ outcome.kind = "Ok" /\ ~IsKnown(port[1])
               /\ pc' = "loop" /\ job' = Call(item.path)
               /\ UNCHANGED <<remote, switches, hcas, stack, first, item>>
            \/ /\ outcome.kind # "Ok" /\ Traverse(stack, remote) /\ remote' = remote
  BY <1>2 DEF Probe
<1>4. quiet /\ (outcome.kind = "Ok" <=> port # Nowhere)
  BY <1>2, <1>3, QuietOutcome
<1>5. /\ World /\ FabricOK /\ KnownSees /\ QueueOK(stack) /\ QueueSees(stack) /\ LinksSeen(remote)
  BY SmoothFacts
<1>6. /\ AcrossSees(item.port, item.path) /\ RootDone
      /\ \A p \in DOMAIN Cable : IsKnown(p[1]) /\ p[1] \in Switches =>
            InQueue(stack, p) \/ item.port = p \/ Settled(p, remote)
  <2>1. ~Probing /\ pc \notin {"first", "loop"}
    BY <1>1 DEF Probing
  <2> QED BY <1>1, <2>1, LoopSees DEF Called, ToPush, ToProbe
<1>7. CASE IsKnown(port[1]) /\ outcome.kind = "Ok" /\ LinkAndTraverse(stack, port)
  BY <1>1, <1>2, <1>4, <1>5, <1>6, <1>7, LinkAndTraverseSees
<1>8. CASE outcome.kind # "Ok" /\ Traverse(stack, remote) /\ remote' = remote
  <2>1. item.port \notin DOMAIN Cable
    <3>1. port = Nowhere
      BY <1>4, <1>8
    <3>2. \A p \in DOMAIN Cable : Cable[p] # Nowhere
      BY <1>5, CablePairs, PortFacts DEF Smooth
    <3> QED BY <3>1, <3>2, <1>2, <1>6 DEF AcrossSees
  <2>2. LeftIn(stack, remote)
    BY <1>6, <2>1 DEF LeftIn
  <2> QED BY <1>1, <1>5, <1>6, <1>8, <2>2, TraverseSees
<1>9. CASE /\ outcome.kind = "Ok" /\ ~IsKnown(port[1]) /\ pc' = "loop" /\ job' = Call(item.path)
           /\ UNCHANGED <<remote, switches, hcas, stack, first, item>>
  <2>1. /\ remote' = remote /\ stack' = stack /\ first' = first /\ item' = item
        /\ job'.phase = "nodeInfo" /\ job'.path = item.path /\ pc' = "loop"
    BY <1>9 DEF Call
  <2>0. ~Probing' /\ InLoop' /\ Begun'
    BY <2>1 DEF Probing, InLoop, Begun
  <2>2. Cable' = Cable /\ Root' = Root
    BY <1>1, SameView
  <2>3. KnownSees' /\ LinksSeen(remote)'
    <3>1. LinksSeen(remote)' <=> LinksSeen(remote)
      BY <1>1, <2>1, SameView
    <3> QED BY <1>1, <1>5, <3>1, SameView
  <2>4. StackSees'
    <3>1. QueueSees(stack)' /\ AcrossSees(item.port, item.path)'
      BY <1>1, <1>5, <1>6, <2>1, SameView
    <3> QED BY <2>0, <2>1, <3>1 DEF StackSees
  <2>5. FirstSees'
    <3>1. Begun /\ ~InFirst
      BY <1>1 DEF Begun, InFirst, Probing
    <3> QED BY <2>1, <2>2, <3>1 DEF FirstSees, Smooth, QuietOK
  <2>6. CallSees'
    <3>1. JobSees'
      <4>1. \A path : IsRegular(path)' = IsRegular(path)
        BY <1>1, SameFabric
      <4>2. IsRegular(job.path)'
        BY <4>1, <1>6, <2>1 DEF AcrossSees
      <4> QED BY <4>2, <2>1 DEF JobSees
    <3>2. Arrival(Cable, item.path)' = port
      <4>1. \A path : Arrival(Cable, path)' = Arrival(Cable, path)
        BY <1>1, SameFabric
      <4> QED BY <4>1, <1>2, <2>1
    <3>3. Arrival(Cable, job.path)' = port
      BY <2>1, <3>2
    <3>4. ~IsKnown(port[1])'
      BY <1>1, <1>9, SameView
    <3>5. ~IsKnown(Arrival(Cable, job.path)[1])'
      BY <3>3, <3>4
    <3>6. port # Nowhere
      BY <1>4, <1>9
    <3> QED BY <2>1, <3>1, <3>3, <3>5, <3>6 DEF CallSees
  <2>7. RootSees'
    <3>1. \A n : IsKnown(n)' = IsKnown(n)
      BY <1>1, SameView
    <3>2. IsKnown(Root)' /\ \A p \in DOMAIN Cable' : p[1] = Root' => IsKnown(Cable[p][1])'
      BY <1>6, <2>2, <3>1 DEF RootDone
    <3> QED BY <3>2 DEF RootSees
  <2>8. DoneSees'
    <3>1. \A p : IsKnown(p[1])' = IsKnown(p[1])
      BY <1>1, SameView
    <3>2. \A p : Settled(p, remote)' = Settled(p, remote)
      BY <1>1, <2>1, SameView
    <3>3. \A p \in DOMAIN Cable' : IsKnown(p[1])' /\ p[1] \in Switches =>
             InQueue(stack, p)' \/ item'.port = p \/ Settled(p, remote)'
      BY <1>6, <2>1, <2>2, <3>1, <3>2 DEF InQueue
    <3> QED BY <2>0, <2>1, <3>3 DEF DoneSees, IsNext
  <2> QED BY <2>3, <2>4, <2>5, <2>6, <2>7, <2>8 DEF QuietOK
<1> QED BY <1>3, <1>7, <1>8, <1>9

(* The port the loop has learned of is where its route leads.              *)
LEMMA ProbedPort ==
    ASSUME Smooth, InLoop, NEW guid, Finds(item.path, guid)
    PROVE  probed = <<guid, probed[2]>> /\ probed = Arrival(Cable, item.path)
<1>1. probed = Arrival(cabling, item.path) /\ probed # Nowhere
  BY DEF Smooth, IInv, TraversalOK
<1>2. probed = Arrival(Cable, item.path)
  BY <1>1, SmoothFacts, Reached DEF Finds
<1>3. AcrossSees(item.port, item.path)
  BY LoopSees
<1>4. item.port \in DOMAIN Cable /\ probed = Cable[item.port]
  BY <1>1, <1>2, <1>3 DEF AcrossSees
<1>5. probed \in DOMAIN Cable
  BY <1>4, SmoothFacts, CablePairs DEF Smooth
<1>6. probed = <<probed[1], probed[2]>>
  BY <1>5, SmoothFacts, CablePairs DEF Smooth
<1> QED BY <1>2, <1>6 DEF Finds

(* A node that is no switch has been found by the loop.                    *)
LEMMA LoopEndFoundSees == ASSUME Smooth, LoopEndFound, quiet' PROVE QuietOK'
<1>1. /\ pc = "loop" /\ job.phase = "found" /\ UNCHANGED fabric /\ node_map' = node_map
      /\ job.node.guid \notin Switches
      /\ LinkAndTraverse(stack, <<job.node.guid, probed[2]>>)
  BY DEF LoopEndFound, found
<1>2. PICK guid : guid = job.node.guid
  OBVIOUS
<1>3. /\ World /\ FabricOK /\ KnownSees /\ QueueOK(stack) /\ QueueSees(stack) /\ LinksSeen(remote)
      /\ JobOK
  BY SmoothFacts
<1>4. JobSees /\ job.path = item.path /\ InLoop /\ ~Probing
  BY <1>1 DEF Smooth, IInv, TraversalOK, QuietOK, CallSees, InLoop, Probing
<1>5. Finds(item.path, guid) /\ IsKnown(guid)
  BY <1>1, <1>2, <1>3, <1>4 DEF JobSees, JobOK, IsKnown
<1>6. probed = <<guid, probed[2]>> /\ probed = Arrival(Cable, item.path)
  BY <1>4, <1>5, ProbedPort
<1>7. probed # Nowhere /\ probed[1] = guid
  BY <1>5, <1>6 DEF Finds
<1>8. LinkAndTraverse(stack, probed)
  BY <1>1, <1>2, <1>6
<1>9. \A n : Called(n) => n \notin Switches
  BY <1>1, <1>2, <1>4, <1>5 DEF Called, Finds
<1>10. /\ AcrossSees(item.port, item.path) /\ RootDone
       /\ \A p \in DOMAIN Cable : IsKnown(p[1]) /\ p[1] \in Switches =>
             InQueue(stack, p) \/ item.port = p \/ Settled(p, remote)
  BY <1>4, <1>9, LoopSees DEF ToPush, ToProbe
<1> QED BY <1>1, <1>3, <1>5, <1>6, <1>7, <1>8, <1>10, LinkAndTraverseSees

(* What is pushed for the switch whose ends have been probed.              *)
LEMMA HostQueue ==
    ASSUME Smooth, Probing, NEW queue, queue = RingEntries(host.node, host.path) \o stack
    PROVE  /\ QueueOK(queue) /\ QueueSees(queue)
           /\ \A p \in DOMAIN Cable : ToPush(p) \/ InQueue(stack, p) => InQueue(queue, p)
<1>1. /\ RecordOK(host.node) /\ host.node.guid \in DOMAIN node_map
      /\ IsRoute(host.path) /\ LeadsTo(host.path, host.node.guid)
  BY DEF Smooth, IInv, ProbingOK, Probing
<1>2. host.node = node_map[host.node.guid] /\ RouteSees(host.path, host.node.guid)
  BY DEF Smooth, QuietOK, StackSees, HostSees
<1>3. FabricOK /\ QueueOK(stack) /\ QueueSees(stack) /\ KnownSees /\ CutOK /\ IsCabling(cabling)
  BY SmoothFacts DEF Smooth
<1>4. IsWhole(host.node, NPorts[host.node.guid])
  BY <1>1, <1>2, <1>3 DEF KnownSees, KnownAt
<1>5. PICK more : more = RingEntries(host.node, host.path)
  OBVIOUS
<1>6. QueueOK(more)
  BY <1>1, <1>5, RingQueue
<1>7. /\ \A k \in DOMAIN more : more[k].path = host.path /\ more[k].port[1] = host.node.guid
      /\ \A p \in DOMAIN Cable :
            p[1] = host.node.guid /\ p[2] \in RingPorts => InQueue(more, p)
  BY <1>1, <1>3, <1>4, <1>5, RingCovers
<1>8. QueueSees(more)
  BY <1>2, <1>7 DEF QueueSees
<1>9. queue = more \o stack
  BY <1>5
<1>10. QueueOK(queue)
  BY <1>3, <1>6, <1>9, QueueConcat
<1>11. /\ QueueSees(queue)
       /\ \A p : InQueue(more, p) \/ InQueue(stack, p) => InQueue(queue, p)
  BY <1>3, <1>6, <1>8, <1>9, PushSees
<1> QED BY <1>7, <1>10, <1>11 DEF ToPush

(* The ends of a switch that the loop has found have been probed.          *)
LEMMA LoopSwitchDoneSees == ASSUME Smooth, LoopSwitchDone, quiet' PROVE QuietOK'
<1>1. /\ pc = "ends" /\ ends = <<>> /\ host.for = "loop"
      /\ UNCHANGED fabric /\ node_map' = node_map
      /\ LinkAndTraverse(RingEntries(host.node, host.path) \o stack, <<host.node.guid, probed[2]>>)
  BY DEF LoopSwitchDone, found
<1>2. Probing /\ InLoop
  BY <1>1 DEF Probing, InLoop
<1>3. World /\ LinksSeen(remote)
  BY SmoothFacts
<1>4. PICK guid : guid = host.node.guid
  OBVIOUS
<1>5. PICK queue : queue = RingEntries(host.node, host.path) \o stack
  OBVIOUS
<1>6. /\ QueueOK(queue) /\ QueueSees(queue)
      /\ \A p \in DOMAIN Cable : ToPush(p) \/ InQueue(stack, p) => InQueue(queue, p)
  BY <1>2, <1>5, HostQueue
<1>7. Finds(item.path, guid) /\ IsKnown(guid)
  <2>1. host.path = item.path
    BY <1>1 DEF Smooth, IInv, ProbingOK
  <2>2. RouteSees(host.path, guid)
    BY <1>2, <1>4 DEF Smooth, QuietOK, StackSees, HostSees
  <2> QED BY <2>1, <2>2 DEF RouteSees
<1>8. probed = <<guid, probed[2]>> /\ probed = Arrival(Cable, item.path)
  BY <1>2, <1>7, ProbedPort
<1>9. probed # Nowhere /\ probed[1] = guid
  BY <1>7, <1>8 DEF Finds
<1>10. LinkAndTraverse(queue, probed)
  BY <1>1, <1>4, <1>5, <1>8
<1>11. /\ AcrossSees(item.port, item.path) /\ RootDone
       /\ \A p \in DOMAIN Cable : IsKnown(p[1]) /\ p[1] \in Switches =>
             InQueue(queue, p) \/ item.port = p \/ Settled(p, remote)
  <2>1. \A p : ~ToProbe(p) /\ ~Called(p[1])
    BY <1>1 DEF ToProbe, InQueue, Called
  <2> QED BY <1>2, <1>6, <2>1, LoopSees
<1> QED BY <1>1, <1>3, <1>6, <1>7, <1>8, <1>9, <1>10, <1>11, LinkAndTraverseSees

(* The loop's call is not lost while nothing fails.                        *)
LEMMA LoopLostSees == ASSUME Smooth, LoopLost PROVE FALSE
<1>1. pc = "loop" /\ job.phase = "lost"
  BY DEF LoopLost
<1>2. CallSees
  BY DEF Smooth, QuietOK
<1> QED BY <1>1, <1>2 DEF CallSees, JobSees

-----------------------------------------------------------------------------
(* The steps of the first hop.                                            *)

(* A first hop leads across the cable of its port.                         *)
LEMMA FirstHopLeads ==
    ASSUME FabricOK, NEW q \in 1..NPorts[Root]
    PROVE  /\ IsRegular(FirstHopPath(q)) /\ Depth(FirstHopPath(q)) = 1
           /\ Arrival(Cable, FirstHopPath(q)) =
                 IF <<Root, q>> \in DOMAIN Cable THEN Cable[<<Root, q>>] ELSE Nowhere
<1>1. Root \in Node /\ NPorts[Root] \in 1..255 /\ root_port # Nowhere
  <2>1. root_port \in AllPorts
    BY CableFacts
  <2>2. Root \in Node /\ root_port # Nowhere
    BY <2>1, PortFacts DEF Root
  <2> QED BY <2>2, RouteAssumption
<1>2. \A m \in 1..255 : 1..m \subseteq 1..255
  OBVIOUS
<1>3. q \in 1..255
  BY <1>1, <1>2, ZenonT(30)
<1>4. /\ IsRegular(FirstHopPath(q)) /\ Depth(FirstHopPath(q)) = 1
      /\ Arrival(Cable, FirstHopPath(q)) = Across(Cable, root_port, q)
  BY <1>1, <1>3, DepthFirst DEF FirstHopPath
<1> QED BY <1>1, <1>4 DEF Across, Root

(* The first hop goes on: every neighbour of the root is known, or there   *)
(* is a port left by which it will be.                                     *)
LEMMA FirstHopSees ==
    ASSUME World, UNCHANGED fabric, node_map' = node_map,
           NEW ports \in Seq(PortRecord),
           \A i \in DOMAIN ports : ports[i].number \in 1..NPorts[Root],
           NEW queue, QueueOK(queue), QueueSees(queue),
           LinksSeen(remote), remote' = remote, FirstHop(ports, queue), IsKnown(Root),
           \A p \in DOMAIN Cable :
               p[1] = Root => ToCall(ports, Cable[p][1]) \/ IsKnown(Cable[p][1]),
           LeftIn(queue, remote)
    PROVE  QuietOK'
<1>1. CASE ports = <<>>
  <2>1. Traverse(queue, remote)
    BY <1>1 DEF FirstHop
  <2>2. \A n : ~ToCall(ports, n)
    BY <1>1 DEF ToCall
  <2>3. RootDone
    BY <2>2 DEF RootDone
  <2> QED BY <2>1, <2>3, TraverseSees
<1>2. CASE ports # <<>>
  <2>1. /\ pc' = "first" /\ job' = Call(FirstHopPath(Head(ports).number))
        /\ first' = Tail(ports) /\ stack' = queue
    BY <1>2 DEF FirstHop
  <2>0. ~Probing' /\ ~InLoop' /\ InFirst'
    BY <2>1 DEF Probing, InLoop, InFirst
  <2>2. PICK q : q = Head(ports).number
    OBVIOUS
  <2>3. PICK rest : rest = Tail(ports)
    OBVIOUS
  <2>4. /\ 1 \in DOMAIN ports /\ ports[1] = Head(ports)
        /\ \A i \in DOMAIN rest : i + 1 \in DOMAIN ports /\ rest[i] = ports[i + 1]
        /\ \A i \in DOMAIN ports \ {1} : i - 1 \in DOMAIN rest /\ rest[i - 1] = ports[i]
    <3>1. 1 \in DOMAIN ports /\ ports[1] = Head(ports)
      BY <1>2
    <3>2. \A i \in DOMAIN rest : i + 1 \in DOMAIN ports /\ rest[i] = ports[i + 1]
      BY <1>2, <2>3
    <3>3. \A i \in DOMAIN ports \ {1} : i - 1 \in DOMAIN rest /\ rest[i - 1] = ports[i]
      BY <1>2, <2>3, SMTT(30)
    <3> QED BY <3>1, <3>2, <3>3
  <2>5. q \in 1..NPorts[Root]
    <3>1. 1 \in DOMAIN ports /\ q = ports[1].number
      BY <2>2, <2>4, ZenonT(30)
    <3> QED BY <3>1, ZenonT(30)
  <2>7. IsRegular(FirstHopPath(q))
    BY <2>5, FirstHopLeads DEF World
  <2>8. \A n : ToCall(ports, n) => Finds(FirstHopPath(q), n) \/ ToCall(rest, n)
    BY <2>2, <2>4 DEF ToCall
  <2>9. Cable' = Cable /\ Root' = Root /\ FirstHopPath(q)' = FirstHopPath(q)
    BY SameView
  <2>10. job'.phase = "nodeInfo" /\ job'.path = FirstHopPath(q)
    BY <2>1, <2>2 DEF Call
  <2>11. KnownSees' /\ LinksSeen(remote)' /\ QueueSees(stack)'
    BY <2>1, SameView DEF World
  <2>12. StackSees'
    BY <2>0, <2>1, <2>11 DEF StackSees
  <2>13. FirstSees'
    <3>1. ASSUME NEW i \in DOMAIN rest PROVE rest[i].number \in 1..NPorts[Root]
      BY <2>4
    <3> QED BY <2>0, <2>1, <2>3, <2>9, <3>1 DEF FirstSees
  <2>14. CallSees'
    <3>1. JobSees'
      <4>1. \A path : IsRegular(path)' = IsRegular(path)
        BY SameFabric
      <4>2. IsRegular(job.path)'
        BY <4>1, <2>7, <2>10
      <4> QED BY <4>2, <2>10 DEF JobSees
    <3>2. \E k \in 1..NPorts[Root'] : job'.path = FirstHopPath(k)'
      BY <2>5, <2>9, <2>10
    <3> QED BY <2>1, <3>1, <3>2 DEF CallSees
  <2>15. \A n : Finds(FirstHopPath(q), n) => Called(n)'
    <3>1. \A path, n : Finds(path, n)' = Finds(path, n)
      BY SameFabric
    <3> QED BY <2>1, <2>10, <3>1 DEF Called
  <2>16. \A n : ToCall(ports, n) => Called(n)' \/ ToCall(first, n)'
    <3>1. \A n : ToCall(rest, n)' = ToCall(rest, n)
      BY SameView
    <3>2. first' = rest
      BY <2>1, <2>3
    <3>3. \A n : ToCall(first, n)' = ToCall(rest, n)
      BY <3>1, <3>2 DEF ToCall
    <3> QED BY <2>8, <2>15, <3>3
  <2>17. RootSees'
    <3>1. \A n : IsKnown(n)' = IsKnown(n)
      BY SameView
    <3>2. \A p \in DOMAIN Cable' : p[1] = Root' =>
             \/ Called(Cable[p][1])' \/ ToCall(first, Cable[p][1])'
             \/ IsKnown(Cable[p][1])'
      BY <2>9, <2>16, <3>1
    <3> QED BY <2>1, <2>9, <3>1, <3>2 DEF RootSees
  <2>18. DoneSees'
    <3>1. \A p : IsKnown(p[1])' = IsKnown(p[1]) /\ Settled(p, remote)' = Settled(p, remote)
      BY SameView
    <3>2. \A p \in DOMAIN Cable' : IsKnown(p[1])' /\ p[1] \in Switches =>
             InQueue(stack, p)' \/ Settled(p, remote)'
      BY <2>1, <2>9, <3>1 DEF InQueue, LeftIn
    <3> QED BY <3>2 DEF DoneSees
  <2> QED BY <2>11, <2>12, <2>13, <2>14, <2>17, <2>18 DEF QuietOK
<1> QED BY <1>1, <1>2

(* The ports the first hop follows, and how they are all of a node's.      *)
Externals(ports) == {i \in DOMAIN ports : IsExternal(ports[i])}
AreAllOf(ports, guid) ==
    /\ ports \in Seq(PortRecord)
    /\ \A k \in DOMAIN ports : ports[k].number \in 1..NPorts[guid]
    /\ \A p \in DOMAIN Cable : p[1] = guid => \E k \in DOMAIN ports : ports[k].number = p[2]

(* All ports of a record but port 0, and nothing else.                     *)
AreExternals(ports, node) ==
    /\ ports \in Seq(PortRecord)
    /\ \A k \in DOMAIN ports : ports[k].number \in 1..NPorts[node.guid]
    /\ \A i \in DOMAIN node.ports :
          node.ports[i].number # 0 => \E k \in DOMAIN ports : ports[k] = node.ports[i]

(* They are ports of the node, and all that its record has but port 0.     *)
LEMMA ExternalsKept ==
    ASSUME NEW node, RecordOK(node),
           NEW ports, ports = Kept(node.ports, Externals(node.ports))
    PROVE  AreExternals(ports, node)
<1> DEFINE indices == {i \in DOMAIN node.ports : IsExternal(node.ports[i])}
<1>1. indices \in SUBSET DOMAIN node.ports /\ node.ports \in Seq(PortRecord)
  BY DEF RecordOK, NodeShape
<1>2. \A i \in indices : node.ports[i].number # 0 /\ i \in DOMAIN node.ports
  BY DEF IsExternal
<1>3. \A i \in DOMAIN node.ports : IsExternal(node.ports[i]) => i \in indices
  OBVIOUS
<1>4. ports = Kept(node.ports, indices)
  BY DEF Externals
<1> HIDE DEF indices
<1>5. /\ ports \in Seq(PortRecord)
      /\ \A k \in DOMAIN ports : \E i \in indices : ports[k] = node.ports[i]
      /\ \A i \in indices : \E k \in DOMAIN ports : ports[k] = node.ports[i]
  <2>1. ports \in Seq(PortRecord)
    BY <1>1, <1>4, KeptElements
  <2>2. /\ \A k \in DOMAIN ports : \E i \in indices : ports[k] = node.ports[i]
        /\ \A i \in indices : \E k \in DOMAIN ports : ports[k] = node.ports[i]
    <3>1. PICK all \in Seq(PortRecord) : all = node.ports
      BY <1>1
    <3>2. indices \in SUBSET DOMAIN all /\ ports = Kept(all, indices)
      BY <1>1, <1>4, <3>1
    <3>3. /\ \A k \in DOMAIN Kept(all, indices) : \E i \in indices : Kept(all, indices)[k] = all[i]
          /\ \A i \in indices : \E k \in DOMAIN Kept(all, indices) : Kept(all, indices)[k] = all[i]
      BY <3>2, KeptElements
    <3>4. PICK kept : kept = Kept(all, indices)
      OBVIOUS
    <3>5. /\ \A k \in DOMAIN kept : \E i \in indices : kept[k] = all[i]
          /\ \A i \in indices : \E k \in DOMAIN kept : kept[k] = all[i]
      BY <3>3, <3>4
    <3>6. kept = ports
      BY <3>2, <3>4
    <3> QED BY <3>1, <3>5, <3>6
  <2> QED BY <2>1, <2>2
<1>6. ASSUME NEW k \in DOMAIN ports PROVE ports[k].number \in 1..NPorts[node.guid]
  <2>1. PICK i \in indices : ports[k] = node.ports[i]
    BY <1>5, <1>6
  <2>2. node.ports[i].number \in 0..255 /\ node.ports[i].number # 0
    <3>1. node \in NodeShape /\ i \in DOMAIN node.ports
      BY <1>2 DEF RecordOK
    <3>2. node.ports[i].number \in 0..255
      BY <3>1, PortNumberType, Zenon
    <3>3. node.ports[i].number # 0
      BY <1>2, Zenon
    <3> QED BY <3>2, <3>3, Zenon
  <2>3. node.ports[i].number <= NPorts[node.guid]
    BY <1>2 DEF RecordOK
  <2>4. NPorts[node.guid] \in 1..255
    BY RouteAssumption DEF RecordOK, NodeShape
  <2>5. \A a \in 0..255, b \in 1..255 : a # 0 /\ a <= b => a \in 1..b
    OBVIOUS
  <2>6. node.ports[i].number \in 1..NPorts[node.guid]
    BY <2>2, <2>3, <2>4, <2>5, ZenonT(30)
  <2> QED BY <2>1, <2>6, ZenonT(30)
<1>7. ASSUME NEW i \in DOMAIN node.ports, node.ports[i].number # 0
      PROVE  \E k \in DOMAIN ports : ports[k] = node.ports[i]
  <2>1. i \in indices
    BY <1>3, <1>7 DEF IsExternal
  <2> QED BY <2>1, <1>5
<1> QED BY <1>5, <1>6, <1>7 DEF AreExternals

(* They are all of them, if the record of the node has them all.           *)
LEMMA ExternalCovers ==
    ASSUME FabricOK, CutOK, IsCabling(cabling), NEW node, RecordOK(node),
           IsWhole(node, NPorts[node.guid]),
           NEW ports, ports = Kept(node.ports, Externals(node.ports))
    PROVE  AreAllOf(ports, node.guid)
<1>1. /\ ports \in Seq(PortRecord)
      /\ \A k \in DOMAIN ports : ports[k].number \in 1..NPorts[node.guid]
      /\ \A i \in DOMAIN node.ports :
            node.ports[i].number # 0 => \E k \in DOMAIN ports : ports[k] = node.ports[i]
  <2>1. AreExternals(ports, node)
    BY ExternalsKept
  <2> QED BY <2>1 DEF AreExternals
<1>2. ASSUME NEW p \in DOMAIN Cable, p[1] = node.guid
      PROVE  \E k \in DOMAIN ports : ports[k].number = p[2]
  <2>1. p = <<node.guid, p[2]>> /\ p[2] \in 1..NPorts[node.guid] /\ p[2] \in 1..255
    BY <1>2, CablePairs
  <2>2. PICK i \in DOMAIN node.ports : node.ports[i].number = p[2]
    BY <1>2, <2>1 DEF IsWhole
  <2>3. node.ports[i].number # 0
    BY <2>1, <2>2
  <2>4. PICK k \in DOMAIN ports : ports[k] = node.ports[i]
    BY <1>1, <2>3
  <2> QED BY <2>2, <2>4
<1> QED BY <1>1, <1>2 DEF AreAllOf

(* The first node has been found: all of its neighbours will be called for.*)
LEMMA RootFoundSees == ASSUME Smooth, RootFound, quiet' PROVE QuietOK'
<1>1. /\ pc = "root" /\ job.phase = "found" /\ UNCHANGED fabric /\ node_map' = node_map
      /\ remote' = remote /\ FirstHop(Filter(job.node.ports, IsExternal), stack)
  BY DEF RootFound, FirstHop, found
<1>2. QuietOK /\ CutOK /\ JobSees /\ IsCabling(cabling)
  BY <1>1 DEF Smooth, QuietOK, CallSees
<1>3. /\ World /\ NodeInv /\ FabricOK /\ MapOK /\ JobOK /\ KnownSees
      /\ QueueOK(stack) /\ QueueSees(stack) /\ LinksSeen(remote)
  BY SmoothFacts
<1>4. DOMAIN node_map = {Root}
  BY <1>1, <1>2 DEF QuietOK, CallSees
<1>5. job.node.guid = Root /\ job.node = node_map[Root] /\ IsKnown(Root) /\ RecordOK(job.node)
  BY <1>1, <1>2, <1>3, <1>4 DEF JobOK, JobSees, IsKnown
<1>6. IsWhole(job.node, NPorts[Root])
  BY <1>3, <1>4, <1>5 DEF KnownSees, KnownAt
<1>7. PICK ports : ports = Filter(job.node.ports, IsExternal)
  OBVIOUS
<1>12. PICK node : node = job.node
  OBVIOUS
<1>8. /\ ports \in Seq(PortRecord)
      /\ \A i \in DOMAIN ports : ports[i].number \in 1..NPorts[Root]
      /\ \A p \in DOMAIN Cable : p[1] = Root => \E k \in DOMAIN ports : ports[k].number = p[2]
  <2>1. ports = Kept(node.ports, Externals(node.ports))
    BY <1>7, <1>12 DEF Filter, Externals
  <2>2. node.guid = Root /\ RecordOK(node) /\ IsWhole(node, NPorts[node.guid])
    BY <1>5, <1>6, <1>12
  <2>3. AreAllOf(ports, node.guid)
    <3>1. FabricOK /\ CutOK /\ IsCabling(cabling)
      BY <1>2, <1>3
    <3>2. RecordOK(node) /\ IsWhole(node, NPorts[node.guid])
      BY <2>2
    <3> QED BY <2>1, <3>1, <3>2, ExternalCovers, Zenon
  <2>4. AreAllOf(ports, Root)
    BY <2>2, <2>3
  <2> QED BY <2>4 DEF AreAllOf
<1>9. ASSUME NEW p \in DOMAIN Cable, p[1] = Root PROVE ToCall(ports, Cable[p][1])
  <2>1. PICK k \in DOMAIN ports : ports[k].number = p[2]
    BY <1>8, <1>9
  <2>2. p = <<Root, p[2]>> /\ p[2] \in 1..NPorts[Root] /\ Cable[p] # Nowhere
    BY <1>2, <1>3, <1>9, CablePairs, PortFacts
  <2>3. Arrival(Cable, FirstHopPath(p[2])) = Cable[p]
    BY <1>3, <2>2, FirstHopLeads
  <2>4. Finds(FirstHopPath(ports[k].number), Cable[p][1])
    BY <2>1, <2>2, <2>3 DEF Finds
  <2> QED BY <2>4 DEF ToCall
<1>10. LeftIn(stack, remote)
  <2>1. Root \notin Switches
    BY DEF Smooth, RootIsSwitch
  <2> QED BY <2>1, <1>4 DEF LeftIn, IsKnown
<1>11. FirstHop(ports, stack)
  BY <1>1, <1>7
<1> QED BY <1>1, <1>3, <1>5, <1>8, <1>9, <1>10, <1>11, FirstHopSees

(* The first node answers while nothing fails.                             *)
LEMMA RootLostSees == ASSUME Smooth, RootLost PROVE FALSE
<1>1. pc = "root" /\ job.phase = "lost" /\ FabricOK
  BY SmoothFacts DEF RootLost
<1>2. job.path = StartPath /\ Arrival(Cable, job.path) = Nowhere
  BY <1>1 DEF Smooth, QuietOK, CallSees, JobSees
<1>3. Arrival(Cable, StartPath) = root_port
  BY StartRoute
<1>4. root_port # Nowhere
  BY <1>1, CableFacts, PortFacts
<1> QED BY <1>2, <1>3, <1>4

(* What the first hop has when a call returns.                             *)
LEMMA FirstPhase ==
    ASSUME Smooth, InFirst
    PROVE  /\ IsKnown(Root)
           /\ \A i \in DOMAIN first : first[i].number \in 1..NPorts[Root]
           /\ \A p \in DOMAIN Cable : p[1] = Root =>
                 \/ Called(Cable[p][1]) \/ ToCall(first, Cable[p][1]) \/ IsKnown(Cable[p][1])
           /\ \A p \in DOMAIN Cable : IsKnown(p[1]) /\ p[1] \in Switches =>
                 \/ Called(p[1]) \/ ToPush(p) \/ ToProbe(p)
                 \/ InQueue(stack, p) \/ Settled(p, remote)
<1>1. Begun /\ ~InLoop /\ pc # "probe"
  BY DEF InFirst, Begun, InLoop, Probing
<1>2. \A i \in DOMAIN first : first[i].number \in 1..NPorts[Root]
  BY DEF Smooth, QuietOK, FirstSees
<1>3. /\ IsKnown(Root)
      /\ \A p \in DOMAIN Cable : p[1] = Root =>
            \/ Called(Cable[p][1]) \/ ToCall(first, Cable[p][1]) \/ IsKnown(Cable[p][1])
  BY <1>1 DEF Smooth, QuietOK, RootSees
<1>4. \A p \in DOMAIN Cable : IsKnown(p[1]) /\ p[1] \in Switches =>
         \/ Called(p[1]) \/ ToPush(p) \/ ToProbe(p)
         \/ InQueue(stack, p) \/ Settled(p, remote)
  BY <1>1 DEF Smooth, QuietOK, DoneSees, IsNext
<1> QED BY <1>2, <1>3, <1>4

(* There is no neighbour behind a port, or one that is no switch.          *)
LEMMA FirstOtherSees == ASSUME Smooth, FirstOther, quiet' PROVE QuietOK'
<1>1. /\ pc = "first" /\ UNCHANGED fabric /\ node_map' = node_map
      /\ job.phase = "lost" \/ (job.phase = "found" /\ job.node.guid \notin Switches)
      /\ remote' = remote /\ FirstHop(first, stack)
  BY DEF FirstOther, FirstHop, found
<1>2. JobSees
  BY <1>1 DEF Smooth, QuietOK, CallSees
<1>3. /\ World /\ QueueOK(stack) /\ QueueSees(stack) /\ LinksSeen(remote) /\ JobOK
      /\ first \in Seq(PortRecord)
  BY SmoothFacts
<1>4. \A n : Called(n) => IsKnown(n) /\ n \notin Switches
  BY <1>1, <1>2, <1>3 DEF Called, JobSees, JobOK, Finds, IsKnown
<1>5. InFirst /\ \A p : ~ToPush(p) /\ ~ToProbe(p)
  BY <1>1 DEF InFirst, ToPush, ToProbe, Probing
<1>6. /\ IsKnown(Root)
      /\ \A i \in DOMAIN first : first[i].number \in 1..NPorts[Root]
      /\ \A p \in DOMAIN Cable :
            p[1] = Root => ToCall(first, Cable[p][1]) \/ IsKnown(Cable[p][1])
  BY <1>4, <1>5, FirstPhase
<1>7. LeftIn(stack, remote)
  BY <1>4, <1>5, FirstPhase DEF LeftIn
<1> QED BY <1>1, <1>3, <1>6, <1>7, FirstHopSees

(* The ends of a neighbour that is a switch have been probed.              *)
LEMMA FirstSwitchDoneSees == ASSUME Smooth, FirstSwitchDone, quiet' PROVE QuietOK'
<1>1. /\ pc = "ends" /\ ends = <<>> /\ host.for = "first"
      /\ UNCHANGED fabric /\ node_map' = node_map /\ remote' = remote
      /\ FirstHop(first, RingEntries(host.node, host.path) \o stack)
  BY DEF FirstSwitchDone, FirstHop, found
<1>2. Probing /\ InFirst /\ \A n : ~Called(n)
  BY <1>1 DEF Probing, InFirst, Called
<1>3. /\ World /\ LinksSeen(remote) /\ first \in Seq(PortRecord)
  BY SmoothFacts
<1>4. PICK queue : queue = RingEntries(host.node, host.path) \o stack
  OBVIOUS
<1>5. /\ QueueOK(queue) /\ QueueSees(queue)
      /\ \A p \in DOMAIN Cable : ToPush(p) \/ InQueue(stack, p) => InQueue(queue, p)
  BY <1>2, <1>4, HostQueue
<1>6. /\ IsKnown(Root)
      /\ \A i \in DOMAIN first : first[i].number \in 1..NPorts[Root]
      /\ \A p \in DOMAIN Cable :
            p[1] = Root => ToCall(first, Cable[p][1]) \/ IsKnown(Cable[p][1])
  BY <1>2, FirstPhase
<1>7. LeftIn(queue, remote)
  <2>1. \A p : ~ToProbe(p)
    BY <1>1 DEF ToProbe, InQueue
  <2> QED BY <1>2, <1>5, <2>1, FirstPhase DEF LeftIn
<1>8. FirstHop(first, queue)
  BY <1>1, <1>4
<1> QED BY <1>1, <1>3, <1>5, <1>6, <1>7, <1>8, FirstHopSees

-----------------------------------------------------------------------------
(* The steps of the probing of ends.                                      *)

(* Two nodes that are known make two.                                      *)
LEMMA TwoKnown ==
    ASSUME MapOK, NEW m, NEW n, IsKnown(m), IsKnown(n), m # n
    PROVE  1 < Cardinality(DOMAIN node_map)
<1> DEFINE S == DOMAIN node_map
<1>1. IsFiniteSet(S)
  <2>1. IsFiniteSet(Node) /\ S \subseteq Node
    BY RouteAssumption DEF MapOK
  <2> QED BY <2>1, FS_Subset
<1>2. m \in S /\ n \in S
  BY DEF IsKnown
<1> HIDE DEF S
<1>3. /\ IsFiniteSet(S \ {n}) /\ Cardinality(S \ {n}) = Cardinality(S) - 1
      /\ Cardinality(S) \in Nat /\ Cardinality(S \ {n}) \in Nat
  BY <1>1, <1>2, FS_RemoveElement, FS_CardinalityType
<1>4. Cardinality(S \ {n}) # 0
  BY <1>2, <1>3, FS_EmptySet
<1>5. 1 < Cardinality(S)
  BY <1>3, <1>4
<1> QED BY <1>5 DEF S

(* A switch that has been found is within reach, by a route with room for  *)
(* a hop more.                                                             *)
LEMMA SwitchSees ==
    ASSUME Smooth, pc \in {"first", "loop"}, job.phase = "found",
           NEW guid, guid = job.node.guid, guid \in Switches
    PROVE  /\ RouteSees(job.path, guid) /\ job.node = node_map[guid] /\ RecordOK(job.node)
           /\ IsWhole(job.node, NPorts[guid])
<1>1. JobSees /\ CallSees
  BY DEF Smooth, QuietOK, CallSees
<1>2. FabricOK /\ MapOK /\ JobOK /\ KnownSees
  BY SmoothFacts
<1>3. IsRegular(job.path) /\ Finds(job.path, guid) /\ job.node = node_map[guid]
  BY <1>1 DEF JobSees
<1>4. IsKnown(guid) /\ RecordOK(job.node)
  BY <1>2 DEF JobOK, IsKnown
<1>5. IsWhole(job.node, NPorts[guid])
  BY <1>2, <1>3, <1>4 DEF KnownSees, KnownAt, IsKnown
<1>6. CASE pc = "loop"
  <2>1. job.path = item.path /\ InLoop
    BY <1>6 DEF Smooth, IInv, TraversalOK, InLoop
  <2>2. AcrossSees(item.port, item.path)
    BY <2>1, LoopSees
  <2>3. guid \in Ball(Cable, Depth(job.path))
    BY <1>3, <2>1, <2>2 DEF AcrossSees, Finds
  <2>4. Depth(job.path) < Cardinality(DOMAIN node_map)
    BY <1>1, <1>6 DEF CallSees
  <2> QED BY <1>3, <1>4, <1>5, <2>3, <2>4 DEF RouteSees
<1>7. CASE pc = "first"
  <2>1. PICK q \in 1..NPorts[Root] : job.path = FirstHopPath(q)
    BY <1>1, <1>7 DEF CallSees
  <2>2. PICK p : p = <<Root, q>>
    OBVIOUS
  <2>3. /\ Depth(job.path) = 1
        /\ Arrival(Cable, job.path) = IF p \in DOMAIN Cable THEN Cable[p] ELSE Nowhere
    BY <1>2, <2>1, <2>2, FirstHopLeads
  <2>4. p \in DOMAIN Cable /\ p[1] = Root /\ Cable[p][1] = guid
    BY <1>3, <2>2, <2>3 DEF Finds
  <2>5. Root \in Ball(Cable, 0)
    BY BallSteps
  <2>6. 0 \in Nat /\ 1 \in Nat /\ 0 < 1
    OBVIOUS
  <2>7. Cable[p][1] \in Ball(Cable, 1)
    BY <2>4, <2>5, <2>6, BallNext
  <2>8. IsKnown(Root) /\ Root # guid
    BY <1>7 DEF Smooth, QuietOK, RootSees, Begun, RootIsSwitch
  <2>9. 1 < Cardinality(DOMAIN node_map)
    BY <1>2, <1>4, <2>8, TwoKnown
  <2> QED BY <1>3, <1>4, <1>5, <2>3, <2>4, <2>7, <2>9 DEF RouteSees
<1> QED BY <1>6, <1>7

(* A switch has been found: its ends are to be probed.                     *)
LEMMA SwitchFoundSees ==
    ASSUME Smooth, LoopSwitchFound \/ FirstSwitchFound, quiet' PROVE QuietOK'
<1>1. /\ UNCHANGED fabric /\ node_map' = node_map /\ remote' = remote
      /\ stack' = stack /\ first' = first /\ item' = item
      /\ pc' = "ends" /\ ends' = EndEntries(job.node, job.path)
      /\ job.phase = "found" /\ job.node.guid \in Switches
      /\ host'.node = job.node /\ host'.path = job.path
      /\ \/ pc = "loop" /\ host'.for = "loop"
         \/ pc = "first" /\ host'.for = "first"
  BY DEF LoopSwitchFound, FirstSwitchFound, ProbeEndsOf, graph, found
<1>2. PICK guid : guid = job.node.guid
  OBVIOUS
<1>3. PICK path : path = job.path
  OBVIOUS
<1>4. PICK node : node = job.node
  OBVIOUS
<1>5. /\ RouteSees(path, guid) /\ node = node_map[guid] /\ RecordOK(node) /\ node.guid = guid
      /\ IsWhole(node, NPorts[guid])
  BY <1>1, <1>2, <1>3, <1>4, SwitchSees
<1>6. MapOK /\ FabricOK /\ QueueSees(stack) /\ LinksSeen(remote) /\ CutOK /\ IsCabling(cabling)
  BY SmoothFacts DEF Smooth
<1>7. HasRoom(path)
  BY <1>5, <1>6, RouteHasRoom DEF Smooth
<1>8. PICK queue : queue = EndEntries(node, path)
  OBVIOUS
<1>9. /\ \A k \in DOMAIN queue : /\ queue[k].path = path /\ queue[k].port[1] = guid
                                 /\ queue[k].port[2] \notin RingPorts
      /\ \A p \in DOMAIN Cable : p[1] = guid =>
            p[2] \in RingPorts \/ InQueue(queue, p) \/ p \in DOMAIN remote
  BY <1>5, <1>6, <1>7, <1>8, EndsCover
<1>10. ends' = queue /\ host'.node = node /\ host'.path = path /\ host'.node.guid = guid
  BY <1>1, <1>3, <1>4, <1>5, <1>8
<1>11. Cable' = Cable /\ Root' = Root
  BY <1>1, SameView
<1>12. ~Probing /\ Probing' /\ Begun' /\ Begun
  BY <1>1 DEF Probing, Begun
<1>13. (InFirst' <=> InFirst) /\ (InLoop' <=> InLoop)
  BY <1>1 DEF InFirst, InLoop, Probing
<1>14. KnownSees' /\ LinksSeen(remote)'
  <2>1. LinksSeen(remote)' <=> LinksSeen(remote)
    BY <1>1, SameView
  <2>2. KnownSees' <=> KnownSees
    BY <1>1, SameView
  <2> QED BY <1>6, <2>1, <2>2, SmoothFacts
<1>15. HostSees'
  <2>1. RouteSees(path, guid)'
    BY <1>1, <1>5, SameView
  <2>2. EndsSee(queue)'
    BY <1>9, <1>10 DEF EndsSee
  <2>3. EndsSee(ends)' /\ RouteSees(host.path, host.node.guid)'
    BY <1>10, <2>1, <2>2
  <2> QED BY <1>1, <1>5, <1>10, <2>3 DEF HostSees
<1>16. StackSees'
  <2>1. QueueSees(stack)' <=> QueueSees(stack)
    BY <1>1, SameView
  <2>2. AcrossSees(item.port, item.path)' <=> AcrossSees(item.port, item.path)
    BY <1>1, SameView
  <2> QED BY <1>1, <1>6, <1>13, <1>15, <2>1, <2>2 DEF StackSees, Smooth, QuietOK
<1>17. FirstSees'
  BY <1>1, <1>11, <1>12, <1>13 DEF FirstSees, Smooth, QuietOK
<1>18. CallSees'
  BY <1>1 DEF CallSees
<1>19. \A n : Called(n) => n = guid
  BY <1>3, <1>5 DEF Called, RouteSees, Finds
<1>20. RootSees'
  <2>1. \A n : IsKnown(n)' = IsKnown(n) /\ ToCall(first, n)' = ToCall(first, n)
    BY <1>1, SameView
  <2>2. IsKnown(guid)
    BY <1>5 DEF RouteSees
  <2>3. /\ IsKnown(Root)
        /\ \A p \in DOMAIN Cable :
              p[1] = Root => ToCall(first, Cable[p][1]) \/ IsKnown(Cable[p][1])
    BY <1>12, <1>19, <2>2 DEF RootSees, Smooth, QuietOK
  <2> QED BY <1>11, <2>1, <2>3 DEF RootSees
<1>21. DoneSees'
  <2>1. \A n : IsKnown(n)' = IsKnown(n)
    BY <1>1, SameView
  <2>2. \A p : Settled(p, remote)' = Settled(p, remote)
    BY <1>1, SameView
  <2>3. ASSUME NEW p \in DOMAIN Cable, IsKnown(p[1]), p[1] \in Switches
        PROVE  ToPush(p)' \/ ToProbe(p)' \/ InQueue(stack, p)' \/ IsNext(p)' \/ Settled(p, remote)
    <3>1. CASE p[1] = guid
      <4>1. CASE p[2] \in RingPorts
        BY <1>10, <1>12, <3>1, <4>1 DEF ToPush
      <4>2. CASE InQueue(queue, p)
        BY <1>10, <1>12, <4>2 DEF ToProbe, InQueue
      <4>3. CASE p \in DOMAIN remote
        BY <1>6, <4>3 DEF LinksSeen, Settled
      <4> QED BY <1>9, <3>1, <4>1, <4>2, <4>3
    <3>2. CASE p[1] # guid
      <4>1. InQueue(stack, p) \/ IsNext(p) \/ Settled(p, remote)
        BY <1>12, <1>19, <2>3, <3>2 DEF Smooth, QuietOK, DoneSees, ToPush, ToProbe
      <4>2. IsNext(p) => IsNext(p)'
        BY <1>1, <1>13 DEF IsNext
      <4>3. InQueue(stack, p) => InQueue(stack, p)'
        BY <1>1 DEF InQueue
      <4> QED BY <4>1, <4>2, <4>3
    <3> QED BY <3>1, <3>2
  <2> QED BY <1>11, <2>1, <2>2, <2>3 DEF DoneSees
<1> QED BY <1>14, <1>16, <1>17, <1>18, <1>20, <1>21 DEF QuietOK

(* An end has been dealt with: it is linked, or has no cable.              *)
LEMMA EndsGoOn ==
    ASSUME Smooth, Probing, ends # <<>>, UNCHANGED fabric, node_map' = node_map,
           pc' = "ends", ends' = Tail(ends), UNCHANGED <<stack, first, item, host>>,
           NEW links, remote' = links, LinksSeen(links),
           \A p : Settled(p, remote) => Settled(p, links),
           Head(ends).port \in DOMAIN Cable => Settled(Head(ends).port, links)
    PROVE  QuietOK'
<1>1. stack' = stack /\ first' = first /\ item' = item /\ host' = host
  OBVIOUS
<1>2. PICK rest : rest = Tail(ends)
  OBVIOUS
<1>3. /\ 1 \in DOMAIN ends /\ Head(ends) = ends[1]
      /\ \A i \in DOMAIN rest : i + 1 \in DOMAIN ends /\ rest[i] = ends[i + 1]
      /\ \A i \in DOMAIN ends \ {1} : i - 1 \in DOMAIN rest /\ rest[i - 1] = ends[i]
  <2>1. ends \in Seq(QueueEntry)
    BY SmoothFacts DEF QueueOK
  <2>2. 1 \in DOMAIN ends /\ Head(ends) = ends[1]
    BY <2>1
  <2>3. \A i \in DOMAIN rest : i + 1 \in DOMAIN ends /\ rest[i] = ends[i + 1]
    BY <1>2, <2>1
  <2>4. \A i \in DOMAIN ends \ {1} : i - 1 \in DOMAIN rest /\ rest[i - 1] = ends[i]
    BY <1>2, <2>1, SMTT(30)
  <2> QED BY <2>2, <2>3, <2>4
<1>4. Cable' = Cable /\ Root' = Root
  BY SameView
<1>5. Probing' /\ Begun' /\ Begun /\ pc # "probe" /\ \A n : ~Called(n)
  BY DEF Probing, Begun, Called
<1>6. (InFirst' <=> InFirst) /\ (InLoop' <=> InLoop)
  BY <1>1 DEF InFirst, InLoop, Probing
<1>7. KnownSees' /\ LinksSeen(remote)'
  BY SameView, SmoothFacts
<1>8. HostSees /\ QueueSees(stack)
  BY SmoothFacts DEF Smooth, QuietOK, StackSees
<1>9. HostSees'
  <2>1. \A path, n : RouteSees(path, n)' = RouteSees(path, n)
    BY SameView
  <2>2. PICK path : path = host.path
    OBVIOUS
  <2>3. PICK guid : guid = host.node.guid
    OBVIOUS
  <2>4. RouteSees(path, guid) /\ RouteSees(path, guid)'
    BY <1>8, <2>1, <2>2, <2>3 DEF HostSees
  <2>5. host'.path = path /\ host'.node.guid = guid
    BY <1>1, <2>2, <2>3
  <2>6. RouteSees(host.path, host.node.guid)'
    BY <2>4, <2>5
  <2>7. \A i \in DOMAIN rest : /\ rest[i].port[1] = guid /\ rest[i].path = path
                               /\ rest[i].port[2] \notin RingPorts
    BY <1>3, <1>8, <2>2, <2>3 DEF HostSees, EndsSee
  <2>8. EndsSee(ends)'
    BY <1>2, <2>5, <2>7 DEF EndsSee
  <2> QED BY <1>1, <1>8, <2>6, <2>8 DEF HostSees
<1>10. StackSees'
  <2>1. QueueSees(stack)' <=> QueueSees(stack)
    BY <1>1, SameView
  <2>2. AcrossSees(item.port, item.path)' <=> AcrossSees(item.port, item.path)
    BY <1>1, SameView
  <2> QED BY <1>6, <1>8, <1>9, <2>1, <2>2 DEF StackSees, Smooth, QuietOK
<1>11. FirstSees'
  BY <1>1, <1>4, <1>5, <1>6 DEF FirstSees, Smooth, QuietOK
<1>12. CallSees'
  BY DEF CallSees
<1>13. RootSees'
  <2>1. \A n : IsKnown(n)' = IsKnown(n) /\ ToCall(first, n)' = ToCall(first, n)
    BY <1>1, SameView
  <2>2. /\ IsKnown(Root)
        /\ \A p \in DOMAIN Cable :
              p[1] = Root => ToCall(first, Cable[p][1]) \/ IsKnown(Cable[p][1])
    BY <1>5 DEF RootSees, Smooth, QuietOK
  <2> QED BY <1>4, <2>1, <2>2 DEF RootSees
<1>14. DoneSees'
  <2>1. /\ \A n : IsKnown(n)' = IsKnown(n)
        /\ \A p : Settled(p, links)' = Settled(p, links)
    BY SameView
  <2>2. ASSUME NEW p \in DOMAIN Cable, IsKnown(p[1]), p[1] \in Switches
        PROVE  ToPush(p)' \/ ToProbe(p)' \/ InQueue(stack, p)' \/ IsNext(p)' \/ Settled(p, links)
    <3>1. ToPush(p) \/ ToProbe(p) \/ InQueue(stack, p) \/ IsNext(p) \/ Settled(p, links)
      BY <1>5, <2>2 DEF Smooth, QuietOK, DoneSees
    <3>2. ToProbe(p) => ToProbe(p)' \/ Settled(p, links)
      <4> SUFFICES ASSUME NEW i \in DOMAIN ends, ends[i].port = p
                   PROVE  ToProbe(p)' \/ Settled(p, links)
        BY DEF ToProbe, InQueue
      <4>1. CASE i = 1
        BY <1>3, <4>1
      <4>2. CASE i # 1
        BY <1>2, <1>3, <1>5, <4>2 DEF ToProbe, InQueue
      <4> QED BY <4>1, <4>2
    <3>3. ToPush(p) => ToPush(p)'
      BY <1>1, <1>5 DEF ToPush
    <3>4. IsNext(p) => IsNext(p)'
      BY <1>1, <1>5, <1>6 DEF IsNext
    <3>5. InQueue(stack, p) => InQueue(stack, p)'
      BY <1>1 DEF InQueue
    <3> QED BY <3>1, <3>2, <3>3, <3>4, <3>5
  <2> QED BY <1>4, <2>1, <2>2 DEF DoneSees
<1> QED BY <1>7, <1>10, <1>11, <1>12, <1>13, <1>14 DEF QuietOK

(* The end that is probed.                                                 *)
LEMMA HeadSees ==
    ASSUME Smooth, Probing, ends # <<>>
    PROVE  /\ AcrossSees(Head(ends).port, RouteAcross(Head(ends)))
           /\ Head(ends).port[2] \notin RingPorts
<1>1. 1 \in DOMAIN ends /\ Head(ends) = ends[1] /\ EntryOK(ends[1])
  <2>1. ends \in Seq(QueueEntry)
    BY SmoothFacts DEF QueueOK
  <2>2. 1 \in DOMAIN ends /\ Head(ends) = ends[1]
    BY <2>1
  <2> QED BY <2>2, SmoothFacts DEF QueueOK
<1>2. PICK e : e = Head(ends)
  OBVIOUS
<1>3. HostSees /\ IsKnown(Root)
  BY DEF Smooth, QuietOK, StackSees, RootSees, Probing, Begun
<1>4. EntryOK(e) /\ RouteSees(e.path, e.port[1]) /\ e.port[2] \notin RingPorts
  BY <1>1, <1>2, <1>3 DEF HostSees, EndsSee
<1>5. AcrossSees(e.port, RouteAcross(e))
  BY <1>3, <1>4, SmoothFacts, RouteCrosses DEF Smooth
<1> QED BY <1>2, <1>4, <1>5

(* The NodeInfo across an end: the cable is recorded, there is none, or    *)
(* the node is to be discovered.                                           *)
LEMMA ProbeEndSees == ASSUME Smooth, ProbeEnd, quiet' PROVE QuietOK'
<1>1. /\ pc = "ends" /\ ends # <<>> /\ UNCHANGED fabric /\ node_map' = node_map
      /\ UNCHANGED <<stack, first, item, host>>
  BY DEF ProbeEnd, found
<1>2. PICK path : path = RouteAcross(Head(ends))
  OBVIOUS
<1>3. PICK local : local = Head(ends).port
  OBVIOUS
<1>4. PICK port : port = Arrival(Cable, path)
  OBVIOUS
<1>5. PICK outcome \in Outcome(path) :
         /\ Note(outcome)
         /\ \/ /\ outcome.kind = "Ok" /\ IsKnown(port[1])
               /\ remote' = Linked(local, port)
               /\ ends' = Tail(ends) /\ pc' = pc
            \/ /\ outcome.kind = "Ok" /\ ~IsKnown(port[1])
               /\ pc' = "end" /\ job' = Call(path)
               /\ remote' = remote /\ ends' = ends
            \/ /\ outcome.kind # "Ok"
               /\ ends' = Tail(ends) /\ pc' = pc /\ remote' = remote
  BY <1>2, <1>3, <1>4 DEF ProbeEnd
<1>6. quiet /\ (outcome.kind = "Ok" <=> port # Nowhere)
  BY <1>4, <1>5, QuietOutcome
<1>7. Probing
  BY <1>1 DEF Probing
<1>8. AcrossSees(local, path) /\ World /\ FabricOK /\ LinksSeen(remote)
  BY <1>1, <1>2, <1>3, <1>7, HeadSees, SmoothFacts
<1>9. CASE /\ outcome.kind = "Ok" /\ IsKnown(port[1]) /\ remote' = Linked(local, port)
           /\ ends' = Tail(ends) /\ pc' = pc
  <2>1. PICK links : links = Linked(local, port)
    OBVIOUS
  <2>2. local \in DOMAIN Cable /\ port = Cable[local] /\ IsKnown(local[1])
    BY <1>4, <1>6, <1>8, <1>9 DEF AcrossSees
  <2>3. /\ LinksSeen(links) /\ Settled(local, links)
        /\ \A p : Settled(p, remote) => Settled(p, links)
    BY <1>8, <1>9, <2>1, <2>2, LinkedSees
  <2> QED BY <1>1, <1>3, <1>7, <1>9, <2>1, <2>3, EndsGoOn
<1>10. CASE outcome.kind # "Ok" /\ ends' = Tail(ends) /\ pc' = pc /\ remote' = remote
  <2>1. local \notin DOMAIN Cable
    <3>1. port = Nowhere
      BY <1>6, <1>10
    <3>2. \A p \in DOMAIN Cable : Cable[p] # Nowhere
      BY <1>8, CablePairs, PortFacts DEF Smooth
    <3> QED BY <3>1, <3>2, <1>4, <1>8 DEF AcrossSees
  <2> QED BY <1>1, <1>3, <1>7, <1>8, <1>10, <2>1, EndsGoOn
<1>11. CASE /\ outcome.kind = "Ok" /\ ~IsKnown(port[1]) /\ pc' = "end" /\ job' = Call(path)
            /\ remote' = remote /\ ends' = ends
  <2>1. /\ stack' = stack /\ first' = first /\ item' = item /\ host' = host
        /\ remote' = remote /\ ends' = ends /\ pc' = "end"
        /\ job'.phase = "nodeInfo" /\ job'.path = path
    BY <1>1, <1>11 DEF Call
  <2>2. Cable' = Cable /\ Root' = Root
    BY <1>1, SameView
  <2>3. Probing' /\ Begun' /\ Begun /\ (InFirst' <=> InFirst) /\ (InLoop' <=> InLoop)
    BY <1>1, <2>1 DEF Probing, Begun, InFirst, InLoop
  <2>4. KnownSees' /\ LinksSeen(remote)'
    <3>1. LinksSeen(remote)' <=> LinksSeen(remote)
      BY <1>1, <2>1, SameView
    <3>2. KnownSees' <=> KnownSees
      BY <1>1, SameView
    <3> QED BY <1>8, <3>1, <3>2, SmoothFacts
  <2>5. HostSees'
    <3>1. RouteSees(host.path, host.node.guid)' <=> RouteSees(host.path, host.node.guid)
      BY <1>1, <2>1, SameView
    <3> QED BY <1>1, <1>7, <2>1, <3>1 DEF HostSees, EndsSee, Smooth, QuietOK, StackSees
  <2>6. StackSees'
    <3>1. QueueSees(stack)' <=> QueueSees(stack)
      BY <1>1, <2>1, SameView
    <3>2. AcrossSees(item.port, item.path)' <=> AcrossSees(item.port, item.path)
      BY <1>1, <2>1, SameView
    <3> QED BY <2>1, <2>3, <2>5, <3>1, <3>2, SmoothFacts DEF StackSees, Smooth, QuietOK
  <2>7. FirstSees'
    BY <2>1, <2>2, <2>3 DEF FirstSees, Smooth, QuietOK
  <2>8. CallSees'
    <3>1. IsRegular(job.path)'
      <4>1. IsRegular(path)' <=> IsRegular(path)
        BY <1>1, SameFabric
      <4> QED BY <4>1, <1>8, <2>1 DEF AcrossSees
    <3>2. JobSees'
      BY <2>1, <3>1 DEF JobSees
    <3>3. Arrival(Cable, job.path)' # Nowhere
      <4>1. Arrival(Cable, path)' = Arrival(Cable, path)
        BY <1>1, SameFabric
      <4> QED BY <4>1, <1>4, <1>6, <1>11, <2>1
    <3> QED BY <2>1, <3>2, <3>3 DEF CallSees
  <2>9. RootSees'
    <3>1. \A n : IsKnown(n)' = IsKnown(n) /\ ToCall(first, n)' = ToCall(first, n)
      BY <1>1, <2>1, SameView
    <3>2. /\ IsKnown(Root)
          /\ \A p \in DOMAIN Cable :
                p[1] = Root => ToCall(first, Cable[p][1]) \/ IsKnown(Cable[p][1])
      BY <1>1, <2>3 DEF RootSees, Smooth, QuietOK, Called
    <3> QED BY <2>2, <3>1, <3>2 DEF RootSees
  <2>10. DoneSees'
    <3>1. \A n : IsKnown(n)' = IsKnown(n)
      BY <1>1, SameView
    <3>2. \A p : Settled(p, remote)' = Settled(p, remote)
      BY <1>1, <2>1, SameView
    <3>3. \A p : /\ (ToPush(p)' <=> ToPush(p)) /\ (ToProbe(p)' <=> ToProbe(p))
                 /\ (InQueue(stack, p)' <=> InQueue(stack, p)) /\ (IsNext(p)' <=> IsNext(p))
      BY <1>1, <1>7, <2>1, <2>3 DEF ToPush, ToProbe, InQueue, IsNext
    <3>4. \A n : ~Called(n)
      BY <1>1 DEF Called
    <3> QED BY <2>2, <2>3, <3>1, <3>2, <3>3, <3>4 DEF DoneSees, Smooth, QuietOK
  <2> QED BY <2>4, <2>6, <2>7, <2>8, <2>9, <2>10 DEF QuietOK
<1> QED BY <1>5, <1>9, <1>10, <1>11

(* The node behind an end has been found.                                  *)
LEMMA EndFoundSees == ASSUME Smooth, EndFound, quiet' PROVE QuietOK'
<1>1. /\ pc = "end" /\ job.phase = "found" /\ UNCHANGED fabric /\ node_map' = node_map
      /\ remote' = Linked(Head(ends).port, <<job.node.guid, seen[2]>>)
      /\ ends' = Tail(ends) /\ pc' = "ends"
      /\ UNCHANGED <<stack, first, item, host>>
  BY DEF EndFound, found
<1>2. Probing
  BY <1>1 DEF Probing
<1>3. PICK guid : guid = job.node.guid
  OBVIOUS
<1>4. PICK local : local = Head(ends).port
  OBVIOUS
<1>5. /\ ends # <<>> /\ job.path = RouteAcross(Head(ends))
      /\ seen = Arrival(cabling, job.path) /\ seen # Nowhere
  BY <1>1 DEF Smooth, IInv, ProbingOK
<1>6. JobSees /\ JobOK /\ World /\ FabricOK /\ LinksSeen(remote)
  BY <1>1, SmoothFacts DEF Smooth, QuietOK, CallSees
<1>7. Finds(job.path, guid) /\ IsKnown(guid)
  BY <1>1, <1>3, <1>6 DEF JobSees, JobOK, IsKnown
<1>8. seen = Arrival(Cable, job.path)
  BY <1>5, <1>6, <1>7, Reached DEF Finds
<1>9. AcrossSees(local, job.path)
  BY <1>2, <1>4, <1>5, HeadSees
<1>10. local \in DOMAIN Cable /\ seen = Cable[local] /\ IsKnown(local[1]) /\ seen[1] = guid
  BY <1>5, <1>7, <1>8, <1>9 DEF AcrossSees, Finds
<1>11. seen = <<guid, seen[2]>>
  <2>1. seen \in DOMAIN Cable
    BY <1>6, <1>10, CablePairs DEF Smooth
  <2>2. seen = <<seen[1], seen[2]>>
    BY <1>6, <2>1, CablePairs DEF Smooth
  <2> QED BY <2>2, <1>10
<1>12. PICK links : links = Linked(local, seen)
  OBVIOUS
<1>13. remote' = links
  BY <1>1, <1>3, <1>4, <1>11, <1>12
<1>14. /\ LinksSeen(links) /\ Settled(local, links)
       /\ \A p : Settled(p, remote) => Settled(p, links)
  BY <1>6, <1>7, <1>10, <1>12, LinkedSees
<1> QED BY <1>1, <1>2, <1>4, <1>5, <1>13, <1>14, EndsGoOn

(* The node behind an end answers while nothing fails.                     *)
LEMMA EndLostSees == ASSUME Smooth, EndLost PROVE FALSE
<1>1. pc = "end" /\ job.phase = "lost"
  BY DEF EndLost
<1>2. CallSees
  BY DEF Smooth, QuietOK
<1> QED BY <1>1, <1>2 DEF CallSees, JobSees

-----------------------------------------------------------------------------
(* The call of discover_node.                                             *)

(* Where a call of discover_node has got to: no further than nodes are     *)
(* known, and behind an end there is no switch.                            *)
LEMMA CallReaches ==
    ASSUME Smooth, pc \in {"root", "first", "loop", "end"},
           NEW g, Finds(job.path, g), ~IsKnown(g)
    PROVE  /\ IsRegular(job.path) /\ Depth(job.path) \in Nat
           /\ g \in Ball(Cable, Depth(job.path)) /\ (g = Root <=> Depth(job.path) = 0)
           /\ pc = "root" => g = Root
           /\ pc = "end" => g \notin Switches
           /\ pc # "root" => IsKnown(Root) /\ Depth(job.path) <= Cardinality(DOMAIN node_map)
<1>1. FabricOK /\ MapOK /\ KnownSees /\ IsRegular(job.path) /\ Depth(job.path) \in Nat
  <2>1. IsRegular(job.path)
    BY DEF Smooth, QuietOK, CallSees, JobSees
  <2> QED BY <2>1, SmoothFacts, DepthFacts
<1>2. g = Arrival(Cable, job.path)[1] /\ Arrival(Cable, job.path) # Nowhere
  BY DEF Finds
<1>3. pc # "root" => IsKnown(Root) /\ g # Root
  BY DEF Smooth, QuietOK, RootSees, Begun
<1>4. CASE pc = "root"
  <2>1. job.path = StartPath
    BY <1>4 DEF Smooth, QuietOK, CallSees
  <2>2. Depth(job.path) = 0 /\ g = Root
    BY <2>1, <1>2, StartDepth, StartRoute DEF Root
  <2>3. g \in Ball(Cable, 0)
    BY <2>2, BallSteps
  <2> QED BY <1>1, <1>4, <2>2, <2>3
<1>5. CASE pc = "first"
  <2>1. PICK q \in 1..NPorts[Root] : job.path = FirstHopPath(q)
    BY <1>5 DEF Smooth, QuietOK, CallSees
  <2>2. PICK p : p = <<Root, q>>
    OBVIOUS
  <2>3. /\ Depth(job.path) = 1
        /\ Arrival(Cable, job.path) = IF p \in DOMAIN Cable THEN Cable[p] ELSE Nowhere
    BY <1>1, <2>1, <2>2, FirstHopLeads
  <2>4. p \in DOMAIN Cable /\ p[1] = Root /\ Cable[p][1] = g
    BY <1>2, <2>2, <2>3
  <2>5. Root \in Ball(Cable, 0)
    BY BallSteps
  <2>6. 0 \in Nat /\ 1 \in Nat /\ 0 < 1
    OBVIOUS
  <2>7. Cable[p][1] \in Ball(Cable, 1)
    BY <2>4, <2>5, <2>6, BallNext
  <2>8. 1 <= Cardinality(DOMAIN node_map)
    <3>1. IsFiniteSet(Node) /\ DOMAIN node_map \subseteq Node
      BY <1>1, RouteAssumption DEF MapOK
    <3>2. IsFiniteSet(DOMAIN node_map)
      BY <3>1, FS_Subset
    <3>3. DOMAIN node_map # {}
      BY <1>3, <1>5 DEF IsKnown
    <3> QED BY <3>2, <3>3, FS_EmptySet, FS_CardinalityType
  <2> QED BY <1>1, <1>3, <1>5, <2>3, <2>4, <2>7, <2>8
<1>6. ASSUME pc \in {"loop", "end"}, NEW p, AcrossSees(p, job.path)
      PROVE  /\ p \in DOMAIN Cable /\ Cable[p][1] = g /\ p[1] \in Switches
             /\ g \in Ball(Cable, Depth(job.path)) /\ Depth(job.path) # 0
             /\ Depth(job.path) <= Cardinality(DOMAIN node_map)
  <2>1. p \in DOMAIN Cable /\ Cable[p][1] = g
    BY <1>2, <1>6 DEF AcrossSees
  <2>2. Depth(job.path) \in 1..Cardinality(DOMAIN node_map)
    BY <1>6 DEF AcrossSees
  <2>3. Depth(job.path) # 0 /\ Depth(job.path) <= Cardinality(DOMAIN node_map)
    BY <1>1, <2>2
  <2> QED BY <1>6, <2>1, <2>3 DEF AcrossSees
<1>7. CASE pc = "loop"
  <2>1. job.path = item.path /\ InLoop
    BY <1>7 DEF Smooth, IInv, TraversalOK, InLoop
  <2>2. AcrossSees(item.port, job.path)
    BY <2>1, LoopSees
  <2> QED BY <1>1, <1>3, <1>6, <1>7, <2>2
<1>8. CASE pc = "end"
  <2>1. job.path = RouteAcross(Head(ends)) /\ ends # <<>> /\ Probing
    BY <1>8 DEF Smooth, IInv, ProbingOK, Probing
  <2>2. PICK p : p = Head(ends).port
    OBVIOUS
  <2>3. AcrossSees(p, job.path) /\ p[2] \notin RingPorts
    BY <2>1, <2>2, HeadSees
  <2>4. g \notin Switches
    BY <1>6, <1>8, <2>3 DEF Smooth, WellWired
  <2> QED BY <1>1, <1>3, <1>6, <1>8, <2>3, <2>4
<1> QED BY <1>4, <1>5, <1>7, <1>8

(* While the call of discover_node goes on nothing else changes.           *)
LEMMA CallGoesOn ==
    ASSUME QuietOK, UNCHANGED fabric, UNCHANGED <<traversal, probing>>,
           node_map' = node_map, remote' = remote, job'.path = job.path,
           pc \in {"root", "first", "loop", "end"} => JobSees',
           pc \in {"root", "loop"} => (job'.phase = "found" <=> job.phase = "found")
    PROVE  QuietOK'
<1>1. /\ pc' = pc /\ stack' = stack /\ first' = first /\ item' = item
      /\ ends' = ends /\ host' = host
  BY DEF traversal, probing
<1>2. /\ Cable' = Cable /\ Root' = Root
      /\ \A n : IsKnown(n)' = IsKnown(n)
      /\ \A path, n : RouteSees(path, n)' = RouteSees(path, n)
      /\ \A queue : QueueSees(queue)' = QueueSees(queue)
      /\ \A port, path : AcrossSees(port, path)' = AcrossSees(port, path)
      /\ \A p, links : Settled(p, links)' = Settled(p, links)
      /\ \A links : LinksSeen(links)' = LinksSeen(links)
      /\ \A ports, n : ToCall(ports, n)' = ToCall(ports, n)
      /\ KnownSees' = KnownSees
      /\ \A q : FirstHopPath(q)' = FirstHopPath(q)
  BY SameView
<1>3. /\ \A path : Arrival(Cable, path)' = Arrival(Cable, path)
      /\ \A path, n : Finds(path, n)' = Finds(path, n)
  BY SameFabric
<1>4. KnownSees' /\ LinksSeen(remote)'
  <2>1. LinksSeen(remote)' <=> LinksSeen(remote)
    BY <1>2
  <2> QED BY <1>2, <2>1 DEF QuietOK
<1>5. StackSees'
  <2>1. QueueSees(stack)' <=> QueueSees(stack)
    BY <1>1, <1>2
  <2>2. AcrossSees(item.port, item.path)' <=> AcrossSees(item.port, item.path)
    <3>1. item'.port = item.port /\ item'.path = item.path
      BY <1>1
    <3> QED BY <1>2, <3>1
  <2>3. Probing => HostSees'
    <3> SUFFICES ASSUME Probing PROVE HostSees'
      OBVIOUS
    <3>1. PICK path : path = host.path
      OBVIOUS
    <3>2. PICK guid : guid = host.node.guid
      OBVIOUS
    <3>3. /\ host.node = node_map[guid] /\ RouteSees(path, guid) /\ EndsSee(ends)
      BY <3>1, <3>2 DEF QuietOK, StackSees, HostSees
    <3>4. host'.path = path /\ host'.node = host.node /\ host'.node.guid = guid
      BY <1>1, <3>1, <3>2
    <3>5. RouteSees(path, guid)'
      BY <1>2, <3>3
    <3>6. RouteSees(host.path, host.node.guid)'
      BY <3>4, <3>5
    <3>7. EndsSee(ends)'
      BY <1>1, <3>3 DEF EndsSee
    <3> QED BY <3>3, <3>4, <3>6, <3>7 DEF HostSees
  <2>4. (Probing' <=> Probing) /\ (InLoop' <=> InLoop)
    BY <1>1 DEF Probing, InLoop
  <2> QED BY <1>1, <2>1, <2>2, <2>3, <2>4 DEF QuietOK, StackSees
<1>6. Begun' <=> Begun
  BY <1>1 DEF Begun
<1>7. FirstSees'
  <2>1. InFirst' <=> InFirst
    BY <1>1 DEF InFirst, Probing
  <2> QED BY <1>1, <1>2, <1>6, <2>1 DEF QuietOK, FirstSees
<1>8. CallSees'
  <2>1. PICK path : path = job.path
    OBVIOUS
  <2>2. job'.path = path
    BY <2>1
  <2>3. PICK far : far = Arrival(Cable, path)
    OBVIOUS
  <2>4. Arrival(Cable, job.path) = far /\ Arrival(Cable, job.path)' = far
    <3>1. Arrival(Cable, path)' = Arrival(Cable, path)
      BY <1>3
    <3>2. Arrival(Cable, job.path)' = Arrival(Cable, path)'
      BY <2>2
    <3> QED BY <2>1, <2>3, <3>1, <3>2
  <2>5. IsKnown(far[1])' <=> IsKnown(far[1])
    BY <1>2
  <2>6. IsKnown(Arrival(Cable, job.path)[1])' <=> IsKnown(Arrival(Cable, job.path)[1])
    BY <2>4, <2>5
  <2>7. ASSUME pc = "root"
        PROVE  /\ job'.path = StartPath /\ stack' = <<>> /\ remote' = <<>>
               /\ DOMAIN node_map' = IF job'.phase = "found" THEN {Root'} ELSE {}
    <3>1. /\ job.path = StartPath /\ stack = <<>> /\ remote = <<>>
          /\ DOMAIN node_map = IF job.phase = "found" THEN {Root} ELSE {}
      BY <2>7 DEF QuietOK, CallSees
    <3> QED BY <1>1, <1>2, <2>7, <3>1
  <2>8. ASSUME pc = "first" PROVE \E q \in 1..NPorts[Root'] : job'.path = FirstHopPath(q)'
    <3>1. PICK q \in 1..NPorts[Root] : job.path = FirstHopPath(q)
      BY <2>8 DEF QuietOK, CallSees
    <3>2. FirstHopPath(q)' = FirstHopPath(q)
      BY <1>2
    <3> QED BY <1>2, <3>1, <3>2
  <2>9. pc \in {"loop", "end"} => Arrival(Cable, job.path)' # Nowhere
    BY <2>4 DEF QuietOK, CallSees
  <2>10. ASSUME pc = "loop"
         PROVE  IF job'.phase = "found" THEN Depth(job'.path) < Cardinality(DOMAIN node_map')
                ELSE ~IsKnown(Arrival(Cable, job.path)[1])'
    <3>1. IF job.phase = "found" THEN Depth(job.path) < Cardinality(DOMAIN node_map)
          ELSE ~IsKnown(Arrival(Cable, job.path)[1])
      BY <2>10 DEF QuietOK, CallSees
    <3>2. Depth(job'.path) = Depth(job.path)
          /\ Cardinality(DOMAIN node_map') = Cardinality(DOMAIN node_map)
      OBVIOUS
    <3> QED BY <2>6, <2>10, <3>1, <3>2
  <2> QED BY <1>1, <2>7, <2>8, <2>9, <2>10 DEF CallSees
<1>9. \A n : (Called(n)' <=> Called(n)) /\ (ToCall(first, n)' <=> ToCall(first, n))
  <2>1. \A n : Finds(job.path, n)' <=> Finds(job.path, n)
    <3>1. PICK path : path = job.path
      OBVIOUS
    <3>2. job'.path = path
      BY <3>1
    <3>3. \A n : Finds(path, n)' <=> Finds(path, n)
      BY <1>3
    <3>4. \A n : Finds(job.path, n)' <=> Finds(path, n)'
      BY <3>2
    <3> QED BY <3>1, <3>3, <3>4
  <2>2. \A n : ToCall(first, n)' <=> ToCall(first, n)
    BY <1>1, <1>2
  <2> QED BY <1>1, <2>1, <2>2 DEF Called
<1>10. RootSees'
  <2>1. Begun => /\ IsKnown(Root)
                 /\ \A p \in DOMAIN Cable : p[1] = Root =>
                       \/ pc = "first" /\ Called(Cable[p][1])
                       \/ ToCall(first, Cable[p][1]) \/ IsKnown(Cable[p][1])
    BY DEF QuietOK, RootSees
  <2>2. Begun => /\ IsKnown(Root)'
                 /\ \A p \in DOMAIN Cable' : p[1] = Root' =>
                       \/ pc' = "first" /\ Called(Cable[p][1])'
                       \/ ToCall(first, Cable[p][1])' \/ IsKnown(Cable[p][1])'
    BY <1>1, <1>2, <1>9, <2>1
  <2> QED BY <1>6, <2>2 DEF RootSees
<1>11. DoneSees'
  <2>1. \A p : /\ IsKnown(p[1])' = IsKnown(p[1]) /\ Settled(p, remote)' = Settled(p, remote)
               /\ Called(p[1])' <=> Called(p[1])
    BY <1>2, <1>9
  <2>2. \A p : /\ InQueue(stack, p)' <=> InQueue(stack, p)
               /\ IsNext(p)' <=> IsNext(p)
               /\ ToPush(p)' <=> ToPush(p)
               /\ ToProbe(p)' <=> ToProbe(p)
    BY <1>1 DEF InQueue, IsNext, ToPush, ToProbe, Probing, InLoop
  <2> QED BY <1>2, <1>6, <2>1, <2>2 DEF QuietOK, DoneSees
<1> QED BY <1>4, <1>5, <1>7, <1>8, <1>10, <1>11 DEF QuietOK

(* The call of discover_node enters its node.                              *)
LEMMA CallEnters ==
    ASSUME Smooth, UNCHANGED fabric, UNCHANGED <<traversal, probing>>,
           remote' = remote, job'.path = job.path, JobSees',
           pc \in {"root", "first", "loop", "end"}, job.phase # "found", NEW g, Entered(g)
    PROVE  QuietOK'
<1>1. /\ pc' = pc /\ stack' = stack /\ first' = first /\ item' = item
      /\ ends' = ends /\ host' = host
  BY DEF traversal, probing
<1>2. /\ Cable' = Cable /\ Root' = Root
      /\ \A path : Arrival(Cable, path)' = Arrival(Cable, path)
      /\ \A path, n : Finds(path, n)' = Finds(path, n)
      /\ \A path : IsRegular(path)' = IsRegular(path)
      /\ \A k : Ball(Cable, k)' = Ball(Cable, k)
      /\ \A node, last : IsWhole(node, last)' = IsWhole(node, last)
  BY SameFabric
<1>3. /\ ~IsKnown(g) /\ Finds(job.path, g) /\ job'.phase = "found" /\ job'.node.guid = g
      /\ DOMAIN node_map' = DOMAIN node_map \cup {g} /\ g \notin DOMAIN node_map
      /\ \A n \in DOMAIN node_map : node_map'[n] = node_map[n]
      /\ node_map'[g].path = job.path /\ IsWhole(node_map'[g], NPorts[g])
  BY DEF Entered, IsKnown
<1>4. PICK d : d = Depth(job.path)
  OBVIOUS
<1>5. PICK before : before = Cardinality(DOMAIN node_map)
  OBVIOUS
<1>6. PICK after : after = Cardinality(DOMAIN node_map')
  OBVIOUS
<1>7. before \in Nat /\ after \in Nat /\ after = before + 1
  <2>1. IsFiniteSet(DOMAIN node_map)
    <3>1. IsFiniteSet(Node) /\ DOMAIN node_map \subseteq Node
      BY SmoothFacts, RouteAssumption DEF MapOK
    <3> QED BY <3>1, FS_Subset
  <2>2. PICK S : S = DOMAIN node_map
    OBVIOUS
  <2>3. IsFiniteSet(S) /\ g \notin S
    BY <1>3, <2>1, <2>2
  <2>4. Cardinality(S \cup {g}) = Cardinality(S) + 1 /\ Cardinality(S) \in Nat
    BY <2>3, FS_AddElement, FS_CardinalityType
  <2>5. before = Cardinality(S) /\ after = Cardinality(S \cup {g})
    BY <1>3, <1>5, <1>6, <2>2
  <2> QED BY <2>4, <2>5
<1>8. /\ IsRegular(job.path) /\ d \in Nat /\ g \in Ball(Cable, d) /\ (g = Root <=> d = 0)
      /\ pc = "root" => g = Root
      /\ pc = "end" => g \notin Switches
      /\ pc # "root" => IsKnown(Root) /\ d <= before
  BY <1>3, <1>4, <1>5, CallReaches
<1>9. /\ \A n : IsKnown(n) => IsKnown(n)'
      /\ \A n \in DOMAIN node_map : KnownAt(n) => KnownAt(n)'
      /\ \A path, n : RouteSees(path, n) => RouteSees(path, n)'
      /\ \A port, path : AcrossSees(port, path) => AcrossSees(port, path)'
      /\ \A p, links : Settled(p, links) => Settled(p, links)'
      /\ \A links : LinksSeen(links) => LinksSeen(links)'
  <2>1. DOMAIN node_map \subseteq DOMAIN node_map'
    BY <1>3
  <2>2. /\ Cardinality(DOMAIN node_map) \in Nat /\ Cardinality(DOMAIN node_map') \in Nat
        /\ Cardinality(DOMAIN node_map) <= Cardinality(DOMAIN node_map')
    BY <1>5, <1>6, <1>7
  <2> QED BY <1>3, <2>1, <2>2, MapGrows
<1>10. \A n : IsKnown(n)' <=> IsKnown(n) \/ n = g
  BY <1>3 DEF IsKnown
<1>11. QuietOK
  BY DEF Smooth
<1>12. Begun' <=> Begun
  BY <1>1 DEF Begun
<1>13. (Probing' <=> Probing) /\ (InLoop' <=> InLoop) /\ (InFirst' <=> InFirst)
  BY <1>1 DEF Probing, InLoop, InFirst
<1>14. KnownSees'
  <2>1. KnownAt(g)'
    <3>1. DistOf(g)' = d
      BY <1>3, <1>4 DEF DistOf
    <3>2. IsRegular(node_map[g].path)'
      <4>1. PICK path : path = job.path
        OBVIOUS
      <4>2. node_map'[g].path = path /\ IsRegular(path)
        BY <4>1, <1>3, <1>8
      <4>3. IsRegular(path)' = IsRegular(path)
        BY <1>2
      <4> QED BY <4>2, <4>3
    <3>3. Ball(Cable, d)' = Ball(Cable, d)
      BY <1>2
    <3>4. g \in Ball(Cable, DistOf(g))'
      BY <1>8, <3>1, <3>3
    <3>5. IsWhole(node_map[g], NPorts[g])'
      <4>1. PICK node : node = node_map'[g]
        OBVIOUS
      <4>2. IsWhole(node, NPorts[g])' = IsWhole(node, NPorts[g])
        BY <1>2
      <4> QED BY <1>3, <4>1, <4>2
    <3> QED BY <1>2, <1>8, <3>1, <3>2, <3>4, <3>5 DEF KnownAt
  <2>2. \A n \in DOMAIN node_map : KnownAt(n)'
    BY <1>9, <1>11 DEF QuietOK, KnownSees
  <2> QED BY <1>3, <2>1, <2>2 DEF KnownSees
<1>15. StackSees'
  <2>1. QueueSees(stack)'
    <3>1. PICK queue : queue = stack
      OBVIOUS
    <3>2. \A i \in DOMAIN queue : RouteSees(queue[i].path, queue[i].port[1])
      BY <1>11, <3>1 DEF QuietOK, StackSees, QueueSees
    <3>3. \A i \in DOMAIN queue : RouteSees(queue[i].path, queue[i].port[1])'
      BY <1>9, <3>2
    <3>4. QueueSees(queue)'
      BY <3>3 DEF QueueSees
    <3>5. stack' = queue
      BY <1>1, <3>1
    <3> QED BY <3>4, <3>5
  <2>2. pc = "probe" \/ InLoop => AcrossSees(item.port, item.path)'
    <3> SUFFICES ASSUME pc = "probe" \/ InLoop PROVE AcrossSees(item.port, item.path)'
      OBVIOUS
    <3>1. PICK it : it = item
      OBVIOUS
    <3>2. AcrossSees(it.port, it.path)
      BY <1>11, <3>1 DEF QuietOK, StackSees
    <3>3. AcrossSees(it.port, it.path)'
      BY <1>9, <3>2
    <3>4. item' = it
      BY <1>1, <3>1
    <3> QED BY <3>3, <3>4
  <2>3. Probing => HostSees'
    <3> SUFFICES ASSUME Probing PROVE HostSees'
      OBVIOUS
    <3>1. PICK path : path = host.path
      OBVIOUS
    <3>2. PICK guid : guid = host.node.guid
      OBVIOUS
    <3>3. /\ host.node = node_map[guid] /\ RouteSees(path, guid) /\ EndsSee(ends)
      BY <1>11, <3>1, <3>2 DEF QuietOK, StackSees, HostSees
    <3>4. host'.path = path /\ host'.node = host.node /\ host'.node.guid = guid
      BY <1>1, <3>1, <3>2
    <3>5. RouteSees(path, guid)'
      BY <1>9, <3>3
    <3>6. RouteSees(host.path, host.node.guid)'
      BY <3>4, <3>5
    <3>7. EndsSee(ends)'
      BY <1>1, <3>3 DEF EndsSee
    <3>8. node_map'[guid] = node_map[guid]
      BY <1>3, <3>3 DEF RouteSees, IsKnown
    <3> QED BY <3>3, <3>4, <3>6, <3>7, <3>8 DEF HostSees
  <2> QED BY <1>1, <1>11, <1>13, <2>1, <2>2, <2>3 DEF QuietOK, StackSees
<1>16. FirstSees'
  BY <1>1, <1>2, <1>11, <1>12, <1>13 DEF QuietOK, FirstSees
<1>17. CallSees'
  <2>1. ASSUME pc = "root"
        PROVE  /\ job'.path = StartPath /\ stack' = <<>> /\ remote' = <<>>
               /\ DOMAIN node_map' = {Root'}
    <3>1. DOMAIN node_map = {} /\ job.path = StartPath /\ stack = <<>> /\ remote = <<>>
      BY <1>11, <2>1 DEF QuietOK, CallSees
    <3> QED BY <1>1, <1>2, <1>3, <1>8, <2>1, <3>1
  <2>2. ASSUME pc = "first" PROVE \E q \in 1..NPorts[Root'] : job'.path = FirstHopPath(q)'
    <3>1. PICK q \in 1..NPorts[Root] : job.path = FirstHopPath(q)
      BY <1>11, <2>2 DEF QuietOK, CallSees
    <3>2. FirstHopPath(q)' = FirstHopPath(q)
      BY SameFabric DEF FirstHopPath
    <3> QED BY <1>2, <3>1, <3>2
  <2>3. pc \in {"loop", "end"} => Arrival(Cable, job.path)' # Nowhere
    <3>1. PICK path : path = job.path
      OBVIOUS
    <3>2. Arrival(Cable, path)' = Arrival(Cable, path)
      BY <1>2
    <3>3. Arrival(Cable, job.path)' = Arrival(Cable, path)'
      BY <3>1
    <3> QED BY <1>11, <3>1, <3>2, <3>3 DEF QuietOK, CallSees
  <2>4. pc # "root" => Depth(job'.path) < Cardinality(DOMAIN node_map')
    <3>1. Depth(job'.path) = d
      BY <1>4
    <3>2. pc # "root" => d < after
      BY <1>7, <1>8
    <3> QED BY <1>6, <3>1, <3>2
  <2> QED BY <1>1, <1>3, <2>1, <2>2, <2>3, <2>4 DEF CallSees
<1>18. \A n : (Called(n)' <=> Called(n)) /\ (ToCall(first, n)' <=> ToCall(first, n))
  <2>1. \A n : Finds(job.path, n)' <=> Finds(job.path, n)
    <3>1. PICK path : path = job.path
      OBVIOUS
    <3>2. job'.path = path
      BY <3>1
    <3>3. \A n : Finds(path, n)' <=> Finds(path, n)
      BY <1>2
    <3>4. \A n : Finds(job.path, n)' <=> Finds(path, n)'
      BY <3>2
    <3> QED BY <3>1, <3>3, <3>4
  <2>2. \A q : FirstHopPath(q)' = FirstHopPath(q)
    BY SameFabric DEF FirstHopPath
  <2>3. \A n : ToCall(first, n)' <=> ToCall(first, n)
    BY <1>1, <1>2, <2>2 DEF ToCall
  <2> QED BY <1>1, <2>1, <2>3 DEF Called
<1>19. RootSees'
  <2>1. Begun => /\ IsKnown(Root)
                 /\ \A p \in DOMAIN Cable : p[1] = Root =>
                       \/ pc = "first" /\ Called(Cable[p][1])
                       \/ ToCall(first, Cable[p][1]) \/ IsKnown(Cable[p][1])
    BY <1>11 DEF QuietOK, RootSees
  <2>2. Begun => /\ IsKnown(Root)'
                 /\ \A p \in DOMAIN Cable' : p[1] = Root' =>
                       \/ pc' = "first" /\ Called(Cable[p][1])'
                       \/ ToCall(first, Cable[p][1])' \/ IsKnown(Cable[p][1])'
    BY <1>1, <1>2, <1>10, <1>18, <2>1
  <2> QED BY <1>12, <2>2 DEF RootSees
<1>20. LinksSeen(remote)'
  <2>1. PICK links : links = remote
    OBVIOUS
  <2>2. LinksSeen(links)'
    BY <2>1, <1>9, <1>11 DEF QuietOK
  <2>3. remote' = links
    BY <2>1
  <2> QED BY <2>2, <2>3
<1>21. DoneSees'
  <2>1. \A p : /\ InQueue(stack, p)' <=> InQueue(stack, p)
               /\ IsNext(p)' <=> IsNext(p)
               /\ ToPush(p)' <=> ToPush(p)
               /\ ToProbe(p)' <=> ToProbe(p)
    BY <1>1 DEF InQueue, IsNext, ToPush, ToProbe, Probing, InLoop
  <2>2. \A p : Settled(p, remote) => Settled(p, remote)'
    <3>1. PICK links : links = remote
      OBVIOUS
    <3>2. \A p : Settled(p, links) => Settled(p, links)'
      BY <1>9
    <3>3. remote' = links
      BY <3>1
    <3> QED BY <3>1, <3>2, <3>3
  <2>3. ASSUME Begun, NEW p \in DOMAIN Cable, IsKnown(p[1])', p[1] \in Switches
        PROVE  \/ Called(p[1])' \/ ToPush(p)' \/ ToProbe(p)'
               \/ InQueue(stack, p)' \/ IsNext(p)' \/ Settled(p, remote)'
    <3>1. CASE p[1] = g
      <4>1. pc \in {"first", "loop"}
        BY <1>8, <2>3, <3>1 DEF Begun
      <4>2. Called(g)
        BY <1>3, <4>1 DEF Called
      <4> QED BY <1>18, <3>1, <4>2
    <3>2. CASE p[1] # g
      <4>1. IsKnown(p[1])
        BY <1>10, <2>3, <3>2
      <4>2. \/ Called(p[1]) \/ ToPush(p) \/ ToProbe(p)
            \/ InQueue(stack, p) \/ IsNext(p) \/ Settled(p, remote)
        BY <1>11, <2>3, <4>1 DEF QuietOK, DoneSees
      <4> QED BY <1>18, <2>1, <2>2, <4>2
    <3> QED BY <3>1, <3>2
  <2> QED BY <1>2, <1>12, <2>3 DEF DoneSees
<1> QED BY <1>14, <1>15, <1>16, <1>17, <1>19, <1>20, <1>21 DEF QuietOK

(* A step of discover_node.                                                *)
LEMMA DiscoverSees ==
    ASSUME Smooth, UpState \in {"Active", "Init"},
           DiscoverNode, UNCHANGED <<traversal, probing>>, quiet'
    PROVE  QuietOK'
<1>1. NodeInv /\ job'.path = job.path /\ QuietOK
  BY DiscoverNodeKeepsGraphInv DEF Smooth, IInv, GraphInv
<1>2. /\ UNCHANGED fabric /\ remote' = remote
      /\ job.phase \in {"nodeInfo", "nodeDesc", "portInfo"}
  BY DEF DiscoverNode, FetchNodeInfo, FetchNodeDesc, FetchPortInfo, graph
<1>3. pc \in {"root", "first", "loop", "end"} /\ job.phase # "found"
  BY <1>2 DEF Smooth, IInv, PlaceOK
<1>4. JobSees
  BY <1>1, <1>3 DEF QuietOK, CallSees
<1>5. CASE FetchNodeInfo
  <2>1. /\ JobSees' /\ node_map' = node_map
        /\ job'.phase = "found" => IsKnown(Arrival(Cable, job.path)[1])
    BY <1>1, <1>4, <1>5, NodeInfoSees
  <2>2. pc = "root" => ~IsKnown(Arrival(Cable, job.path)[1])
    BY <1>1, <1>3 DEF QuietOK, CallSees, IsKnown
  <2>3. pc = "loop" => ~IsKnown(Arrival(Cable, job.path)[1])
    BY <1>1, <1>3 DEF QuietOK, CallSees
  <2> QED BY <1>1, <1>2, <1>3, <2>1, <2>2, <2>3, CallGoesOn
<1>6. CASE FetchNodeDesc
  <2>1. JobSees' /\ node_map' = node_map /\ job'.phase = "portInfo"
    BY <1>1, <1>4, <1>6, NodeDescSees
  <2> QED BY <1>1, <1>2, <1>3, <2>1, CallGoesOn
<1>7. CASE FetchPortInfo
  <2>1. /\ JobSees'
        /\ \/ node_map' = node_map /\ job'.phase = "portInfo"
           \/ Entered(Arrival(Cable, job.path)[1])
    BY <1>1, <1>4, <1>7, PortInfoSees
  <2>2. CASE node_map' = node_map /\ job'.phase = "portInfo"
    BY <1>1, <1>2, <1>3, <2>1, <2>2, CallGoesOn
  <2>3. CASE Entered(Arrival(Cable, job.path)[1])
    BY <1>1, <1>2, <1>3, <2>1, <2>3, CallEnters
  <2> QED BY <2>1, <2>2, <2>3
<1> QED BY <1>5, <1>6, <1>7 DEF DiscoverNode

-----------------------------------------------------------------------------
(* All steps together.                                                    *)

(* A discovery that has begun knows nothing, and its first call is for the *)
(* node the agent is on.                                                   *)
LEMMA StartSees == ASSUME Start PROVE QuietOK'
<1>1. /\ pc' = "root" /\ stack' = <<>> /\ first' = <<>>
      /\ node_map' = <<>> /\ remote' = <<>>
      /\ job'.path = StartPath /\ job'.phase = "nodeInfo"
  BY DEF Start, Forget, Call
<1>2. DOMAIN <<>> = {}
  OBVIOUS
<1>3. KnownSees' /\ LinksSeen(remote)' /\ FirstSees'
  BY <1>1, <1>2 DEF KnownSees, LinksSeen, FirstSees, Begun
<1>4. StackSees' /\ RootSees' /\ DoneSees'
  BY <1>1, <1>2 DEF StackSees, QueueSees, RootSees, DoneSees, Begun, InLoop, Probing
<1>5. IsRegular(job.path)'
  BY <1>1, StartRoute DEF IsRegular
<1>6. CallSees'
  BY <1>1, <1>2, <1>5 DEF CallSees, JobSees
<1> QED BY <1>3, <1>4, <1>6 DEF QuietOK

(* Nothing happens.                                                        *)
LEMMA StutterSees == ASSUME QuietOK, UNCHANGED vars PROVE QuietOK'
<1>1. /\ UNCHANGED fabric /\ UNCHANGED <<traversal, probing>>
      /\ node_map' = node_map /\ remote' = remote /\ job' = job
  BY DEF vars, common, graph, found
<1>2. ASSUME pc \in {"root", "first", "loop", "end"} PROVE JobSees'
  <2>1. JobSees
    BY <1>2 DEF QuietOK, CallSees
  <2>2. \A path : IsRegular(path)' = IsRegular(path)
    BY <1>1, SameFabric
  <2>3. \A path : Arrival(Cable, path)' = Arrival(Cable, path)
    BY <1>1, SameFabric
  <2>4. \A path, n : Finds(path, n)' = Finds(path, n)
    BY <1>1, SameFabric
  <2>5. \A node, last : IsWhole(node, last)' = IsWhole(node, last)
    BY <1>1, SameFabric
  <2> QED BY <1>1, <2>1, <2>2, <2>3, <2>4, <2>5 DEF JobSees
<1>3. job'.path = job.path /\ job'.phase = job.phase
  BY <1>1
<1> QED BY <1>1, <1>2, <1>3, CallGoesOn

(* Before the first discovery there is nothing to say.                     *)
LEMMA InitSees == Init => QInv
<1> SUFFICES ASSUME Init PROVE QInv
  OBVIOUS
<1>1. /\ pc = "idle" /\ stack = <<>> /\ first = <<>> /\ node_map = <<>> /\ remote = <<>> /\ cut = {}
  BY DEF Init, CommonInit
<1>2. DOMAIN <<>> = {}
  OBVIOUS
<1>3. KnownSees /\ LinksSeen(remote) /\ FirstSees
  BY <1>1, <1>2 DEF KnownSees, LinksSeen, FirstSees, Begun
<1>4. StackSees /\ RootSees /\ DoneSees /\ CallSees
  BY <1>1, <1>2 DEF StackSees, QueueSees, RootSees, DoneSees, Begun, CallSees, InLoop, Probing
<1>5. CutOK
  BY <1>1 DEF CutOK
<1> QED BY <1>3, <1>4, <1>5 DEF QInv, QuietOK

(* Every step of a discovery keeps what is seen while nothing fails.       *)
LEMMA ProgressSees ==
    ASSUME Smooth, UpState \in {"Active", "Init"}, Progress, quiet' PROVE QuietOK'
<1>1. CASE DiscoverNode /\ UNCHANGED <<traversal, probing>>
  BY <1>1, DiscoverSees
<1>2. CASE RootFound \/ RootLost \/ FirstSwitchFound \/ FirstSwitchDone \/ FirstOther
  BY <1>2, RootFoundSees, RootLostSees, SwitchFoundSees, FirstSwitchDoneSees, FirstOtherSees
<1>3. CASE ProbeEnd \/ EndFound \/ EndLost
  BY <1>3, ProbeEndSees, EndFoundSees, EndLostSees
<1>4. CASE Probe \/ LoopSwitchFound \/ LoopSwitchDone \/ LoopEndFound \/ LoopLost
  BY <1>4, ProbeSees, SwitchFoundSees, LoopSwitchDoneSees, LoopEndFoundSees, LoopLostSees
<1> QED BY <1>1, <1>2, <1>3, <1>4 DEF Progress

(* A step of a discovery leaves the fabric as it is, and nothing that has  *)
(* failed is forgotten.                                                    *)
LEMMA ProgressStays == ASSUME Progress PROVE UNCHANGED fabric /\ (quiet' => quiet)
<1>1. CASE DiscoverNode /\ UNCHANGED <<traversal, probing>>
  BY <1>1 DEF DiscoverNode, FetchNodeInfo, FetchNodeDesc, FetchPortInfo, Note
<1>2. CASE RootFound \/ RootLost \/ FirstSwitchFound \/ FirstSwitchDone \/ FirstOther
  <2>1. UNCHANGED fabric /\ UNCHANGED ghosts
    BY <1>2 DEF RootFound, RootLost, FirstSwitchFound, FirstSwitchDone, FirstOther, FirstHop
  <2> QED BY <2>1 DEF ghosts
<1>3. CASE ProbeEnd \/ EndFound \/ EndLost
  <2>1. CASE ProbeEnd
    BY <2>1 DEF ProbeEnd, Note
  <2>2. CASE EndFound
    <3>1. UNCHANGED fabric /\ UNCHANGED ghosts
      BY <2>2 DEF EndFound
    <3> QED BY <3>1 DEF ghosts
  <2>3. CASE EndLost
    <3>1. UNCHANGED fabric /\ UNCHANGED ghosts
      BY <2>3 DEF EndLost
    <3> QED BY <3>1 DEF ghosts
  <2> QED BY <1>3, <2>1, <2>2, <2>3
<1>4. CASE Probe \/ LoopSwitchFound \/ LoopSwitchDone \/ LoopEndFound \/ LoopLost
  <2>1. CASE Probe
    BY <2>1 DEF Probe, Note
  <2>2. CASE LoopSwitchFound
    BY <2>2 DEF LoopSwitchFound, ghosts
  <2>3. CASE LoopSwitchDone
    BY <2>3 DEF LoopSwitchDone, ghosts
  <2>4. CASE LoopEndFound
    BY <2>4 DEF LoopEndFound, ghosts
  <2>5. CASE LoopLost
    BY <2>5 DEF LoopLost, ghosts
  <2> QED BY <1>4, <2>1, <2>2, <2>3, <2>4, <2>5
<1> QED BY <1>1, <1>2, <1>3, <1>4 DEF Progress

(* The same, with a discovery that begins and a cable that is unplugged.   *)
LEMMA QuietInductive ==
    ASSUME \A cable \in Cablings : IsCabling(cable), UpState \in {"Active", "Init"},
           IInv, QInv, [Next]_vars
    PROVE  QInv'
<1>1. IsCabling(cabling) /\ CutOK
  BY DEF IInv, GraphInv, NodeInv, FabricOK, QInv
<1>2. CASE Unplug /\ UNCHANGED <<traversal, probing>>
  <2>1. ~quiet' /\ cabling' = cabling /\ \E p \in DOMAIN Cable : cut' = cut \cup {p, cabling[p]}
    BY <1>2 DEF Unplug
  <2>2. CutOK'
    BY <1>1, <2>1, CutsStay
  <2> QED BY <2>1, <2>2 DEF QInv
<1>3. CASE Start
  <2>1. UNCHANGED fabric
    BY <1>3 DEF Start, Forget
  <2>2. CutOK'
    BY <1>1, <2>1, CutsStay DEF fabric
  <2> QED BY <1>3, <2>2, StartSees DEF QInv
<1>4. CASE Progress \/ UNCHANGED vars
  <2>1. UNCHANGED fabric /\ (quiet' => quiet)
    BY <1>4, ProgressStays DEF vars, common, ghosts
  <2>2. CutOK'
    BY <1>1, <2>1, CutsStay DEF fabric
  <2>3. (WellWired' <=> WellWired) /\ (RootIsSwitch' <=> RootIsSwitch)
    <3>1. Cable' = Cable /\ RootIsSwitch' = RootIsSwitch
      BY <2>1, SameFabric
    <3> QED BY <3>1 DEF WellWired
  <2>4. ASSUME quiet', WellWired, ~RootIsSwitch PROVE QuietOK'
    <3>1. Smooth
      BY <1>1, <2>1, <2>4 DEF Smooth, QInv
    <3> QED BY <1>4, <2>4, <3>1, ProgressSees, StutterSees DEF Smooth
  <2> QED BY <2>2, <2>3, <2>4 DEF QInv
<1> QED BY <1>2, <1>3, <1>4 DEF Next

(* When the traversal is over, all that there is to find has been found.   *)
LEMMA DoneFound ==
    ASSUME Smooth, pc = "done"
    PROVE  /\ DOMAIN node_map = Ball(Cable, PathLen - 1)
           /\ \A p \in DOMAIN Cable : IsKnown(p[1]) /\ p[1] \in Switches => p \in DOMAIN remote
<1>1. QuietOK /\ KnownSees
  BY DEF Smooth, QuietOK
<1>2. first = <<>> /\ stack = <<>>
  BY <1>1 DEF QuietOK, FirstSees, StackSees, Begun, InFirst, Probing
<1>3. \A p \in DOMAIN Cable : IsKnown(p[1]) /\ p[1] \in Switches => Settled(p, remote)
  <2>1. \A p : /\ ~Called(p[1]) /\ ~ToPush(p) /\ ~ToProbe(p)
               /\ ~InQueue(stack, p) /\ ~IsNext(p)
    BY <1>2 DEF Called, ToPush, ToProbe, InQueue, IsNext, Probing, InLoop
  <2> QED BY <1>1, <2>1 DEF QuietOK, DoneSees, Begun
<1>4. IsKnown(Root) /\ \A p \in DOMAIN Cable : p[1] = Root => IsKnown(Cable[p][1])
  <2>1. \A n : ~ToCall(first, n)
    BY <1>2 DEF ToCall
  <2> QED BY <1>1, <2>1 DEF QuietOK, RootSees, Begun
<1>5. Farthest = PathLen - 1 /\ Farthest \in Nat
  BY RouteAssumption DEF Smooth, Farthest
<1> DEFINE S == {k \in Nat : \A n \in Ball(Cable, k) : IsKnown(n)}
<1>6. 0 \in S
  <2>1. Ball(Cable, 0) = {Root}
    BY BallSteps
  <2> QED BY <1>4, <2>1
<1>7. ASSUME NEW k \in 0..(Farthest - 1), k \in S PROVE k + 1 \in S
  <2>1. k \in Nat /\ k + 1 \in Nat
    BY <1>5
  <2>2. Ball(Cable, k + 1) = Wider(Cable, Ball(Cable, k))
    BY <2>1, BallSteps
  <2>3. \A n \in Ball(Cable, k) : IsKnown(n)
    BY <1>7
  <2>4. \A n \in Ball(Cable, k + 1) : IsKnown(n)
    BY <1>3, <1>4, <2>2, <2>3 DEF Wider, Settled
  <2> QED BY <2>1, <2>4
<1>8. Farthest \in S
  <2> HIDE DEF S
  <2>1. 0..Farthest \subseteq S
    BY <1>5, <1>6, <1>7, IntervalInduction
  <2> QED BY <1>5, <2>1
<1>9. Ball(Cable, PathLen - 1) \subseteq DOMAIN node_map
  BY <1>5, <1>8 DEF IsKnown
<1>10. ASSUME NEW n \in DOMAIN node_map PROVE n \in Ball(Cable, PathLen - 1)
  <2>1. n \in Ball(Cable, DistOf(n)) /\ IsRegular(node_map[n].path)
    BY <1>1, <1>10 DEF KnownSees, KnownAt
  <2>2. DistOf(n) \in Nat /\ DistOf(n) <= Farthest
    BY <2>1, DepthFacts DEF DistOf
  <2>3. Ball(Cable, DistOf(n)) \subseteq Ball(Cable, Farthest)
    BY <1>5, <2>2, BallsGrow
  <2> QED BY <1>5, <2>1, <2>3
<1> QED BY <1>3, <1>9, <1>10 DEF Settled

(* In a well-wired fabric, discovered from an adapter, in which nothing    *)
(* fails and nothing is unplugged, the traversal finds every node, and     *)
(* records every cable of the switches.                                    *)
THEOREM RingFindsAll ==
    ASSUME \A cable \in Cablings : IsCabling(cable), UpState \in {"Active", "Init"}
    PROVE  Spec => []RingComplete
<1>1. Init => QInv
  BY InitSees
<1>2. IInv /\ QInv /\ [Next]_vars => QInv'
  BY QuietInductive
<1>3. IInv /\ QInv => RingComplete
  <2> SUFFICES ASSUME IInv, QInv, pc = "done", quiet, WellWired, ~RootIsSwitch
               PROVE  RingComplete
    BY DEF RingComplete
  <2>1. Smooth
    BY DEF Smooth, QInv, IInv, GraphInv, NodeInv, FabricOK
  <2> QED BY <2>1, DoneFound DEF RingComplete
<1> QED BY Invariance, <1>1, <1>2, <1>3, PTL DEF Spec
-----------------------------------------------------------------------------
(***************************************************************************)
(* What one exchange that fails can cost, while nothing is unplugged: one  *)
(* port is missed, and the switch behind every other port of a known one   *)
(* gets known.                                                             *)
(***************************************************************************)
(* The cables between switches that are not forgotten.                     *)
Bridges(miss) ==
    {p \in DOMAIN Cable \ {miss} : p[1] \in Switches /\ Cable[p][1] \in Switches}
BridgesOf(n, miss) == {p \in Bridges(miss) : p[1] = n}

(* What is left to do for one: it is in the stack, or asked about, until   *)
(* the switch behind it is known.                                          *)
IsReached(p) == IsKnown(Cable[p][1])
IsAsked(p) == item.port = p /\ (pc = "probe" \/ (pc = "loop" /\ job.phase # "lost"))
IsLeft(n, miss, queue) == \A p \in BridgesOf(n, miss) : InQueue(queue, p) \/ IsReached(p)
IsMinded(n, miss) ==
    \A p \in BridgesOf(n, miss) : InQueue(stack, p) \/ IsAsked(p) \/ IsReached(p)

(* The ring ports of a switch just found are about to be pushed.           *)
IsHanded(n) ==
    \/ pc \in {"first", "loop"} /\ job.phase = "found" /\ job.node.guid = n
    \/ Probing /\ host.node.guid = n

(* The cables of the first node are followed one by one.                   *)
IsHop(ports, p) == \E i \in DOMAIN ports : ports[i].number = p[2]
IsFollowed(p) == pc = "first" /\ job.path = FirstHopPath(p[2]) /\ job.phase # "lost"

(* A route to a known node, and one with a hop more, that have passed no   *)
(* more nodes than are known, but for the first hop from a switch back to  *)
(* itself.                                                                 *)
Slack == IF RootIsSwitch THEN 1 ELSE 0
IsNear(path) ==
    /\ IsRegular(path) /\ Depth(path) > 0
    /\ Depth(path) < Cardinality(DOMAIN node_map) + Slack
IsOneMore(path) ==
    /\ IsRegular(path) /\ Depth(path) > 0
    /\ Depth(path) <= Cardinality(DOMAIN node_map) + Slack
QueueMinds(queue) == \A i \in DOMAIN queue : IsNear(queue[i].path) /\ IsKnown(queue[i].port[1])
Behind(port) == IF port \in DOMAIN Cable THEN Cable[port] ELSE Nowhere

(* What the traversal knows of the fabric, and what it has still to do.    *)
Others == (DOMAIN node_map \cap Switches) \ {Root}
WholeMinds(miss) == \A n \in DOMAIN node_map : IsWholeBut(node_map[n], NPorts[n], miss)
LinksMind(links) == \A p \in DOMAIN links : p \in DOMAIN Cable => IsReached(p)
CallMinds(miss) ==
    /\ pc \in {"root", "first", "loop", "end"} => JobMinds(miss)
    /\ pc = "root" => DOMAIN node_map \subseteq {Root} /\ job.path = StartPath /\ stack = <<>>
    /\ pc = "first" => \E q \in 1..NPorts[Root] : job.path = FirstHopPath(q)
    /\ pc = "loop" => IF job.phase = "found" THEN IsNear(job.path)
                      ELSE IsOneMore(item.path) /\ ~IsKnown(Arrival(Cable, item.path)[1])
PlaceMinds ==
    /\ \A i \in DOMAIN first : first[i].number \in 1..NPorts[Root]
    /\ Begun /\ ~InFirst => first = <<>>
    /\ Begun => IsKnown(Root)
    /\ pc = "done" => stack = <<>>
    /\ pc = "probe" => IsOneMore(item.path)
    /\ pc = "probe" \/ InLoop => /\ IsKnown(item.port[1])
                                 /\ Arrival(Cable, item.path) = Behind(item.port)
HostMinds ==
    Probing => /\ host.node = node_map[host.node.guid] /\ host.node.guid \in Switches
               /\ IsNear(host.path) /\ EndsSee(ends)
RootMinds(miss) ==
    Begun => \A p \in BridgesOf(Root, miss) : IsHop(first, p) \/ IsFollowed(p) \/ IsReached(p)
SwitchesMind(miss) == Begun => \A n \in Others : IsHanded(n) \/ IsMinded(n, miss)

MissOK(miss) ==
    /\ WholeMinds(miss) /\ CallMinds(miss) /\ PlaceMinds /\ HostMinds
    /\ QueueMinds(stack) /\ LinksMind(remote) /\ RootMinds(miss) /\ SwitchesMind(miss)
MissInv ==
    faults \in Nat /\ (cut = {} /\ faults <= 1 /\ WellWired => \E miss : IsMissed(miss) /\ MissOK(miss))

(* What every step starts from, while nothing is unplugged.                *)
Steady == FabricOK /\ MapOK /\ cut = {} /\ IsCabling(cabling) /\ WellWired

(* What a node that gets known leaves as it is.                            *)
LEMMA MoreMinds ==
    ASSUME UNCHANGED fabric, MapOK,
           DOMAIN node_map \subseteq DOMAIN node_map', DOMAIN node_map' \subseteq Node
    PROVE  /\ Cable' = Cable /\ Root' = Root /\ RootIsSwitch' = RootIsSwitch
           /\ \A n : IsKnown(n) => IsKnown(n)'
           /\ \A p : IsReached(p) => IsReached(p)'
           /\ \A miss : Bridges(miss)' = Bridges(miss)
           /\ \A n, miss : BridgesOf(n, miss)' = BridgesOf(n, miss)
           /\ \A path : IsNear(path) => IsNear(path)'
           /\ \A path : IsOneMore(path) => IsOneMore(path)'
           /\ \A queue : QueueMinds(queue) => QueueMinds(queue)'
           /\ \A links : LinksMind(links) => LinksMind(links)'
           /\ \A port : Behind(port)' = Behind(port)
           /\ \A path : Arrival(Cable, path)' = Arrival(Cable, path)
           /\ \A q : FirstHopPath(q)' = FirstHopPath(q)
<1>1. /\ Cable' = Cable /\ Root' = Root /\ RootIsSwitch' = RootIsSwitch
      /\ \A path : Arrival(Cable, path)' = Arrival(Cable, path)
      /\ \A path : IsRegular(path)' = IsRegular(path)
  BY SameFabric
<1>2. \A n : IsKnown(n) => IsKnown(n)'
  BY DEF IsKnown
<1>3. \A p : IsReached(p) => IsReached(p)'
  BY <1>1, <1>2 DEF IsReached
<1>4. \A miss : Bridges(miss)' = Bridges(miss)
  BY <1>1 DEF Bridges
<1>5. \A n, miss : BridgesOf(n, miss)' = BridgesOf(n, miss)
  BY <1>4 DEF BridgesOf
<1>6. PICK before \in Nat, after \in Nat :
         /\ before = Cardinality(DOMAIN node_map) /\ after = Cardinality(DOMAIN node_map')
         /\ before <= after
  <2>1. IsFiniteSet(DOMAIN node_map') /\ IsFiniteSet(DOMAIN node_map)
    BY RouteAssumption, FS_Subset DEF MapOK
  <2> QED BY <2>1, FS_Subset, FS_CardinalityType
<1>7. PICK more : more = Slack /\ more \in {0, 1}
  BY DEF Slack
<1>8. Slack' = more
  BY <1>1, <1>7 DEF Slack
<1>9. \A path : IsNear(path) => IsNear(path)'
  <2> SUFFICES ASSUME NEW path, IsNear(path) PROVE IsNear(path)'
    OBVIOUS
  <2>1. IsRegular(path) /\ Depth(path) > 0 /\ Depth(path) < before + more
    BY <1>6, <1>7 DEF IsNear
  <2>2. Depth(path) \in Nat
    BY <2>1, DepthFacts
  <2>3. Depth(path) < after + more
    BY <1>6, <1>7, <2>1, <2>2
  <2>4. Depth(path) < Cardinality(DOMAIN node_map') + Slack'
    BY <1>6, <1>8, <2>3
  <2> QED BY <1>1, <2>1, <2>4 DEF IsNear
<1>10. \A path : IsOneMore(path) => IsOneMore(path)'
  <2> SUFFICES ASSUME NEW path, IsOneMore(path) PROVE IsOneMore(path)'
    OBVIOUS
  <2>1. IsRegular(path) /\ Depth(path) > 0 /\ Depth(path) <= before + more
    BY <1>6, <1>7 DEF IsOneMore
  <2>2. Depth(path) \in Nat
    BY <2>1, DepthFacts
  <2>3. Depth(path) <= after + more
    BY <1>6, <1>7, <2>1, <2>2
  <2>4. Depth(path) <= Cardinality(DOMAIN node_map') + Slack'
    BY <1>6, <1>8, <2>3
  <2> QED BY <1>1, <2>1, <2>4 DEF IsOneMore
<1>11. \A queue : QueueMinds(queue) => QueueMinds(queue)'
  BY <1>2, <1>9 DEF QueueMinds
<1>12. \A links : LinksMind(links) => LinksMind(links)'
  BY <1>1, <1>3 DEF LinksMind
<1>13. \A port : Behind(port)' = Behind(port)
  BY <1>1 DEF Behind
<1>14. \A q : FirstHopPath(q)' = FirstHopPath(q)
  BY <1>1 DEF FirstHopPath
<1> QED BY <1>1, <1>2, <1>3, <1>4, <1>5, <1>9, <1>10, <1>11, <1>12, <1>13, <1>14

(* While no node gets known either nothing that is said changes.           *)
LEMMA SameMinds ==
    ASSUME UNCHANGED fabric, node_map' = node_map, MapOK
    PROVE  /\ \A n : IsKnown(n)' = IsKnown(n)
           /\ \A p : IsReached(p)' = IsReached(p)
           /\ \A miss : WholeMinds(miss)' = WholeMinds(miss)
           /\ \A n, miss, queue : IsLeft(n, miss, queue)' = IsLeft(n, miss, queue)
           /\ Others' = Others
<1>1. /\ Cable' = Cable /\ Root' = Root
      /\ \A n, miss : BridgesOf(n, miss)' = BridgesOf(n, miss)
  BY MoreMinds DEF MapOK
<1>2. \A node, last, miss : IsWholeBut(node, last, miss)' = IsWholeBut(node, last, miss)
  BY SameWhole
<1>3. \A n : IsKnown(n)' = IsKnown(n)
  BY DEF IsKnown
<1>4. \A p : IsReached(p)' = IsReached(p)
  BY <1>1, <1>3 DEF IsReached
<1>5. \A miss : WholeMinds(miss)' = WholeMinds(miss)
  BY <1>2 DEF WholeMinds
<1>6. \A n, miss, queue : IsLeft(n, miss, queue)' = IsLeft(n, miss, queue)
  BY <1>1, <1>4 DEF IsLeft
<1>7. Others' = Others
  BY <1>1 DEF Others
<1> QED BY <1>3, <1>4, <1>5, <1>6, <1>7

(* What is known of a cable between switches.                              *)
LEMMA BridgeFacts ==
    ASSUME Steady, NEW miss, NEW p \in Bridges(miss)
    PROVE  /\ p \in DOMAIN Cable /\ p # miss
           /\ p[1] \in Switches /\ Cable[p][1] \in Switches
           /\ p = <<p[1], p[2]>> /\ p[2] \in 1..NPorts[p[1]] /\ p[2] \in RingPorts
           /\ Cable[p] \in DOMAIN Cable /\ Cable[p] # Nowhere /\ Behind(p) = Cable[p]
<1>1. FabricOK /\ CutOK /\ IsCabling(cabling) /\ WellWired
  BY Uncut DEF Steady
<1>2. /\ p \in DOMAIN Cable /\ p # miss /\ p[1] \in Switches /\ Cable[p][1] \in Switches
  BY DEF Bridges
<1>3. /\ p = <<p[1], p[2]>> /\ p[2] \in 1..NPorts[p[1]]
      /\ Cable[p] \in DOMAIN Cable /\ Cable[p] \in Ports
  BY <1>1, <1>2, CablePairs
<1>4. Cable[p] # Nowhere
  BY <1>3, PortFacts
<1>5. p[2] \in RingPorts /\ Behind(p) = Cable[p]
  BY <1>1, <1>2 DEF WellWired, Behind
<1> QED BY <1>2, <1>3, <1>4, <1>5

(* A route to a known node has room for a hop more where the routes are as *)
(* long as the fabric has nodes.                                           *)
LEMMA NearHasRoom ==
    ASSUME Steady, NEW path, IsNear(path)
    PROVE  HasRoom(path) /\ Depth(path) \in Nat
<1>1. IsFiniteSet(Node) /\ DOMAIN node_map \subseteq Node
  BY RouteAssumption DEF Steady, MapOK
<1>2. PICK known \in Nat, all \in Nat :
         known = Cardinality(DOMAIN node_map) /\ all = Cardinality(Node) /\ known <= all
  BY <1>1, FS_Subset, FS_CardinalityType
<1>3. all < PathLen /\ PathLen \in Nat
  BY <1>2, RouteAssumption DEF Steady, WellWired
<1>4. /\ Depth(path) \in Nat /\ Depth(path) < known + Slack
      /\ HasRoom(path) <=> Depth(path) < Farthest
  BY <1>2, DepthFacts DEF IsNear, HasRoom
<1>5. CASE RootIsSwitch
  <2>1. Farthest = PathLen /\ Slack = 1
    BY <1>5 DEF Farthest, Slack
  <2> QED BY <1>2, <1>3, <1>4, <2>1
<1>6. CASE ~RootIsSwitch
  <2>1. Farthest = PathLen - 1 /\ Slack = 0
    BY <1>6 DEF Farthest, Slack
  <2> QED BY <1>2, <1>3, <1>4, <2>1
<1> QED BY <1>5, <1>6

(* The route across the port of an entry.                                  *)
LEMMA NearCrosses ==
    ASSUME Steady, NEW e, EntryOK(e), IsNear(e.path)
    PROVE  /\ HasRoom(e.path) /\ IsOneMore(RouteAcross(e))
           /\ Arrival(Cable, RouteAcross(e)) = Behind(e.port)
<1> DEFINE path == RouteAcross(e)
<1>1. e.port = <<e.port[1], e.port[2]>> /\ e.port[2] \in 1..255
  <2>1. e.port \in Ports
    BY DEF EntryOK, QueueEntry
  <2>2. e.port \in AllPorts /\ e.port[2] # 0
    BY <2>1, PortFacts
  <2> QED BY <2>2, PortFacts
<1>2. Finds(e.path, e.port[1])
  BY Uncut DEF Steady, EntryOK
<1>3. /\ HasRoom(e.path) /\ IsRegular(e.path) /\ Depth(e.path) \in Nat /\ Depth(e.path) > 0
      /\ Depth(e.path) < Cardinality(DOMAIN node_map) + Slack
  BY NearHasRoom DEF IsNear
<1>4. GetHopCount(e.path) + 1 < PathLen /\ e.path # StartPath
  BY <1>3, StartDepth DEF HasRoom
<1>5. /\ IsRegular(path) /\ Depth(path) = Depth(e.path) + 1
      /\ Arrival(Cable, path) = Across(Cable, Arrival(Cable, e.path), e.port[2])
  BY <1>1, <1>3, <1>4, DepthAcross DEF RouteAcross
<1> HIDE DEF path
<1>6. Across(Cable, Arrival(Cable, e.path), e.port[2]) = Behind(e.port)
  BY <1>1, <1>2 DEF Across, Finds, Behind
<1>7. PICK known \in Nat : known = Cardinality(DOMAIN node_map)
  <2>1. IsFiniteSet(DOMAIN node_map)
    BY RouteAssumption, FS_Subset DEF Steady, MapOK
  <2> QED BY <2>1, FS_CardinalityType
<1>8. PICK more \in {0, 1} : more = Slack
  BY DEF Slack
<1>9. Depth(path) > 0 /\ Depth(path) <= known + more
  BY <1>3, <1>5, <1>7, <1>8
<1>10. IsOneMore(path)
  BY <1>5, <1>7, <1>8, <1>9 DEF IsOneMore
<1> QED BY <1>3, <1>5, <1>6, <1>10 DEF path

(* A link leads to what is known, if both of its ends are.                 *)
LEMMA LinkedMinds ==
    ASSUME Steady, LinksMind(remote), NEW local \in DOMAIN Cable, IsKnown(local[1]),
           NEW port, port = Cable[local], IsKnown(port[1]),
           NEW links, links = Linked(local, port)
    PROVE  LinksMind(links)
<1>1. FabricOK /\ CutOK /\ IsCabling(cabling)
  BY Uncut DEF Steady
<1>2. port \in DOMAIN Cable /\ Cable[port] = local
  BY <1>1, CablePairs
<1>3. IsReached(local) /\ IsReached(port)
  BY <1>2 DEF IsReached
<1>4. CASE port[2] \in PortNumbers(node_map[port[1]])
  <2>1. links = Put(Put(remote, port, local), local, port)
    BY <1>4 DEF Linked
  <2>2. DOMAIN links = DOMAIN remote \cup {local, port}
    BY <2>1 DEF Put
  <2> QED BY <1>3, <2>2 DEF LinksMind
<1>5. CASE port[2] \notin PortNumbers(node_map[port[1]])
  BY <1>5 DEF Linked
<1> QED BY <1>4, <1>5

(* What is pushed before a queue is part of it.                            *)
LEMMA PushMinds ==
    ASSUME NEW more, QueueOK(more), QueueMinds(more),
           NEW queue, QueueOK(queue), QueueMinds(queue)
    PROVE  /\ QueueMinds(more \o queue)
           /\ \A p : InQueue(more, p) \/ InQueue(queue, p) => InQueue(more \o queue, p)
<1>1. PICK all : all = more \o queue
  OBVIOUS
<1>2. queue \in Seq(QueueEntry) /\ more \in Seq(QueueEntry)
  BY DEF QueueOK
<1>3. /\ \A i \in DOMAIN all : \/ i \in DOMAIN more /\ all[i] = more[i]
                               \/ i - Len(more) \in DOMAIN queue /\ all[i] = queue[i - Len(more)]
      /\ \A i \in DOMAIN more : i \in DOMAIN all /\ all[i] = more[i]
      /\ \A k \in DOMAIN queue : k + Len(more) \in DOMAIN all /\ all[k + Len(more)] = queue[k]
  BY <1>1, <1>2
<1>4. QueueMinds(all)
  BY <1>3 DEF QueueMinds
<1>5. \A p : InQueue(more, p) \/ InQueue(queue, p) => InQueue(all, p)
  BY <1>3 DEF InQueue
<1> QED BY <1>1, <1>4, <1>5

-----------------------------------------------------------------------------
(* Pieces of the steps.                                                    *)

(* The next port is taken, or the traversal is over: what is left to do is *)
(* still in the stack, or is done next.                                    *)
LEMMA TraverseMinds ==
    ASSUME Steady, UNCHANGED fabric, node_map' = node_map,
           NEW queue, QueueOK(queue), QueueMinds(queue),
           NEW links, LinksMind(links), remote' = links, Traverse(queue, links),
           NEW miss, WholeMinds(miss), IsKnown(Root),
           \A p \in BridgesOf(Root, miss) : IsReached(p),
           \A n \in Others : IsLeft(n, miss, queue)
    PROVE  MissOK(miss)'
<1> DEFINE open == {i \in DOMAIN queue : IsOpen(queue[i], links)}
<1>0. MapOK
  BY DEF Steady
<1>1. first' = <<>> /\ pc' \in {"done", "probe"}
  BY DEF Traverse
<1>2. /\ Cable' = Cable /\ Root' = Root
      /\ \A n, m : BridgesOf(n, m)' = BridgesOf(n, m)
      /\ \A path : IsOneMore(path) => IsOneMore(path)'
      /\ \A q : QueueMinds(q) => QueueMinds(q)'
      /\ \A port : Behind(port)' = Behind(port)
      /\ \A path : Arrival(Cable, path)' = Arrival(Cable, path)
      /\ LinksMind(links)'
  BY <1>0, MoreMinds DEF MapOK
<1>3. /\ \A n : IsKnown(n)' = IsKnown(n)
      /\ \A p : IsReached(p)' = IsReached(p)
      /\ WholeMinds(miss)' /\ Others' = Others
  BY <1>0, SameMinds
<1>4. ~Probing' /\ ~InLoop' /\ Begun'
  BY <1>1 DEF Probing, InLoop, Begun
<1>5. CallMinds(miss)' /\ HostMinds'
  BY <1>1, <1>4 DEF CallMinds, HostMinds
<1>6. IsKnown(Root)'
  BY <1>2, <1>3
<1>7. LinksMind(remote)'
  <2>1. LinksMind(links)' <=> LinksMind(remote)'
    BY DEF LinksMind
  <2> QED BY <1>2, <2>1
<1>8. RootMinds(miss)'
  <2>1. \A p \in BridgesOf(Root, miss)' : IsReached(p)'
    <3>1. PICK n : n = Root /\ n = Root'
      BY <1>2
    <3>2. \A p \in BridgesOf(n, miss)' : IsReached(p)'
      BY <1>2, <1>3, <3>1
    <3> QED BY <3>1, <3>2 DEF BridgesOf
  <2> QED BY <2>1 DEF RootMinds
<1>9. ASSUME NEW p, NEW m, p \in Bridges(m), NEW i \in DOMAIN queue, i \notin open, queue[i].port = p
      PROVE  IsReached(p)
  <2>1. p \in DOMAIN Cable /\ p[2] # 0
    <3>1. p \in DOMAIN Cable /\ p[2] \in 1..NPorts[p[1]]
      BY <1>9, BridgeFacts
    <3> QED BY <3>1
  <2>2. HasRoom(queue[i].path)
    BY <1>9, NearHasRoom DEF QueueMinds
  <2>3. p \in DOMAIN links
    BY <1>9, <2>1, <2>2 DEF IsOpen
  <2> QED BY <2>1, <2>3 DEF LinksMind
<1>10. CASE open = {}
  <2>1. pc' = "done" /\ stack' = <<>>
    BY <1>10 DEF Traverse
  <2>2. PlaceMinds' /\ QueueMinds(stack)'
    BY <1>1, <1>4, <1>6, <2>1 DEF PlaceMinds, QueueMinds
  <2>3. ASSUME NEW n \in Others PROVE IsMinded(n, miss)'
    <3>1. \A i \in DOMAIN queue : i \notin open
      BY <1>10
    <3> HIDE DEF open
    <3>2. ASSUME NEW p \in BridgesOf(n, miss) PROVE IsReached(p)
      <4>1. p \in Bridges(miss) /\ IsLeft(n, miss, queue)
        BY <2>3, <3>2 DEF BridgesOf
      <4> QED BY <1>9, <3>1, <3>2, <4>1 DEF IsLeft, InQueue
    <3> QED BY <1>2, <1>3, <3>2 DEF IsMinded
  <2>4. SwitchesMind(miss)'
    BY <1>3, <2>3 DEF SwitchesMind
  <2> QED BY <1>3, <1>5, <1>7, <1>8, <2>2, <2>4 DEF MissOK
<1>11. CASE open # {}
  <2> DEFINE i == Min(open)
             e == queue[i]
  <2>1. /\ pc' = "probe" /\ stack' = SubSeq(queue, i + 1, Len(queue))
        /\ item' = [port |-> e.port, path |-> RouteAcross(e)]
    BY <1>11 DEF Traverse
  <2>2. i \in open /\ \A j \in open : i <= j
    <3>1. open \in SUBSET DOMAIN queue
      OBVIOUS
    <3>2. DOMAIN queue \subseteq Nat
      BY DEF QueueOK
    <3> HIDE DEF open
    <3>3. \E k \in open : \A j \in open : k <= j
      BY <1>11, <3>1, <3>2, LeastNat
    <3> QED BY <3>3 DEF Min
  <2>3. i \in DOMAIN queue /\ i \in Nat
    BY <2>2 DEF QueueOK
  <2> HIDE DEF i
  <2>4. PICK rest : rest = SubSeq(queue, i + 1, Len(queue))
    OBVIOUS
  <2>5. /\ \A j \in DOMAIN rest : j + i \in DOMAIN queue /\ rest[j] = queue[j + i]
        /\ \A j \in DOMAIN queue : i < j => j - i \in DOMAIN rest /\ rest[j - i] = queue[j]
    <3>1. queue \in Seq(QueueEntry)
      BY DEF QueueOK
    <3>2. \A j \in DOMAIN rest : j + i \in DOMAIN queue /\ rest[j] = queue[j + i]
      BY <2>3, <2>4, <3>1, SMTT(30)
    <3>3. \A j \in DOMAIN queue : i < j => j - i \in DOMAIN rest /\ rest[j - i] = queue[j]
      BY <2>3, <2>4, <3>1, SMTT(30)
    <3> QED BY <3>2, <3>3
  <2>6. EntryOK(e) /\ IsNear(e.path) /\ IsKnown(e.port[1])
    BY <2>3 DEF QueueOK, QueueMinds
  <2>7. QueueMinds(rest)
    BY <2>5 DEF QueueMinds
  <2>8. PICK port : port = e.port
    OBVIOUS
  <2>9. PICK path : path = RouteAcross(e)
    OBVIOUS
  <2>10. IsOneMore(path) /\ Arrival(Cable, path) = Behind(port) /\ IsKnown(port[1])
    BY <2>6, <2>8, <2>9, NearCrosses
  <2>11. item'.port = port /\ item'.path = path /\ stack' = rest
    BY <2>1, <2>4, <2>8, <2>9
  <2>12. PlaceMinds'
    <3>1. IsOneMore(path)' /\ IsKnown(port[1])' /\ Arrival(Cable, path)' = Behind(port)'
      BY <1>2, <1>3, <2>10
    <3>2. IsOneMore(item.path)' /\ IsKnown(item.port[1])'
      BY <2>11, <3>1
    <3>3. Arrival(Cable, item.path)' = Behind(item.port)'
      BY <2>11, <3>1
    <3> QED BY <1>1, <1>6, <2>1, <3>2, <3>3 DEF PlaceMinds
  <2>13. QueueMinds(stack)'
    <3>1. QueueMinds(rest)'
      BY <1>2, <2>7
    <3> QED BY <2>11, <3>1
  <2>14. ASSUME NEW n, NEW p \in BridgesOf(n, miss), IsLeft(n, miss, queue)
         PROVE  InQueue(rest, p) \/ port = p \/ IsReached(p)
    <3>1. p \in Bridges(miss)
      BY <2>14 DEF BridgesOf
    <3>2. ASSUME NEW j \in DOMAIN queue, queue[j].port = p
          PROVE  InQueue(rest, p) \/ port = p \/ IsReached(p)
      <4>0. j \in Nat
        BY DEF QueueOK
      <4>1. CASE i < j
        BY <4>1, <2>5, <3>2 DEF InQueue
      <4>2. CASE i = j
        BY <4>2, <2>8, <3>2
      <4>3. CASE j < i
        <5>1. j \notin open
          BY <2>2, <2>3, <4>0, <4>3
        <5> QED BY <5>1, <1>9, <3>1, <3>2
      <4> QED BY <4>0, <4>1, <4>2, <4>3, <2>3
    <3> QED BY <3>2, <2>14 DEF IsLeft, InQueue
  <2>15. ASSUME NEW n \in Others PROVE IsMinded(n, miss)'
    <3>1. \A p \in BridgesOf(n, miss) : InQueue(rest, p) \/ port = p \/ IsReached(p)
      BY <2>14, <2>15
    <3>2. \A p : InQueue(rest, p) => InQueue(stack, p)'
      BY <2>11 DEF InQueue
    <3>3. \A p : port = p => IsAsked(p)'
      BY <2>1, <2>11 DEF IsAsked
    <3>4. \A p \in BridgesOf(n, miss)' : InQueue(stack, p)' \/ IsAsked(p)' \/ IsReached(p)'
      BY <1>2, <1>3, <3>1, <3>2, <3>3
    <3> QED BY <3>4 DEF IsMinded
  <2>16. SwitchesMind(miss)'
    BY <1>3, <2>15 DEF SwitchesMind
  <2> QED BY <1>3, <1>5, <1>7, <1>8, <2>12, <2>13, <2>16 DEF MissOK
<1> QED BY <1>10, <1>11

(* A discovery is given up.                                                *)
LEMMA FailMinds ==
    ASSUME MapOK, UNCHANGED fabric, node_map' = node_map, remote' = remote, first' = first,
           pc' = "failed", NEW queue, QueueMinds(queue), stack' = queue, NEW miss, MissOK(miss)
    PROVE  MissOK(miss)'
<1>1. Root' = Root /\ QueueMinds(queue)' /\ (LinksMind(remote) => LinksMind(remote)')
  <2>1. PICK links : links = remote /\ links = remote'
    OBVIOUS
  <2>2. LinksMind(links) => LinksMind(links)'
    BY MoreMinds DEF MapOK
  <2>3. LinksMind(remote) => LinksMind(remote)'
    BY <2>1, <2>2 DEF LinksMind
  <2> QED BY <2>3, MoreMinds DEF MapOK
<1>2. WholeMinds(miss)'
  BY SameMinds DEF MissOK
<1>3. ~Begun' /\ ~Probing' /\ ~InLoop'
  BY DEF Begun, Probing, InLoop
<1>4. PlaceMinds'
  BY <1>1, <1>3 DEF MissOK, PlaceMinds
<1>5. QueueMinds(stack)'
  BY <1>1
<1>6. /\ CallMinds(miss)' /\ HostMinds' /\ RootMinds(miss)' /\ SwitchesMind(miss)'
  BY <1>3 DEF CallMinds, HostMinds, RootMinds, SwitchesMind
<1> QED BY <1>1, <1>2, <1>4, <1>5, <1>6 DEF MissOK

(* The loop links its current port and goes on, or gives up.               *)
LEMMA LinkAndTraverseMinds ==
    ASSUME Steady, UNCHANGED fabric, node_map' = node_map,
           NEW local, local = item.port, local \in DOMAIN Cable, IsKnown(local[1]),
           NEW port, port = Cable[local], IsKnown(port[1]),
           NEW queue, QueueOK(queue), QueueMinds(queue), LinkAndTraverse(queue, port),
           NEW miss, MissOK(miss), IsKnown(Root),
           \A p \in BridgesOf(Root, miss) : IsReached(p),
           \A n \in Others : IsLeft(n, miss, queue)
    PROVE  MissOK(miss)'
<1>1. WholeMinds(miss) /\ LinksMind(remote) /\ MapOK
  BY DEF MissOK, Steady
<1>2. CASE port[2] \in PortNumbers(node_map[port[1]])
  <2>1. PICK links : links = Linked(local, port)
    OBVIOUS
  <2>2. remote' = links /\ Traverse(queue, links)
    BY <1>2, <2>1 DEF LinkAndTraverse
  <2>3. LinksMind(links)
    BY <1>1, <2>1, LinkedMinds
  <2> QED BY <1>1, <2>2, <2>3, TraverseMinds
<1>3. CASE port[2] \notin PortNumbers(node_map[port[1]])
  <2>1. pc' = "failed" /\ stack' = queue /\ remote' = remote /\ first' = first
    BY <1>3 DEF LinkAndTraverse
  <2> QED BY <1>1, <2>1, FailMinds
<1> QED BY <1>2, <1>3

(* The first hop goes on: every cable of the first node is followed, or    *)
(* has been.                                                               *)
LEMMA FirstHopMinds ==
    ASSUME Steady, UNCHANGED fabric, node_map' = node_map,
           NEW ports \in Seq(PortRecord),
           \A i \in DOMAIN ports : ports[i].number \in 1..NPorts[Root],
           NEW queue, QueueOK(queue), QueueMinds(queue),
           LinksMind(remote), remote' = remote, FirstHop(ports, queue),
           NEW miss, WholeMinds(miss), IsKnown(Root),
           \A p \in BridgesOf(Root, miss) : IsHop(ports, p) \/ IsReached(p),
           \A n \in Others : IsLeft(n, miss, queue)
    PROVE  MissOK(miss)'
<1>0. MapOK
  BY DEF Steady
<1>1. CASE ports = <<>>
  <2>1. Traverse(queue, remote)
    BY <1>1 DEF FirstHop
  <2>2. \A p : ~IsHop(ports, p)
    BY <1>1 DEF IsHop
  <2>3. PICK links : links = remote
    OBVIOUS
  <2> QED BY <2>1, <2>2, <2>3, TraverseMinds
<1>2. CASE ports # <<>>
  <2>1. /\ pc' = "first" /\ job' = Call(FirstHopPath(Head(ports).number))
        /\ first' = Tail(ports) /\ stack' = queue
    BY <1>2 DEF FirstHop
  <2>2. PICK q : q = Head(ports).number
    OBVIOUS
  <2>3. PICK rest : rest = Tail(ports)
    OBVIOUS
  <2>4. /\ 1 \in DOMAIN ports /\ ports[1] = Head(ports)
        /\ \A i \in DOMAIN rest : i + 1 \in DOMAIN ports /\ rest[i] = ports[i + 1]
        /\ \A i \in DOMAIN ports \ {1} : i - 1 \in DOMAIN rest /\ rest[i - 1] = ports[i]
    <3>1. 1 \in DOMAIN ports /\ ports[1] = Head(ports)
      BY <1>2
    <3>2. \A i \in DOMAIN rest : i + 1 \in DOMAIN ports /\ rest[i] = ports[i + 1]
      BY <1>2, <2>3
    <3>3. \A i \in DOMAIN ports \ {1} : i - 1 \in DOMAIN rest /\ rest[i - 1] = ports[i]
      BY <1>2, <2>3, SMTT(30)
    <3> QED BY <3>1, <3>2, <3>3
  <2>5. q \in 1..NPorts[Root]
    <3>1. 1 \in DOMAIN ports /\ q = ports[1].number
      BY <2>2, <2>4, ZenonT(30)
    <3> QED BY <3>1, ZenonT(30)
  <2>6. \A p : IsHop(ports, p) => q = p[2] \/ IsHop(rest, p)
    BY <2>2, <2>4 DEF IsHop
  <2>7. /\ Root' = Root
        /\ \A n, m : BridgesOf(n, m)' = BridgesOf(n, m)
        /\ QueueMinds(queue)'
        /\ \A k : FirstHopPath(k)' = FirstHopPath(k)
    BY <1>0, MoreMinds DEF MapOK
  <2>8. /\ \A n : IsKnown(n)' = IsKnown(n)
        /\ \A p : IsReached(p)' = IsReached(p)
        /\ WholeMinds(miss)' /\ Others' = Others
    BY <1>0, SameMinds
  <2>9. job'.phase = "nodeInfo" /\ job'.path = FirstHopPath(q)
    BY <2>1, <2>2 DEF Call
  <2>10. ~Probing' /\ ~InLoop' /\ Begun' /\ InFirst'
    BY <2>1 DEF Probing, InLoop, Begun, InFirst
  <2>11. CallMinds(miss)' /\ HostMinds'
    <3>1. JobMinds(miss)'
      BY <2>9 DEF JobMinds
    <3>2. \E k \in 1..NPorts[Root'] : job'.path = FirstHopPath(k)'
      BY <2>5, <2>7, <2>9
    <3> QED BY <2>1, <2>10, <3>1, <3>2 DEF CallMinds, HostMinds
  <2>12. PlaceMinds'
    <3>1. \A i \in DOMAIN rest : rest[i].number \in 1..NPorts[Root]
      BY <2>4
    <3>2. IsKnown(Root)'
      BY <2>7, <2>8
    <3> QED BY <2>1, <2>3, <2>7, <2>10, <3>1, <3>2 DEF PlaceMinds
  <2>13. QueueMinds(stack)' /\ LinksMind(remote)'
    <3>1. QueueMinds(stack)'
      BY <2>1, <2>7
    <3>2. PICK links : links = remote /\ links = remote'
      OBVIOUS
    <3>3. LinksMind(links)'
      BY <1>0, <3>2, MoreMinds DEF MapOK
    <3>4. LinksMind(remote)'
      BY <3>2, <3>3 DEF LinksMind
    <3> QED BY <3>1, <3>4
  <2>14. RootMinds(miss)'
    <3>1. PICK n : n = Root /\ n = Root'
      BY <2>7
    <3>2. ASSUME NEW p \in BridgesOf(n, miss)
          PROVE  IsHop(first, p)' \/ IsFollowed(p)' \/ IsReached(p)'
      <4>1. CASE q = p[2]
        BY <2>1, <2>7, <2>9, <4>1 DEF IsFollowed
      <4>2. CASE IsHop(rest, p)
        BY <2>1, <2>3, <4>2 DEF IsHop
      <4>3. CASE IsReached(p)
        BY <2>8, <4>3
      <4> QED BY <2>6, <3>1, <3>2, <4>1, <4>2, <4>3
    <3>3. \A p \in BridgesOf(Root, miss)' : IsHop(first, p)' \/ IsFollowed(p)' \/ IsReached(p)'
      <4>1. BridgesOf(Root, miss)' = BridgesOf(n, miss)
        <5>1. BridgesOf(Root, miss)' = BridgesOf(n, miss)'
          BY <3>1 DEF BridgesOf
        <5> QED BY <5>1, <2>7
      <4> QED BY <3>2, <4>1
    <3> QED BY <3>3 DEF RootMinds
  <2>15. SwitchesMind(miss)'
    <3>1. ASSUME NEW n \in Others PROVE IsMinded(n, miss)'
      <4>1. \A p \in BridgesOf(n, miss) : InQueue(queue, p) \/ IsReached(p)
        BY <3>1 DEF IsLeft
      <4>2. \A p : InQueue(queue, p) => InQueue(stack, p)'
        BY <2>1 DEF InQueue
      <4> QED BY <2>7, <2>8, <4>1, <4>2 DEF IsMinded
    <3> QED BY <2>8, <3>1 DEF SwitchesMind
  <2> QED BY <2>8, <2>11, <2>12, <2>13, <2>14, <2>15 DEF MissOK
<1> QED BY <1>1, <1>2

(* Whatever else happens, what is left to do stays left, or is done.       *)
LEMMA AgendaStays ==
    ASSUME UNCHANGED fabric, MapOK,
           DOMAIN node_map \subseteq DOMAIN node_map', DOMAIN node_map' \subseteq Node,
           NEW miss, Begun, RootMinds(miss), SwitchesMind(miss),
           \A p : IsHop(first, p) => IsHop(first, p)',
           \A p \in BridgesOf(Root, miss) : IsFollowed(p) => IsFollowed(p)' \/ IsReached(p)',
           \A p \in Bridges(miss) : InQueue(stack, p) => InQueue(stack, p)',
           \A p \in Bridges(miss) : IsAsked(p) => IsAsked(p)' \/ IsReached(p)',
           \A n : IsHanded(n) => IsHanded(n)',
           \A n \in Others' : n \in Others \/ IsHanded(n)'
    PROVE  RootMinds(miss)' /\ SwitchesMind(miss)'
<1>1. /\ Root' = Root
      /\ \A p : IsReached(p) => IsReached(p)'
      /\ \A n, m : BridgesOf(n, m)' = BridgesOf(n, m)
  BY MoreMinds
<1>2. RootMinds(miss)'
  <2>1. PICK n : n = Root /\ n = Root'
    BY <1>1
  <2>2. BridgesOf(Root, miss)' = BridgesOf(n, miss)
    <3>1. BridgesOf(Root, miss)' = BridgesOf(n, miss)'
      BY <2>1 DEF BridgesOf
    <3> QED BY <3>1, <1>1
  <2>3. \A p \in BridgesOf(n, miss) : IsHop(first, p)' \/ IsFollowed(p)' \/ IsReached(p)'
    BY <1>1, <2>1 DEF RootMinds
  <2> QED BY <2>2, <2>3 DEF RootMinds
<1>3. SwitchesMind(miss)'
  <2>1. ASSUME NEW n, IsMinded(n, miss) PROVE IsMinded(n, miss)'
    <3>1. \A p \in BridgesOf(n, miss) :
             p \in Bridges(miss) /\ (InQueue(stack, p) \/ IsAsked(p) \/ IsReached(p))
      BY <2>1 DEF IsMinded, BridgesOf
    <3>2. \A p \in BridgesOf(n, miss)' : InQueue(stack, p)' \/ IsAsked(p)' \/ IsReached(p)'
      BY <1>1, <3>1
    <3> QED BY <3>2 DEF IsMinded
  <2>2. \A n \in Others : IsHanded(n) \/ IsMinded(n, miss)
    BY DEF SwitchesMind
  <2>3. \A n \in Others' : IsHanded(n)' \/ IsMinded(n, miss)'
    BY <2>1, <2>2
  <2> QED BY <2>3 DEF SwitchesMind
<1> QED BY <1>2, <1>3

-----------------------------------------------------------------------------
(* What the steps know when they begin.                                    *)

(* The parts of the invariant that most steps need.                        *)
LEMMA MindFacts ==
    ASSUME IInv, Steady, NEW miss, MissOK(miss)
    PROVE  /\ QueueOK(stack) /\ QueueMinds(stack) /\ LinksMind(remote) /\ WholeMinds(miss)
           /\ JobOK /\ MapOK /\ FabricOK /\ CutOK /\ IsCabling(cabling) /\ cut = {}
           /\ first \in Seq(PortRecord)
<1>1. FabricOK /\ MapOK /\ IsCabling(cabling) /\ cut = {}
  BY DEF Steady
<1>2. CutOK
  BY <1>1, Uncut
<1>3. JobOK
  BY DEF IInv, GraphInv, NodeInv
<1>4. QueueOK(stack) /\ first \in Seq(PortRecord)
  BY DEF IInv, TraversalOK
<1>5. QueueMinds(stack) /\ LinksMind(remote) /\ WholeMinds(miss)
  BY DEF MissOK
<1> QED BY <1>1, <1>2, <1>3, <1>4, <1>5

(* After the first hop every neighbour of the first node is known.         *)
LEMMA RootReached ==
    ASSUME NEW miss, MissOK(miss), Begun, ~InFirst
    PROVE  IsKnown(Root) /\ \A p \in BridgesOf(Root, miss) : IsReached(p)
<1>1. first = <<>> /\ IsKnown(Root)
  BY DEF MissOK, PlaceMinds
<1>2. \A p : ~IsHop(first, p)
  BY <1>1 DEF IsHop
<1>3. \A p : ~IsFollowed(p)
  BY DEF IsFollowed, InFirst
<1> QED BY <1>1, <1>2, <1>3 DEF MissOK, RootMinds

(* A switch that has been found is near.                                   *)
LEMMA SwitchMinds ==
    ASSUME IInv, Steady, NEW miss, MissOK(miss), pc \in {"first", "loop"}, job.phase = "found",
           NEW guid, guid = job.node.guid, guid \in Switches
    PROVE  /\ RecordOK(job.node) /\ IsKnown(guid) /\ job.node = node_map[guid]
           /\ IsNear(job.path) /\ HasRoom(job.path)
<1>1. CallMinds(miss)
  BY DEF MissOK
<1>2. MapOK /\ FabricOK /\ JobOK
  BY MindFacts
<1>3. job.node = node_map[guid]
  BY <1>1 DEF CallMinds, JobMinds
<1>4. RecordOK(job.node) /\ IsKnown(guid)
  BY <1>2 DEF JobOK, IsKnown
<1>5. ASSUME pc = "loop" PROVE IsNear(job.path)
  BY <1>1, <1>5 DEF CallMinds
<1>6. ASSUME pc = "first" PROVE IsNear(job.path)
  <2>1. PICK q \in 1..NPorts[Root] : job.path = FirstHopPath(q)
    BY <1>1, <1>6 DEF CallMinds
  <2>2. IsRegular(job.path) /\ Depth(job.path) = 1
    BY <1>2, <2>1, FirstHopLeads
  <2>3. IsKnown(Root)
    BY <1>6 DEF MissOK, PlaceMinds, Begun
  <2>4. PICK known \in Nat : known = Cardinality(DOMAIN node_map)
    <3>1. IsFiniteSet(DOMAIN node_map)
      BY <1>2, RouteAssumption, FS_Subset DEF MapOK
    <3> QED BY <3>1, FS_CardinalityType
  <2>5. known # 0
    <3>1. IsFiniteSet(DOMAIN node_map) /\ DOMAIN node_map # {}
      BY <1>2, <2>3, RouteAssumption, FS_Subset DEF MapOK, IsKnown
    <3> QED BY <2>4, <3>1, FS_EmptySet
  <2>6. PICK more : more = Slack
    OBVIOUS
  <2>7. 1 < known + more
    <3>1. CASE RootIsSwitch
      <4>1. more = 1
        BY <2>6, <3>1 DEF Slack
      <4> QED BY <2>4, <2>5, <4>1
    <3>2. CASE ~RootIsSwitch
      <4>1. more = 0
        BY <2>6, <3>2 DEF Slack
      <4>2. Root # guid
        BY <3>2 DEF RootIsSwitch
      <4>3. 1 < known
        BY <1>2, <1>4, <2>3, <2>4, <4>2, TwoKnown
      <4> QED BY <4>1, <4>3, <2>4
    <3> QED BY <3>1, <3>2
  <2>8. Depth(job.path) > 0 /\ Depth(job.path) < known + more
    BY <2>2, <2>7
  <2> QED BY <2>2, <2>4, <2>6, <2>8 DEF IsNear
<1>7. IsNear(job.path)
  BY <1>5, <1>6
<1>8. HasRoom(job.path)
  BY <1>7, NearHasRoom
<1> QED BY <1>3, <1>4, <1>7, <1>8

(* The loop's port, where its route leads to a node.                       *)
LEMMA LoopPort ==
    ASSUME IInv, Steady, NEW miss, MissOK(miss), InLoop, NEW guid, LeadsTo(item.path, guid)
    PROVE  /\ item.port \in DOMAIN Cable /\ IsKnown(item.port[1])
           /\ Cable[item.port] = probed /\ probed = <<guid, probed[2]>> /\ probed[1] = guid
<1>1. ItemOK(item) /\ probed = Arrival(cabling, item.path) /\ probed # Nowhere
  BY DEF IInv, TraversalOK
<1>2. item.port \in DOMAIN cabling /\ probed = cabling[item.port]
  BY <1>1 DEF ItemOK
<1>3. FabricOK /\ CutOK /\ IsCabling(cabling) /\ cut = {}
  BY MindFacts
<1>4. item.port \in DOMAIN Cable /\ Cable[item.port] = probed
  BY <1>2, <1>3, Uncut
<1>5. probed \in DOMAIN Cable
  BY <1>3, <1>4, CablePairs
<1>6. probed = <<probed[1], probed[2]>>
  BY <1>3, <1>5, CablePairs
<1>7. probed[1] = guid
  BY <1>1 DEF LeadsTo
<1>8. IsKnown(item.port[1])
  BY DEF MissOK, PlaceMinds
<1> QED BY <1>4, <1>6, <1>7, <1>8

(* What is pushed for the switch whose ends have been probed.              *)
LEMMA HostQueueMinds ==
    ASSUME IInv, Steady, NEW miss, MissOK(miss), Probing,
           NEW queue, queue = RingEntries(host.node, host.path) \o stack
    PROVE  /\ QueueOK(queue) /\ QueueMinds(queue)
           /\ \A p : InQueue(stack, p) => InQueue(queue, p)
           /\ IsLeft(host.node.guid, miss, queue)
<1>1. /\ RecordOK(host.node) /\ host.node.guid \in DOMAIN node_map
      /\ IsRoute(host.path) /\ LeadsTo(host.path, host.node.guid)
  BY DEF IInv, ProbingOK, Probing
<1>2. host.node = node_map[host.node.guid] /\ IsNear(host.path)
  BY DEF MissOK, HostMinds
<1>3. /\ FabricOK /\ CutOK /\ IsCabling(cabling)
      /\ QueueOK(stack) /\ QueueMinds(stack) /\ WholeMinds(miss)
  BY MindFacts
<1>4. PICK guid : guid = host.node.guid
  OBVIOUS
<1>5. PICK node : node = host.node
  OBVIOUS
<1>6. RecordOK(node) /\ node.guid = guid /\ IsWholeBut(node, NPorts[guid], miss) /\ IsKnown(guid)
  BY <1>1, <1>2, <1>3, <1>4, <1>5 DEF WholeMinds, IsKnown
<1>7. PICK more : more = RingEntries(node, host.path)
  OBVIOUS
<1>8. QueueOK(more)
  BY <1>1, <1>5, <1>7, RingQueue
<1>9. /\ \A k \in DOMAIN more : more[k].path = host.path /\ more[k].port[1] = guid
      /\ \A i \in DOMAIN node.ports : IsRing(node.ports[i]) =>
            InQueue(more, <<guid, node.ports[i].number>>)
  BY <1>3, <1>6, <1>7, RingCovers
<1>10. QueueMinds(more)
  BY <1>2, <1>6, <1>9 DEF QueueMinds
<1>11. ASSUME NEW p \in BridgesOf(guid, miss) PROVE InQueue(more, p)
  <2>1. p \in Bridges(miss) /\ p[1] = guid
    BY <1>11 DEF BridgesOf
  <2>2. /\ p = <<guid, p[2]>> /\ p \in DOMAIN Cable \ {miss}
        /\ p[2] \in 1..NPorts[guid] /\ p[2] \in RingPorts
    BY <2>1, BridgeFacts
  <2>3. PICK i \in DOMAIN node.ports : node.ports[i].number = p[2] /\ IsEligible(node.ports[i])
    BY <1>6, <2>2 DEF IsWholeBut
  <2>4. IsRing(node.ports[i])
    BY <2>2, <2>3 DEF IsRing
  <2>5. InQueue(more, <<guid, node.ports[i].number>>)
    BY <1>9, <2>4
  <2> QED BY <2>2, <2>3, <2>5
<1>12. queue = more \o stack
  BY <1>5, <1>7
<1>13. QueueOK(queue)
  BY <1>3, <1>8, <1>12, QueueConcat
<1>14. /\ QueueMinds(queue)
       /\ \A p : InQueue(more, p) \/ InQueue(stack, p) => InQueue(queue, p)
  BY <1>3, <1>8, <1>10, <1>12, PushMinds
<1>15. IsLeft(guid, miss, queue)
  BY <1>11, <1>14 DEF IsLeft
<1> QED BY <1>4, <1>13, <1>14, <1>15

(* A neighbour by whose port the first hop has gone is known once it is    *)
(* found.                                                                  *)
LEMMA FollowedReached ==
    ASSUME IInv, Steady, NEW miss, MissOK(miss), job.phase = "found",
           NEW p \in BridgesOf(Root, miss), IsFollowed(p)
    PROVE  IsReached(p)
<1>1. p \in Bridges(miss) /\ p[1] = Root
  BY DEF BridgesOf
<1>2. p \in DOMAIN Cable /\ p = <<Root, p[2]>> /\ p[2] \in 1..NPorts[Root]
  BY <1>1, BridgeFacts
<1>3. FabricOK /\ JobOK /\ cut = {}
  BY MindFacts
<1>4. Arrival(Cable, FirstHopPath(p[2])) = Cable[p]
  BY <1>2, <1>3, FirstHopLeads
<1>5. LeadsTo(job.path, job.node.guid) /\ IsKnown(job.node.guid)
  BY <1>3 DEF JobOK, IsKnown
<1>6. Finds(job.path, job.node.guid)
  BY <1>3, <1>5, Uncut
<1>7. Cable[p][1] = job.node.guid
  BY <1>4, <1>6 DEF IsFollowed, Finds
<1> QED BY <1>5, <1>7 DEF IsReached

-----------------------------------------------------------------------------
(* The steps.                                                              *)

(* The first node has been found: its ports are followed.                  *)
LEMMA RootFoundMinds ==
    ASSUME IInv, Steady, NEW miss, MissOK(miss), RootFound PROVE MissOK(miss)'
<1>1. /\ pc = "root" /\ job.phase = "found" /\ UNCHANGED fabric /\ node_map' = node_map
      /\ remote' = remote /\ FirstHop(Filter(job.node.ports, IsExternal), stack)
  BY DEF RootFound, FirstHop, found
<1>2. /\ FabricOK /\ MapOK /\ JobOK /\ WholeMinds(miss)
      /\ QueueOK(stack) /\ QueueMinds(stack) /\ LinksMind(remote)
  BY MindFacts
<1>3. DOMAIN node_map \subseteq {Root} /\ JobMinds(miss)
  BY <1>1 DEF MissOK, CallMinds
<1>4. job.node.guid = Root /\ job.node = node_map[Root] /\ IsKnown(Root) /\ RecordOK(job.node)
  BY <1>1, <1>2, <1>3 DEF JobOK, JobMinds, IsKnown
<1>5. PICK node : node = job.node
  OBVIOUS
<1>6. PICK ports : ports = Filter(job.node.ports, IsExternal)
  OBVIOUS
<1>7. ports = Kept(node.ports, Externals(node.ports))
  BY <1>5, <1>6 DEF Filter, Externals
<1>8. node.guid = Root /\ RecordOK(node) /\ IsWholeBut(node, NPorts[Root], miss)
  BY <1>2, <1>4, <1>5 DEF WholeMinds, IsKnown
<1>9. /\ ports \in Seq(PortRecord)
      /\ \A k \in DOMAIN ports : ports[k].number \in 1..NPorts[node.guid]
      /\ \A i \in DOMAIN node.ports :
            node.ports[i].number # 0 => \E k \in DOMAIN ports : ports[k] = node.ports[i]
  <2>1. AreExternals(ports, node)
    BY <1>7, <1>8, ExternalsKept
  <2> QED BY <2>1 DEF AreExternals
<1>10. \A k \in DOMAIN ports : ports[k].number \in 1..NPorts[Root]
  BY <1>8, <1>9
<1>11. ASSUME NEW p \in BridgesOf(Root, miss) PROVE IsHop(ports, p)
  <2>1. p \in Bridges(miss) /\ p[1] = Root
    BY <1>11 DEF BridgesOf
  <2>2. p = <<Root, p[2]>> /\ p \in DOMAIN Cable \ {miss} /\ p[2] \in 1..NPorts[Root]
    BY <2>1, BridgeFacts
  <2>3. PICK i \in DOMAIN node.ports : node.ports[i].number = p[2]
    BY <1>8, <2>2 DEF IsWholeBut
  <2>4. p[2] # 0
    <3>1. NPorts[Root] \in 1..255
      BY <1>4, <1>8, RouteAssumption DEF RecordOK, NodeShape
    <3> QED BY <2>2, <3>1
  <2>5. PICK k \in DOMAIN ports : ports[k] = node.ports[i]
    BY <1>9, <2>3, <2>4
  <2> QED BY <2>3, <2>5 DEF IsHop
<1>12. \A n \in Others : IsLeft(n, miss, stack)
  BY <1>3 DEF Others
<1>13. FirstHop(ports, stack)
  BY <1>1, <1>6
<1> QED BY <1>1, <1>2, <1>4, <1>9, <1>10, <1>11, <1>12, <1>13, FirstHopMinds

(* The first node has been lost: the discovery is given up.                *)
LEMMA RootLostMinds ==
    ASSUME IInv, Steady, NEW miss, MissOK(miss), RootLost PROVE MissOK(miss)'
<1>1. /\ UNCHANGED fabric /\ node_map' = node_map /\ remote' = remote
      /\ first' = first /\ stack' = stack /\ pc' = "failed"
  BY DEF RootLost, graph, found
<1>2. MapOK /\ QueueMinds(stack)
  BY MindFacts
<1> QED BY <1>1, <1>2, FailMinds

(* What the first hop has when a call returns, or the ends of a switch     *)
(* have been probed.                                                       *)
LEMMA FirstMinds ==
    ASSUME IInv, Steady, NEW miss, MissOK(miss), InFirst,
           pc = "first" => job.phase \in {"found", "lost"}
    PROVE  /\ IsKnown(Root)
           /\ \A i \in DOMAIN first : first[i].number \in 1..NPorts[Root]
           /\ \A p \in BridgesOf(Root, miss) : IsHop(first, p) \/ IsReached(p)
           /\ \A n \in Others : IsHanded(n) \/ IsLeft(n, miss, stack)
<1>1. Begun /\ pc \notin {"probe", "loop"}
  BY DEF InFirst, Begun, Probing
<1>2. IsKnown(Root) /\ \A i \in DOMAIN first : first[i].number \in 1..NPorts[Root]
  BY <1>1 DEF MissOK, PlaceMinds
<1>3. ASSUME NEW p \in BridgesOf(Root, miss) PROVE IsHop(first, p) \/ IsReached(p)
  <2>1. IsHop(first, p) \/ IsFollowed(p) \/ IsReached(p)
    BY <1>1, <1>3 DEF MissOK, RootMinds
  <2>2. CASE IsFollowed(p)
    <3>1. job.phase = "found"
      BY <2>2 DEF IsFollowed
    <3> QED BY <2>2, <3>1, <1>3, FollowedReached
  <2> QED BY <2>1, <2>2
<1>4. ASSUME NEW n \in Others PROVE IsHanded(n) \/ IsLeft(n, miss, stack)
  <2>1. IsHanded(n) \/ IsMinded(n, miss)
    BY <1>1, <1>4 DEF MissOK, SwitchesMind
  <2>2. \A p : ~IsAsked(p)
    BY <1>1 DEF IsAsked
  <2> QED BY <2>1, <2>2 DEF IsMinded, IsLeft
<1> QED BY <1>2, <1>3, <1>4

(* There is no neighbour behind a port, or one that is no switch.          *)
LEMMA FirstOtherMinds ==
    ASSUME IInv, Steady, NEW miss, MissOK(miss), FirstOther PROVE MissOK(miss)'
<1>1. /\ pc = "first" /\ UNCHANGED fabric /\ node_map' = node_map
      /\ job.phase = "lost" \/ (job.phase = "found" /\ job.node.guid \notin Switches)
      /\ remote' = remote /\ FirstHop(first, stack)
  BY DEF FirstOther, FirstHop, found
<1>2. /\ QueueOK(stack) /\ QueueMinds(stack) /\ LinksMind(remote) /\ WholeMinds(miss)
      /\ first \in Seq(PortRecord)
  BY MindFacts
<1>3. InFirst
  BY <1>1 DEF InFirst
<1>4. \A n \in Others : ~IsHanded(n)
  BY <1>1 DEF Others, IsHanded, Probing
<1>5. /\ IsKnown(Root)
      /\ \A i \in DOMAIN first : first[i].number \in 1..NPorts[Root]
      /\ \A p \in BridgesOf(Root, miss) : IsHop(first, p) \/ IsReached(p)
      /\ \A n \in Others : IsHanded(n) \/ IsLeft(n, miss, stack)
  BY <1>1, <1>3, FirstMinds
<1>6. \A n \in Others : IsLeft(n, miss, stack)
  BY <1>4, <1>5
<1> QED BY <1>1, <1>2, <1>5, <1>6, FirstHopMinds

(* The ends of a neighbour that is a switch have been probed.              *)
LEMMA FirstSwitchDoneMinds ==
    ASSUME IInv, Steady, NEW miss, MissOK(miss), FirstSwitchDone PROVE MissOK(miss)'
<1>1. /\ pc = "ends" /\ ends = <<>> /\ host.for = "first"
      /\ UNCHANGED fabric /\ node_map' = node_map /\ remote' = remote
      /\ FirstHop(first, RingEntries(host.node, host.path) \o stack)
  BY DEF FirstSwitchDone, FirstHop, found
<1>2. LinksMind(remote) /\ WholeMinds(miss) /\ first \in Seq(PortRecord)
  BY MindFacts
<1>3. Probing /\ InFirst
  BY <1>1 DEF Probing, InFirst
<1>4. PICK queue : queue = RingEntries(host.node, host.path) \o stack
  OBVIOUS
<1>5. /\ QueueOK(queue) /\ QueueMinds(queue)
      /\ \A p : InQueue(stack, p) => InQueue(queue, p)
      /\ IsLeft(host.node.guid, miss, queue)
  BY <1>3, <1>4, HostQueueMinds
<1>6. /\ IsKnown(Root)
      /\ \A i \in DOMAIN first : first[i].number \in 1..NPorts[Root]
      /\ \A p \in BridgesOf(Root, miss) : IsHop(first, p) \/ IsReached(p)
      /\ \A n \in Others : IsHanded(n) \/ IsLeft(n, miss, stack)
  BY <1>1, <1>3, FirstMinds
<1>7. ASSUME NEW n \in Others PROVE IsLeft(n, miss, queue)
  <2>1. CASE IsHanded(n)
    <3>1. n = host.node.guid
      BY <1>1, <2>1 DEF IsHanded
    <3> QED BY <1>5, <3>1
  <2>2. CASE IsLeft(n, miss, stack)
    BY <1>5, <2>2 DEF IsLeft
  <2> QED BY <1>6, <1>7, <2>1, <2>2
<1>8. FirstHop(first, queue)
  BY <1>1, <1>4
<1> QED BY <1>1, <1>2, <1>5, <1>6, <1>7, <1>8, FirstHopMinds

(* The ends of a switch that the loop has found have been probed.          *)
LEMMA LoopSwitchDoneMinds ==
    ASSUME IInv, Steady, NEW miss, MissOK(miss), LoopSwitchDone PROVE MissOK(miss)'
<1>1. /\ pc = "ends" /\ ends = <<>> /\ host.for = "loop"
      /\ UNCHANGED fabric /\ node_map' = node_map
      /\ LinkAndTraverse(RingEntries(host.node, host.path) \o stack, <<host.node.guid, probed[2]>>)
  BY DEF LoopSwitchDone, found
<1>2. Probing /\ InLoop /\ Begun /\ ~InFirst
  BY <1>1 DEF Probing, InLoop, Begun, InFirst
<1>3. PICK queue : queue = RingEntries(host.node, host.path) \o stack
  OBVIOUS
<1>4. /\ QueueOK(queue) /\ QueueMinds(queue)
      /\ \A p : InQueue(stack, p) => InQueue(queue, p)
      /\ IsLeft(host.node.guid, miss, queue)
  BY <1>2, <1>3, HostQueueMinds
<1>5. PICK guid : guid = host.node.guid
  OBVIOUS
<1>6. LeadsTo(item.path, guid) /\ IsKnown(guid)
  BY <1>1, <1>5 DEF IInv, ProbingOK, IsKnown
<1>7. PICK local : local = item.port
  OBVIOUS
<1>8. PICK port : port = probed
  OBVIOUS
<1>9. /\ local \in DOMAIN Cable /\ IsKnown(local[1])
      /\ Cable[local] = port /\ port = <<guid, probed[2]>> /\ port[1] = guid
  BY <1>2, <1>6, <1>7, <1>8, LoopPort
<1>10. IsKnown(Root) /\ \A p \in BridgesOf(Root, miss) : IsReached(p)
  BY <1>2, RootReached
<1>11. ASSUME NEW n \in Others PROVE IsLeft(n, miss, queue)
  <2>1. IsHanded(n) \/ IsMinded(n, miss)
    BY <1>2, <1>11 DEF MissOK, SwitchesMind
  <2>2. CASE IsHanded(n)
    <3>1. n = host.node.guid
      BY <1>1, <2>2 DEF IsHanded
    <3> QED BY <1>4, <3>1
  <2>3. CASE IsMinded(n, miss)
    <3>1. \A p : ~IsAsked(p)
      BY <1>1 DEF IsAsked
    <3> QED BY <1>4, <2>3, <3>1 DEF IsMinded, IsLeft
  <2> QED BY <2>1, <2>2, <2>3
<1>12. LinkAndTraverse(queue, port)
  BY <1>1, <1>3, <1>5, <1>9
<1>13. IsKnown(port[1])
  BY <1>6, <1>9
<1> QED BY <1>1, <1>4, <1>7, <1>9, <1>10, <1>11, <1>12, <1>13, LinkAndTraverseMinds

(* A node that is no switch has been found by the loop.                    *)
LEMMA LoopEndFoundMinds ==
    ASSUME IInv, Steady, NEW miss, MissOK(miss), LoopEndFound PROVE MissOK(miss)'
<1>1. /\ pc = "loop" /\ job.phase = "found" /\ UNCHANGED fabric /\ node_map' = node_map
      /\ job.node.guid \notin Switches
      /\ LinkAndTraverse(stack, <<job.node.guid, probed[2]>>)
  BY DEF LoopEndFound, found
<1>2. ~Probing /\ InLoop /\ Begun /\ ~InFirst
  BY <1>1 DEF Probing, InLoop, Begun, InFirst
<1>3. QueueOK(stack) /\ QueueMinds(stack) /\ JobOK
  BY MindFacts
<1>4. PICK guid : guid = job.node.guid
  OBVIOUS
<1>5. LeadsTo(item.path, guid) /\ IsKnown(guid)
  <2>1. job.path = item.path
    BY <1>1 DEF IInv, TraversalOK
  <2> QED BY <1>1, <1>3, <1>4, <2>1 DEF JobOK, IsKnown
<1>6. PICK local : local = item.port
  OBVIOUS
<1>7. PICK port : port = probed
  OBVIOUS
<1>8. /\ local \in DOMAIN Cable /\ IsKnown(local[1])
      /\ Cable[local] = port /\ port = <<guid, probed[2]>> /\ port[1] = guid
  BY <1>2, <1>5, <1>6, <1>7, LoopPort
<1>9. IsKnown(Root) /\ \A p \in BridgesOf(Root, miss) : IsReached(p)
  BY <1>2, RootReached
<1>10. ASSUME NEW n \in Others PROVE IsLeft(n, miss, stack)
  <2>1. IsHanded(n) \/ IsMinded(n, miss)
    BY <1>2, <1>10 DEF MissOK, SwitchesMind
  <2>2. ~IsHanded(n)
    BY <1>1, <1>2, <1>10 DEF IsHanded, Others
  <2>3. \A p : IsAsked(p) => IsReached(p)
    BY <1>5, <1>6, <1>8 DEF IsAsked, IsReached
  <2> QED BY <2>1, <2>2, <2>3 DEF IsMinded, IsLeft
<1>11. LinkAndTraverse(stack, port)
  BY <1>1, <1>4, <1>8
<1>12. IsKnown(port[1])
  BY <1>5, <1>8
<1> QED BY <1>1, <1>3, <1>6, <1>8, <1>9, <1>10, <1>11, <1>12, LinkAndTraverseMinds

(* The node behind the loop's port has been lost.                          *)
LEMMA LoopLostMinds ==
    ASSUME IInv, Steady, NEW miss, MissOK(miss), LoopLost PROVE MissOK(miss)'
<1>1. /\ pc = "loop" /\ job.phase = "lost" /\ UNCHANGED fabric /\ node_map' = node_map
      /\ remote' = remote /\ Traverse(stack, remote)
  BY DEF LoopLost, found
<1>2. ~Probing /\ Begun /\ ~InFirst
  BY <1>1 DEF Probing, Begun, InFirst
<1>3. QueueOK(stack) /\ QueueMinds(stack) /\ LinksMind(remote) /\ WholeMinds(miss)
  BY MindFacts
<1>4. IsKnown(Root) /\ \A p \in BridgesOf(Root, miss) : IsReached(p)
  BY <1>2, RootReached
<1>5. ASSUME NEW n \in Others PROVE IsLeft(n, miss, stack)
  <2>1. IsHanded(n) \/ IsMinded(n, miss)
    BY <1>2, <1>5 DEF MissOK, SwitchesMind
  <2>2. ~IsHanded(n) /\ \A p : ~IsAsked(p)
    BY <1>1, <1>2 DEF IsHanded, IsAsked
  <2> QED BY <2>1, <2>2 DEF IsMinded, IsLeft
<1>6. PICK links : links = remote
  OBVIOUS
<1> QED BY <1>1, <1>3, <1>4, <1>5, <1>6, TraverseMinds

-----------------------------------------------------------------------------
(* What stays while the stack does.                                        *)

(* The traversal keeps its place.                                          *)
LEMMA PlaceStays ==
    ASSUME UNCHANGED fabric, MapOK,
           DOMAIN node_map \subseteq DOMAIN node_map', DOMAIN node_map' \subseteq Node,
           UNCHANGED <<stack, first, item>>, PlaceMinds, QueueMinds(stack),
           NEW links, remote' = links, LinksMind(links),
           pc' \notin {"probe", "done"}, Begun' => Begun, InFirst => InFirst',
           InLoop' => pc = "probe" \/ InLoop
    PROVE  PlaceMinds' /\ QueueMinds(stack)' /\ LinksMind(remote)'
<1>1. stack' = stack /\ first' = first /\ item' = item
  OBVIOUS
<1>2. /\ Root' = Root /\ LinksMind(links)'
      /\ \A n : IsKnown(n) => IsKnown(n)'
      /\ \A queue : QueueMinds(queue) => QueueMinds(queue)'
      /\ \A port : Behind(port)' = Behind(port)
      /\ \A path : Arrival(Cable, path)' = Arrival(Cable, path)
  BY MoreMinds
<1>3. PICK port : port = item.port /\ port = item'.port
  BY <1>1
<1>4. PICK path : path = item.path /\ path = item'.path
  BY <1>1
<1>5. PICK queue : queue = stack /\ queue = stack'
  BY <1>1
<1>6. PICK n : n = Root /\ n = Root'
  BY <1>2
<1>7. QueueMinds(stack)'
  <2>1. QueueMinds(queue)'
    BY <1>2, <1>5
  <2> QED BY <1>5, <2>1
<1>8. LinksMind(remote)'
  BY <1>2 DEF LinksMind
<1>9. Begun' => IsKnown(Root)'
  <2>1. Begun' => IsKnown(n)'
    BY <1>2, <1>6 DEF PlaceMinds
  <2> QED BY <1>6, <2>1 DEF IsKnown
<1>10. ASSUME InLoop' PROVE IsKnown(item.port[1])' /\ Arrival(Cable, item.path)' = Behind(item.port)'
  <2>1. IsKnown(port[1]) /\ Arrival(Cable, path) = Behind(port)
    BY <1>3, <1>4, <1>10 DEF PlaceMinds
  <2>2. IsKnown(port[1])' /\ Arrival(Cable, path)' = Behind(port)'
    BY <1>2, <2>1
  <2>3. IsKnown(item.port[1])'
    BY <1>3, <2>2 DEF IsKnown
  <2>4. Arrival(Cable, item.path)' = Arrival(Cable, path)'
    BY <1>4
  <2>5. Behind(item.port)' = Behind(port)'
    BY <1>3
  <2> QED BY <2>2, <2>3, <2>4, <2>5
<1>11. /\ \A i \in DOMAIN first' : first'[i].number \in 1..NPorts[Root']
       /\ Begun' /\ ~InFirst' => first' = <<>>
  BY <1>1, <1>2 DEF PlaceMinds
<1>12. PlaceMinds'
  BY <1>9, <1>10, <1>11 DEF PlaceMinds
<1> QED BY <1>7, <1>8, <1>12

(* The switch whose ends are probed stays known.                           *)
LEMMA HostStays ==
    ASSUME UNCHANGED fabric, MapOK,
           DOMAIN node_map \subseteq DOMAIN node_map', DOMAIN node_map' \subseteq Node,
           \A n \in DOMAIN node_map : node_map'[n] = node_map[n],
           HostMinds, Probing => host.node.guid \in DOMAIN node_map,
           host' = host, Probing' => Probing,
           \A i \in DOMAIN ends' : \E j \in DOMAIN ends : ends'[i] = ends[j]
    PROVE  HostMinds'
<1> SUFFICES ASSUME Probing' PROVE HostMinds'
  BY DEF HostMinds
<1>1. PICK path : path = host.path /\ path = host'.path
  OBVIOUS
<1>2. PICK guid : guid = host.node.guid /\ guid = host'.node.guid
  OBVIOUS
<1>3. PICK node : node = host.node /\ node = host'.node
  OBVIOUS
<1>4. node = node_map[guid] /\ guid \in Switches /\ IsNear(path) /\ guid \in DOMAIN node_map
  BY <1>1, <1>2, <1>3 DEF HostMinds
<1>5. node = node_map'[guid] /\ IsNear(path)'
  BY <1>4, MoreMinds
<1>6. \A j \in DOMAIN ends : /\ ends[j].port[1] = guid /\ ends[j].path = path
                             /\ ends[j].port[2] \notin RingPorts
  BY <1>1, <1>2 DEF HostMinds, EndsSee
<1>7. \A i \in DOMAIN ends' : /\ ends'[i].port[1] = guid /\ ends'[i].path = path
                              /\ ends'[i].port[2] \notin RingPorts
  <2> TAKE i \in DOMAIN ends'
  <2>1. PICK j \in DOMAIN ends : ends'[i] = ends[j]
    OBVIOUS
  <2> QED BY <1>6, <2>1
<1>8. EndsSee(ends)'
  BY <1>1, <1>2, <1>7 DEF EndsSee
<1>9. IsNear(host.path)'
  BY <1>1, <1>5
<1> QED BY <1>2, <1>3, <1>4, <1>5, <1>8, <1>9 DEF HostMinds

(* A switch has been found: its ends are to be probed.                     *)
LEMMA SwitchFoundMinds ==
    ASSUME IInv, Steady, NEW miss, MissOK(miss), LoopSwitchFound \/ FirstSwitchFound
    PROVE  MissOK(miss)'
<1>1. /\ UNCHANGED fabric /\ node_map' = node_map /\ remote' = remote
      /\ stack' = stack /\ first' = first /\ item' = item
      /\ pc' = "ends" /\ ends' = EndEntries(job.node, job.path)
      /\ job.phase = "found" /\ job.node.guid \in Switches
      /\ host'.node = job.node /\ host'.path = job.path
      /\ \/ pc = "loop" /\ host'.for = "loop"
         \/ pc = "first" /\ host'.for = "first"
  BY DEF LoopSwitchFound, FirstSwitchFound, ProbeEndsOf, graph, found
<1>2. PICK guid : guid = job.node.guid
  OBVIOUS
<1>3. PICK path : path = job.path
  OBVIOUS
<1>4. PICK node : node = job.node
  OBVIOUS
<1>5. /\ RecordOK(node) /\ IsKnown(guid) /\ node = node_map[guid] /\ node.guid = guid
      /\ IsNear(path) /\ HasRoom(path) /\ guid \in Switches
  BY <1>1, <1>2, <1>3, <1>4, SwitchMinds
<1>6. /\ MapOK /\ FabricOK /\ CutOK /\ IsCabling(cabling) /\ cut = {} /\ JobOK
      /\ QueueMinds(stack) /\ LinksMind(remote) /\ WholeMinds(miss)
  BY MindFacts
<1>7. PICK queue : queue = EndEntries(node, path)
  OBVIOUS
<1>8. \A k \in DOMAIN queue : /\ queue[k].path = path /\ queue[k].port[1] = guid
                              /\ queue[k].port[2] \notin RingPorts
  BY <1>5, <1>6, <1>7, EndsCover
<1>9. ends' = queue /\ host'.node = node /\ host'.path = path /\ host'.node.guid = guid
  BY <1>1, <1>3, <1>4, <1>5, <1>7
<1>10. Begun /\ Begun' /\ ~Probing /\ Probing'
  BY <1>1 DEF Begun, Probing
<1>11. (InFirst' <=> InFirst) /\ (InLoop' <=> InLoop) /\ (InLoop <=> pc = "loop")
  BY <1>1 DEF InFirst, InLoop, Probing
<1>12. DOMAIN node_map' \subseteq Node /\ DOMAIN node_map \subseteq DOMAIN node_map'
  BY <1>1, <1>6 DEF MapOK
<1>13. WholeMinds(miss)' /\ Others' = Others
  BY <1>1, <1>6, SameMinds
<1>14. CallMinds(miss)'
  BY <1>1 DEF CallMinds
<1>15. PlaceMinds' /\ QueueMinds(stack)' /\ LinksMind(remote)'
  <2>1. PICK links : links = remote
    OBVIOUS
  <2>2. remote' = links /\ LinksMind(links)
    BY <1>1, <1>6, <2>1
  <2>3. PlaceMinds
    BY DEF MissOK
  <2> QED BY <1>1, <1>6, <1>10, <1>11, <1>12, <2>2, <2>3, PlaceStays
<1>16. HostMinds'
  <2>1. IsNear(path)'
    BY <1>1, <1>5, <1>6, <1>12, MoreMinds
  <2>2. IsNear(host.path)'
    BY <1>9, <2>1
  <2>3. EndsSee(ends)'
    BY <1>8, <1>9 DEF EndsSee
  <2> QED BY <1>1, <1>5, <1>9, <2>2, <2>3 DEF HostMinds
<1>17. ASSUME NEW p \in Bridges(miss), IsAsked(p) PROVE IsReached(p)
  <2>1. pc = "loop" /\ item.port = p /\ InLoop
    BY <1>1, <1>11, <1>17 DEF IsAsked
  <2>2. LeadsTo(item.path, guid)
    <3>1. job.path = item.path
      BY <2>1 DEF IInv, TraversalOK
    <3> QED BY <1>1, <1>2, <1>6, <3>1 DEF JobOK
  <2>3. Cable[p][1] = guid
    BY <2>1, <2>2, LoopPort
  <2> QED BY <1>5, <2>3 DEF IsReached
<1>18. RootMinds(miss)' /\ SwitchesMind(miss)'
  <2>1. \A p : IsReached(p) => IsReached(p)'
    BY <1>1, <1>6, <1>12, MoreMinds
  <2>2. \A p \in BridgesOf(Root, miss) : IsFollowed(p) => IsReached(p)'
    BY <1>1, <2>1, FollowedReached
  <2>3. \A p \in Bridges(miss) : IsAsked(p) => IsReached(p)'
    BY <1>17, <2>1
  <2>4. \A p : IsHop(first, p) => IsHop(first, p)'
    BY <1>1 DEF IsHop
  <2>5. \A p : InQueue(stack, p) => InQueue(stack, p)'
    BY <1>1 DEF InQueue
  <2>6. \A n : IsHanded(n) => IsHanded(n)'
    <3>1. \A n : IsHanded(n) => n = guid
      BY <1>2, <1>10 DEF IsHanded
    <3>2. \A n : n = guid => IsHanded(n)'
      BY <1>9, <1>10 DEF IsHanded
    <3> QED BY <3>1, <3>2
  <2>7. RootMinds(miss) /\ SwitchesMind(miss)
    BY DEF MissOK
  <2> QED BY <1>1, <1>6, <1>10, <1>12, <1>13, <2>2, <2>3, <2>4, <2>5, <2>6, <2>7, AgendaStays
<1> QED BY <1>13, <1>14, <1>15, <1>16, <1>18 DEF MissOK

-----------------------------------------------------------------------------
(* The steps of the probing of ends.                                      *)

(* An end is asked about, or has been dealt with: nothing that matters to  *)
(* the ring changes.                                                       *)
LEMMA EndsMind ==
    ASSUME IInv, Steady, NEW miss, MissOK(miss), Probing,
           UNCHANGED fabric, node_map' = node_map, UNCHANGED <<stack, first, item, host>>,
           ends # <<>>, ends' \in {ends, Tail(ends)},
           pc' \in {"ends", "end"}, pc' = "end" => job'.phase = "nodeInfo",
           NEW links, remote' = links, LinksMind(links)
    PROVE  MissOK(miss)'
<1>1. stack' = stack /\ first' = first /\ item' = item /\ host' = host
  OBVIOUS
<1>2. MapOK /\ QueueMinds(stack) /\ WholeMinds(miss)
  BY MindFacts
<1>3. /\ Begun /\ Begun' /\ Probing'
      /\ (InFirst' <=> InFirst) /\ (InLoop' <=> InLoop)
      /\ pc \in {"ends", "end"}
  BY <1>1 DEF Begun, Probing, InFirst, InLoop
<1>4. DOMAIN node_map' \subseteq Node /\ DOMAIN node_map \subseteq DOMAIN node_map'
  BY <1>2 DEF MapOK
<1>5. WholeMinds(miss)' /\ Others' = Others
  BY <1>2, SameMinds
<1>6. CallMinds(miss)'
  BY DEF CallMinds, JobMinds
<1>7. PlaceMinds' /\ QueueMinds(stack)' /\ LinksMind(remote)'
  <2>1. PlaceMinds
    BY DEF MissOK
  <2> QED BY <1>1, <1>2, <1>3, <1>4, <2>1, PlaceStays
<1>8. HostMinds'
  <2>1. HostMinds /\ host.node.guid \in DOMAIN node_map
    BY DEF MissOK, IInv, ProbingOK, Probing
  <2>2. ends \in Seq(QueueEntry)
    BY DEF IInv, ProbingOK, QueueOK
  <2>3. \A i \in DOMAIN Tail(ends) : i + 1 \in DOMAIN ends /\ Tail(ends)[i] = ends[i + 1]
    BY <2>2
  <2>4. \A i \in DOMAIN ends' : \E j \in DOMAIN ends : ends'[i] = ends[j]
    BY <2>3
  <2>5. \A n \in DOMAIN node_map : node_map'[n] = node_map[n]
    OBVIOUS
  <2> QED BY <1>1, <1>2, <1>4, <2>1, <2>4, <2>5, HostStays
<1>9. RootMinds(miss)' /\ SwitchesMind(miss)'
  <2>1. \A p : ~IsFollowed(p) /\ ~IsAsked(p)
    BY <1>3 DEF IsFollowed, IsAsked
  <2>2. \A p : IsHop(first, p) => IsHop(first, p)'
    BY <1>1 DEF IsHop
  <2>3. \A p : InQueue(stack, p) => InQueue(stack, p)'
    BY <1>1 DEF InQueue
  <2>4. \A n : IsHanded(n) => IsHanded(n)'
    BY <1>1, <1>3 DEF IsHanded
  <2>5. RootMinds(miss) /\ SwitchesMind(miss)
    BY DEF MissOK
  <2> QED BY <1>2, <1>3, <1>4, <1>5, <2>1, <2>2, <2>3, <2>4, <2>5, AgendaStays
<1> QED BY <1>5, <1>6, <1>7, <1>8, <1>9 DEF MissOK

(* The end that is probed, where its route leads somewhere.                *)
LEMMA HeadMinds ==
    ASSUME IInv, Steady, NEW miss, MissOK(miss), Probing, ends # <<>>
    PROVE  /\ Head(ends).port[1] \in Switches /\ Head(ends).port[2] \notin RingPorts
           /\ IsKnown(Head(ends).port[1])
           /\ Arrival(Cable, RouteAcross(Head(ends))) = Behind(Head(ends).port)
<1>1. 1 \in DOMAIN ends /\ Head(ends) = ends[1] /\ EntryOK(ends[1])
  <2>1. QueueOK(ends)
    BY DEF IInv, ProbingOK
  <2>2. ends \in Seq(QueueEntry)
    BY <2>1 DEF QueueOK
  <2>3. 1 \in DOMAIN ends /\ Head(ends) = ends[1]
    BY <2>2
  <2> QED BY <2>1, <2>3 DEF QueueOK
<1>2. PICK e : e = Head(ends)
  OBVIOUS
<1>3. /\ IsNear(host.path) /\ EndsSee(ends) /\ host.node.guid \in Switches
      /\ IsKnown(host.node.guid)
  BY DEF MissOK, HostMinds, IInv, ProbingOK, Probing, IsKnown
<1>4. /\ EntryOK(e) /\ IsNear(e.path) /\ e.port[1] \in Switches /\ IsKnown(e.port[1])
      /\ e.port[2] \notin RingPorts
  BY <1>1, <1>2, <1>3 DEF EndsSee
<1>5. Arrival(Cable, RouteAcross(e)) = Behind(e.port)
  BY <1>4, NearCrosses
<1> QED BY <1>2, <1>4, <1>5

(* The NodeInfo across an end: the cable is recorded, the end is passed    *)
(* by, or the node is to be discovered.                                    *)
LEMMA ProbeEndMinds ==
    ASSUME IInv, Steady, NEW miss, MissOK(miss), ProbeEnd PROVE MissOK(miss)'
<1>1. /\ pc = "ends" /\ ends # <<>> /\ UNCHANGED fabric /\ node_map' = node_map
      /\ UNCHANGED <<stack, first, item, host>>
  BY DEF ProbeEnd, found
<1>2. PICK path : path = RouteAcross(Head(ends))
  OBVIOUS
<1>3. PICK local : local = Head(ends).port
  OBVIOUS
<1>4. PICK port : port = Arrival(Cable, path)
  OBVIOUS
<1>5. PICK outcome \in Outcome(path) :
         \/ /\ outcome.kind = "Ok" /\ IsKnown(port[1])
            /\ remote' = Linked(local, port)
            /\ ends' = Tail(ends) /\ pc' = pc
         \/ /\ pc' = "end" /\ job' = Call(path)
            /\ remote' = remote /\ ends' = ends
         \/ ends' = Tail(ends) /\ pc' = pc /\ remote' = remote
  BY <1>2, <1>3, <1>4 DEF ProbeEnd
<1>6. Probing
  BY <1>1 DEF Probing
<1>7. LinksMind(remote)
  BY MindFacts
<1>8. CASE /\ outcome.kind = "Ok" /\ IsKnown(port[1]) /\ remote' = Linked(local, port)
           /\ ends' = Tail(ends) /\ pc' = pc
  <2>1. port # Nowhere
    BY <1>4, <1>8, OutcomeFacts
  <2>2. IsKnown(local[1]) /\ port = Behind(local)
    BY <1>1, <1>2, <1>3, <1>4, <1>6, HeadMinds
  <2>3. local \in DOMAIN Cable /\ port = Cable[local]
    BY <2>1, <2>2 DEF Behind
  <2>4. PICK links : links = Linked(local, port)
    OBVIOUS
  <2>5. LinksMind(links)
    BY <1>7, <1>8, <2>2, <2>3, <2>4, LinkedMinds
  <2> QED BY <1>1, <1>6, <1>8, <2>4, <2>5, EndsMind
<1>9. CASE ends' = Tail(ends) /\ pc' = pc /\ remote' = remote
  <2>1. PICK links : links = remote
    OBVIOUS
  <2> QED BY <1>1, <1>6, <1>7, <1>9, <2>1, EndsMind
<1>10. CASE pc' = "end" /\ job' = Call(path) /\ remote' = remote /\ ends' = ends
  <2>1. PICK links : links = remote
    OBVIOUS
  <2>2. job'.phase = "nodeInfo"
    BY <1>10 DEF Call
  <2> QED BY <1>1, <1>6, <1>7, <1>10, <2>1, <2>2, EndsMind
<1> QED BY <1>5, <1>8, <1>9, <1>10

(* The node behind an end has been found.                                  *)
LEMMA EndFoundMinds ==
    ASSUME IInv, Steady, NEW miss, MissOK(miss), EndFound PROVE MissOK(miss)'
<1>1. /\ pc = "end" /\ job.phase = "found" /\ UNCHANGED fabric /\ node_map' = node_map
      /\ remote' = Linked(Head(ends).port, <<job.node.guid, seen[2]>>)
      /\ ends' = Tail(ends) /\ pc' = "ends"
      /\ UNCHANGED <<stack, first, item, host>>
  BY DEF EndFound, found
<1>2. Probing
  BY <1>1 DEF Probing
<1>3. /\ LinksMind(remote) /\ JobOK /\ FabricOK /\ CutOK /\ IsCabling(cabling) /\ cut = {}
  BY MindFacts
<1>4. PICK path : path = RouteAcross(Head(ends))
  OBVIOUS
<1>5. PICK local : local = Head(ends).port
  OBVIOUS
<1>6. PICK guid : guid = job.node.guid
  OBVIOUS
<1>7. /\ ends # <<>> /\ job.path = path /\ seen = Arrival(cabling, path) /\ seen # Nowhere
  BY <1>1, <1>4 DEF IInv, ProbingOK
<1>8. LeadsTo(path, guid) /\ IsKnown(guid)
  BY <1>1, <1>3, <1>6, <1>7 DEF JobOK, IsKnown
<1>9. Arrival(Cable, path) = seen
  BY <1>3, <1>7, Uncut
<1>10. IsKnown(local[1]) /\ Arrival(Cable, path) = Behind(local)
  BY <1>2, <1>4, <1>5, <1>7, HeadMinds
<1>11. local \in DOMAIN Cable /\ seen = Cable[local]
  BY <1>7, <1>9, <1>10 DEF Behind
<1>12. seen = <<guid, seen[2]>>
  <2>1. seen \in DOMAIN Cable
    BY <1>3, <1>11, CablePairs
  <2>2. seen = <<seen[1], seen[2]>>
    BY <1>3, <2>1, CablePairs
  <2>3. seen[1] = guid
    BY <1>7, <1>8 DEF LeadsTo
  <2> QED BY <2>2, <2>3
<1>13. PICK port : port = seen
  OBVIOUS
<1>14. PICK links : links = Linked(local, port)
  OBVIOUS
<1>15. port = Cable[local] /\ IsKnown(port[1])
  BY <1>8, <1>11, <1>12, <1>13
<1>16. LinksMind(links)
  BY <1>3, <1>10, <1>11, <1>14, <1>15, LinkedMinds
<1>17. remote' = links
  BY <1>1, <1>5, <1>6, <1>12, <1>13, <1>14
<1> QED BY <1>1, <1>2, <1>7, <1>16, <1>17, EndsMind

(* The node behind an end has been lost.                                   *)
LEMMA EndLostMinds ==
    ASSUME IInv, Steady, NEW miss, MissOK(miss), EndLost PROVE MissOK(miss)'
<1>1. /\ pc = "end" /\ UNCHANGED fabric /\ node_map' = node_map /\ remote' = remote
      /\ ends' = Tail(ends) /\ pc' = "ends" /\ UNCHANGED <<stack, first, item, host>>
  BY DEF EndLost, graph, found
<1>2. Probing /\ ends # <<>>
  BY <1>1 DEF Probing, IInv, ProbingOK
<1>3. LinksMind(remote)
  BY MindFacts
<1>4. PICK links : links = remote
  OBVIOUS
<1> QED BY <1>1, <1>2, <1>3, <1>4, EndsMind

-----------------------------------------------------------------------------
(* The steps in which an exchange may fail.                                *)

(* While nothing has failed any port may be the one that is missed.        *)
LEMMA MissMore ==
    ASSUME FabricOK, MissOK(Nowhere), NEW miss PROVE MissOK(miss)
<1>1. \A p \in DOMAIN Cable : p # Nowhere
  BY CableFacts, PortFacts
<1>2. Bridges(miss) \subseteq Bridges(Nowhere)
  BY <1>1 DEF Bridges
<1>3. \A n : BridgesOf(n, miss) \subseteq BridgesOf(n, Nowhere)
  BY <1>2 DEF BridgesOf
<1>4. /\ WholeMinds(Nowhere) /\ CallMinds(Nowhere) /\ PlaceMinds /\ HostMinds
      /\ QueueMinds(stack) /\ LinksMind(remote) /\ RootMinds(Nowhere) /\ SwitchesMind(Nowhere)
  BY DEF MissOK
<1>5. WholeMinds(miss)
  BY <1>4, MissOne DEF WholeMinds
<1>6. CallMinds(miss)
  <2>1. JobMinds(Nowhere) => JobMinds(miss)
    BY MissOne DEF JobMinds
  <2> QED BY <1>4, <2>1 DEF CallMinds
<1>7. RootMinds(miss)
  BY <1>3, <1>4 DEF RootMinds
<1>8. SwitchesMind(miss)
  <2>1. \A n : IsMinded(n, Nowhere) => IsMinded(n, miss)
    BY <1>3 DEF IsMinded
  <2> QED BY <1>4, <2>1 DEF SwitchesMind
<1> QED BY <1>4, <1>5, <1>6, <1>7, <1>8 DEF MissOK

(* The loop passes a port by: there is nothing behind it, or it is the one *)
(* that is missed.                                                         *)
LEMMA PassMinds ==
    ASSUME IInv, Steady, NEW miss, MissOK(miss), UNCHANGED fabric, node_map' = node_map,
           pc = "probe", remote' = remote, Traverse(stack, remote),
           \A p \in Bridges(miss) : item.port # p
    PROVE  MissOK(miss)'
<1>1. ~Probing /\ Begun /\ ~InFirst
  BY DEF Probing, Begun, InFirst
<1>2. QueueOK(stack) /\ QueueMinds(stack) /\ LinksMind(remote) /\ WholeMinds(miss)
  BY MindFacts
<1>3. IsKnown(Root) /\ \A p \in BridgesOf(Root, miss) : IsReached(p)
  BY <1>1, RootReached
<1>4. ASSUME NEW n \in Others PROVE IsLeft(n, miss, stack)
  <2>1. IsHanded(n) \/ IsMinded(n, miss)
    BY <1>1, <1>4 DEF MissOK, SwitchesMind
  <2>2. ~IsHanded(n)
    BY <1>1 DEF IsHanded
  <2>3. \A p \in BridgesOf(n, miss) : ~IsAsked(p)
    BY DEF IsAsked, BridgesOf
  <2> QED BY <2>1, <2>2, <2>3 DEF IsMinded, IsLeft
<1>5. PICK links : links = remote
  OBVIOUS
<1> QED BY <1>2, <1>3, <1>4, <1>5, TraverseMinds

(* The loop has asked for the node behind its port.                        *)
LEMMA AskMinds ==
    ASSUME IInv, Steady, NEW miss, MissOK(miss), UNCHANGED fabric, node_map' = node_map,
           pc = "probe", remote' = remote, pc' = "loop", job' = Call(item.path),
           UNCHANGED <<stack, first, item, host, ends>>,
           ~IsKnown(Arrival(Cable, item.path)[1])
    PROVE  MissOK(miss)'
<1>1. stack' = stack /\ first' = first /\ item' = item /\ host' = host /\ ends' = ends
  OBVIOUS
<1>2. MapOK /\ QueueMinds(stack) /\ WholeMinds(miss) /\ LinksMind(remote)
  BY MindFacts
<1>3. Begun /\ Begun' /\ ~Probing /\ ~Probing' /\ ~InFirst /\ ~InFirst' /\ InLoop'
  BY DEF Begun, Probing, InFirst, InLoop
<1>4. DOMAIN node_map' \subseteq Node /\ DOMAIN node_map \subseteq DOMAIN node_map'
  BY <1>2 DEF MapOK
<1>5. WholeMinds(miss)' /\ Others' = Others
  BY <1>2, SameMinds
<1>6. job'.phase = "nodeInfo"
  BY DEF Call
<1>7. CallMinds(miss)'
  <2>1. PICK path : path = item.path /\ path = item'.path
    BY <1>1
  <2>2. IsOneMore(path)
    BY <2>1 DEF MissOK, PlaceMinds
  <2>3. IsOneMore(path)' /\ Arrival(Cable, path)' = Arrival(Cable, path)
    BY <1>2, <1>4, <2>2, MoreMinds
  <2>4. PICK n : n = Arrival(Cable, path)[1]
    OBVIOUS
  <2>5. Arrival(Cable, path)'[1] = n
    BY <2>3, <2>4
  <2>6. ~IsKnown(n)'
    BY <2>1, <2>4 DEF IsKnown
  <2>7. ~IsKnown(Arrival(Cable, path)[1])'
    BY <2>5, <2>6 DEF IsKnown
  <2>8. ~IsKnown(Arrival(Cable, item.path)[1])'
    BY <2>1, <2>7
  <2>9. IsOneMore(item.path)'
    BY <2>1, <2>3
  <2>10. JobMinds(miss)'
    BY <1>6 DEF JobMinds
  <2> QED BY <1>6, <2>8, <2>9, <2>10 DEF CallMinds
<1>8. PlaceMinds' /\ QueueMinds(stack)' /\ LinksMind(remote)'
  <2>1. PICK links : links = remote
    OBVIOUS
  <2>2. remote' = links /\ LinksMind(links)
    BY <1>2, <2>1
  <2>3. PlaceMinds
    BY DEF MissOK
  <2> QED BY <1>1, <1>2, <1>3, <1>4, <2>2, <2>3, PlaceStays
<1>9. HostMinds'
  BY <1>3 DEF HostMinds
<1>10. RootMinds(miss)' /\ SwitchesMind(miss)'
  <2>1. \A p : ~IsFollowed(p)
    BY DEF IsFollowed
  <2>2. \A p : IsAsked(p) => IsAsked(p)'
    BY <1>1, <1>6 DEF IsAsked
  <2>3. \A p : IsHop(first, p) => IsHop(first, p)'
    BY <1>1 DEF IsHop
  <2>4. \A p : InQueue(stack, p) => InQueue(stack, p)'
    BY <1>1 DEF InQueue
  <2>5. \A n : ~IsHanded(n)
    BY <1>3 DEF IsHanded
  <2>6. RootMinds(miss) /\ SwitchesMind(miss)
    BY DEF MissOK
  <2> QED BY <1>2, <1>3, <1>4, <1>5, <2>1, <2>2, <2>3, <2>4, <2>5, <2>6, AgendaStays
<1> QED BY <1>5, <1>7, <1>8, <1>9, <1>10 DEF MissOK

(* The NodeInfo across the loop's port: the node is known, it is to be     *)
(* discovered, or the port is passed by, for the one fault at most.        *)
LEMMA ProbeMinds ==
    ASSUME IInv, Steady, NEW miss, IsMissed(miss), MissOK(miss), Probe, faults' <= 1
    PROVE  \E now : IsMissed(now)' /\ MissOK(now)'
<1>1. pc = "probe" /\ UNCHANGED fabric /\ node_map' = node_map /\ UNCHANGED <<host, ends>>
  BY DEF Probe, found, probing
<1>2. PICK port : port = Arrival(Cable, item.path)
  OBVIOUS
<1>3. PICK path : path = item.path
  OBVIOUS
<1>4. PICK outcome \in Outcome(path) :
         /\ Note(outcome)
         /\ \/ /\ outcome.kind = "Ok" /\ IsKnown(port[1])
               /\ LinkAndTraverse(stack, port)
            \/ /\ outcome.kind = "Ok" /\ ~IsKnown(port[1])
               /\ pc' = "loop" /\ job' = Call(item.path)
               /\ UNCHANGED <<remote, stack, first, item>>
            \/ /\ outcome.kind # "Ok"
               /\ Traverse(stack, remote) /\ remote' = remote
  BY <1>1, <1>2, <1>3 DEF Probe
<1>5. faults \in Nat
  BY DEF IsMissed
<1>6. /\ faults' \in Nat
      /\ \/ faults' = faults /\ (outcome.kind = "Ok" <=> port # Nowhere)
         \/ faults = 0 /\ faults' = 1 /\ outcome.kind # "Ok"
  BY <1>2, <1>3, <1>4, <1>5, OneFault
<1>7. /\ QueueOK(stack) /\ QueueMinds(stack) /\ FabricOK /\ CutOK /\ IsCabling(cabling)
  BY MindFacts
<1>8. PICK local : local = item.port
  OBVIOUS
<1>9. IsKnown(local[1]) /\ port = Behind(local)
  BY <1>1, <1>2, <1>8 DEF MissOK, PlaceMinds
<1>10. ~Probing /\ Begun /\ ~InFirst
  BY <1>1 DEF Probing, Begun, InFirst
<1>11. CASE outcome.kind = "Ok" /\ IsKnown(port[1]) /\ LinkAndTraverse(stack, port)
  <2>1. port # Nowhere /\ faults' = faults
    BY <1>6, <1>11
  <2>2. local \in DOMAIN Cable /\ port = Cable[local]
    BY <1>9, <2>1 DEF Behind
  <2>3. IsKnown(Root) /\ \A p \in BridgesOf(Root, miss) : IsReached(p)
    BY <1>10, RootReached
  <2>4. ASSUME NEW n \in Others PROVE IsLeft(n, miss, stack)
    <3>1. IsHanded(n) \/ IsMinded(n, miss)
      BY <1>10, <2>4 DEF MissOK, SwitchesMind
    <3>2. ~IsHanded(n)
      BY <1>1, <1>10 DEF IsHanded
    <3>3. \A p : IsAsked(p) => IsReached(p)
      BY <1>8, <1>11, <2>2 DEF IsAsked, IsReached
    <3> QED BY <3>1, <3>2, <3>3 DEF IsMinded, IsLeft
  <2>5. MissOK(miss)'
    BY <1>1, <1>7, <1>8, <1>9, <1>11, <2>2, <2>3, <2>4, LinkAndTraverseMinds
  <2>6. IsMissed(miss)'
    BY <2>1 DEF IsMissed
  <2> QED BY <2>5, <2>6
<1>12. CASE /\ outcome.kind = "Ok" /\ ~IsKnown(port[1]) /\ pc' = "loop" /\ job' = Call(item.path)
            /\ UNCHANGED <<remote, stack, first, item>>
  <2>1. faults' = faults
    BY <1>6, <1>12
  <2>2. MissOK(miss)'
    BY <1>1, <1>2, <1>12, AskMinds
  <2>3. IsMissed(miss)'
    BY <2>1 DEF IsMissed
  <2> QED BY <2>2, <2>3
<1>13. CASE outcome.kind # "Ok" /\ Traverse(stack, remote) /\ remote' = remote
  <2>1. CASE faults' = faults /\ port = Nowhere
    <3>1. \A p \in Bridges(miss) : local # p
      <4>1. \A p \in Bridges(miss) : Behind(p) # Nowhere
        BY BridgeFacts
      <4> QED BY <1>9, <2>1, <4>1
    <3>2. MissOK(miss)'
      BY <1>1, <1>8, <1>13, <3>1, PassMinds
    <3>3. IsMissed(miss)'
      BY <2>1 DEF IsMissed
    <3> QED BY <3>2, <3>3
  <2>2. CASE faults = 0 /\ faults' = 1
    <3>1. MissOK(Nowhere)
      BY <2>2 DEF IsMissed
    <3>2. MissOK(local)
      BY <1>7, <3>1, MissMore
    <3>3. \A p \in Bridges(local) : local # p
      BY DEF Bridges
    <3>4. MissOK(local)'
      BY <1>1, <1>8, <1>13, <3>2, <3>3, PassMinds
    <3>5. IsMissed(local)'
      BY <2>2 DEF IsMissed
    <3> QED BY <3>4, <3>5
  <2> QED BY <1>6, <1>13, <2>1, <2>2
<1> QED BY <1>4, <1>11, <1>12, <1>13

-----------------------------------------------------------------------------
(* A step of discover_node.                                                *)
IsCall ==
    /\ pc \in {"root", "first", "loop", "end"} /\ job.phase \in {"nodeInfo", "nodeDesc", "portInfo"}
    /\ UNCHANGED fabric /\ UNCHANGED <<traversal, probing>> /\ remote' = remote
    /\ job'.path = job.path

(* The rest stays as it is, if the call itself does what is said of it.    *)
LEMMA CallKeeps ==
    ASSUME IInv, Steady, NEW miss, MissOK(miss), IsCall,
           DOMAIN node_map \subseteq DOMAIN node_map', DOMAIN node_map' \subseteq Node,
           \A n \in DOMAIN node_map : node_map'[n] = node_map[n],
           CallMinds(miss)', WholeMinds(miss)',
           \A p \in BridgesOf(Root, miss) : IsFollowed(p) => IsFollowed(p)' \/ IsReached(p)',
           \A p \in Bridges(miss) : IsAsked(p) => IsAsked(p)' \/ IsReached(p)',
           Begun => \A n \in Others' : n \in Others \/ IsHanded(n)'
    PROVE  MissOK(miss)'
<1>1. /\ UNCHANGED fabric /\ pc' = pc /\ stack' = stack /\ first' = first /\ item' = item
      /\ host' = host /\ ends' = ends /\ remote' = remote
      /\ pc \in {"root", "first", "loop", "end"} /\ job.phase # "found"
  BY DEF IsCall, traversal, probing
<1>2. MapOK /\ QueueMinds(stack) /\ LinksMind(remote)
  BY MindFacts
<1>3. /\ (Begun' <=> Begun) /\ (Probing' <=> Probing)
      /\ (InFirst' <=> InFirst) /\ (InLoop' <=> InLoop)
  BY <1>1 DEF Begun, Probing, InFirst, InLoop
<1>4. PlaceMinds' /\ QueueMinds(stack)' /\ LinksMind(remote)'
  <2>1. PICK links : links = remote
    OBVIOUS
  <2>2. remote' = links /\ LinksMind(links)
    BY <1>1, <1>2, <2>1
  <2>3. PlaceMinds
    BY DEF MissOK
  <2> QED BY <1>1, <1>2, <1>3, <2>2, <2>3, PlaceStays
<1>5. HostMinds'
  <2>1. HostMinds
    BY DEF MissOK
  <2>2. Probing => host.node.guid \in DOMAIN node_map
    BY DEF IInv, ProbingOK, Probing
  <2> QED BY <1>1, <1>2, <1>3, <2>1, <2>2, HostStays
<1>6. RootMinds(miss)' /\ SwitchesMind(miss)'
  <2>1. CASE Begun
    <3>1. \A p : IsHop(first, p) => IsHop(first, p)'
      BY <1>1 DEF IsHop
    <3>2. \A p : InQueue(stack, p) => InQueue(stack, p)'
      BY <1>1 DEF InQueue
    <3>3. \A n : IsHanded(n) => IsHanded(n)'
      BY <1>1, <1>3 DEF IsHanded
    <3>4. RootMinds(miss) /\ SwitchesMind(miss)
      BY DEF MissOK
    <3> QED BY <1>1, <1>2, <2>1, <3>1, <3>2, <3>3, <3>4, AgendaStays
  <2>2. CASE ~Begun
    BY <1>3, <2>2 DEF RootMinds, SwitchesMind
  <2> QED BY <2>1, <2>2
<1> QED BY <1>4, <1>5, <1>6 DEF MissOK

(* What the call is for, while nothing has been found.                     *)
LEMMA CallFacts ==
    ASSUME IInv, Steady, NEW miss, MissOK(miss), IsCall
    PROVE  /\ pc = "root" => DOMAIN node_map \subseteq {Root} /\ job.path = StartPath /\ stack = <<>>
           /\ pc = "first" => \E q \in 1..NPorts[Root] : job.path = FirstHopPath(q)
           /\ pc = "loop" => /\ job.path = item.path /\ IsOneMore(item.path)
                             /\ ~IsKnown(Arrival(Cable, item.path)[1])
<1>1. CallMinds(miss) /\ job.phase # "found"
  BY DEF MissOK, IsCall
<1>2. pc = "loop" => job.path = item.path
  BY DEF IInv, TraversalOK
<1> QED BY <1>1, <1>2 DEF CallMinds

(* The call goes on, or returns a node that was known.                     *)
LEMMA CallStays ==
    ASSUME IInv, Steady, NEW miss, MissOK(miss), IsCall, JobOK', node_map' = node_map,
           job'.phase \in {"nodeDesc", "portInfo", "found"}, JobMinds(miss)'
    PROVE  MissOK(miss)'
<1>1. UNCHANGED fabric /\ pc' = pc /\ stack' = stack /\ item' = item /\ job'.path = job.path
  BY DEF IsCall, traversal
<1>2. MapOK /\ FabricOK /\ cut = {} /\ WholeMinds(miss)
  BY MindFacts
<1>3. DOMAIN node_map' \subseteq Node /\ DOMAIN node_map \subseteq DOMAIN node_map'
  BY <1>2 DEF MapOK
<1>4. WholeMinds(miss)' /\ Others' = Others
  BY <1>2, <1>1, SameMinds
<1>5. /\ Root' = Root
      /\ \A q : FirstHopPath(q)' = FirstHopPath(q)
      /\ \A path : IsOneMore(path) => IsOneMore(path)'
      /\ \A path : Arrival(Cable, path)' = Arrival(Cable, path)
  BY <1>1, <1>2, <1>3, MoreMinds
<1>6. CallMinds(miss)'
  <2>1. CASE pc = "root"
    <3>1. DOMAIN node_map \subseteq {Root} /\ job.path = StartPath /\ stack = <<>>
      BY <2>1, CallFacts
    <3>2. DOMAIN node_map' \subseteq {Root'} /\ job'.path = StartPath /\ stack' = <<>> /\ pc' = "root"
      BY <1>1, <1>5, <2>1, <3>1
    <3> QED BY <3>2 DEF CallMinds
  <2>2. CASE pc = "first"
    <3>1. PICK q \in 1..NPorts[Root] : job.path = FirstHopPath(q)
      BY <2>2, CallFacts
    <3>2. \E k \in 1..NPorts[Root'] : job'.path = FirstHopPath(k)'
      BY <1>1, <1>5, <3>1
    <3> QED BY <1>1, <2>2, <3>2 DEF CallMinds
  <2>3. CASE pc = "loop"
    <3>1. PICK path : path = item.path /\ path = item'.path
      BY <1>1
    <3>2. job.path = path /\ IsOneMore(path) /\ ~IsKnown(Arrival(Cable, path)[1])
      BY <2>3, <3>1, CallFacts
    <3>3. PICK n : n = Arrival(Cable, path)[1]
      OBVIOUS
    <3>4. IsOneMore(path)' /\ n = Arrival(Cable, path)'[1] /\ ~IsKnown(n)'
      BY <1>5, <3>2, <3>3 DEF IsKnown
    <3>5. job'.phase # "found"
      <4> SUFFICES ASSUME job'.phase = "found" PROVE FALSE
        OBVIOUS
      <4>1. PICK guid : guid = job'.node.guid
        OBVIOUS
      <4>2. LeadsTo(path, guid)' /\ guid \in DOMAIN node_map
        BY <1>1, <3>2, <4>1 DEF JobOK
      <4>3. LeadsTo(path, guid)
        BY <1>1, <4>2, SameRoot
      <4>4. Finds(path, guid)
        BY <1>2, <4>3, Uncut
      <4> QED BY <3>2, <4>2, <4>4 DEF Finds, IsKnown
    <3>6. IsOneMore(item.path)'
      BY <3>1, <3>4
    <3>7. Arrival(Cable, item.path)' = Arrival(Cable, path)'
      BY <3>1
    <3>8. ~IsKnown(Arrival(Cable, item.path)[1])'
      BY <3>4, <3>7 DEF IsKnown
    <3> QED BY <1>1, <2>3, <3>5, <3>6, <3>8 DEF CallMinds
  <2>4. CASE pc = "end"
    BY <1>1, <2>4 DEF CallMinds
  <2> QED BY <2>1, <2>2, <2>3, <2>4 DEF IsCall
<1>7. \A p : IsFollowed(p) => IsFollowed(p)'
  BY <1>1, <1>5 DEF IsFollowed
<1>8. \A p : IsAsked(p) => IsAsked(p)'
  BY <1>1 DEF IsAsked
<1>9. \A n \in DOMAIN node_map : node_map'[n] = node_map[n]
  OBVIOUS
<1> QED BY <1>3, <1>4, <1>6, <1>7, <1>8, <1>9, CallKeeps

(* A node has been entered: the route to it has passed fewer nodes than    *)
(* are known now, and no end leads to a switch.                            *)
LEMMA EntryMinds ==
    ASSUME IInv, Steady, NEW miss, MissOK(miss), IsCall, JobMinds(miss)',
           NEW g, EnteredBut(g, miss)
    PROVE  MissOK(miss)'
<1>1. /\ UNCHANGED fabric /\ pc' = pc /\ stack' = stack /\ item' = item /\ job'.path = job.path
      /\ host' = host
  BY DEF IsCall, traversal, probing
<1>2. MapOK /\ FabricOK /\ CutOK /\ IsCabling(cabling) /\ cut = {} /\ WholeMinds(miss)
  BY MindFacts
<1>3. /\ g \in Node /\ g \notin DOMAIN node_map /\ Finds(job.path, g)
      /\ job'.phase = "found" /\ job'.node.guid = g
      /\ DOMAIN node_map' = DOMAIN node_map \cup {g}
      /\ \A n \in DOMAIN node_map : node_map'[n] = node_map[n]
      /\ IsWholeBut(node_map'[g], NPorts[g], miss)
  BY DEF EnteredBut
<1>4. DOMAIN node_map' \subseteq Node /\ DOMAIN node_map \subseteq DOMAIN node_map'
  BY <1>2, <1>3 DEF MapOK
<1>5. /\ Cable' = Cable /\ Root' = Root /\ RootIsSwitch' = RootIsSwitch
      /\ \A q : FirstHopPath(q)' = FirstHopPath(q)
      /\ \A n : IsKnown(n) => IsKnown(n)'
  BY <1>1, <1>2, <1>4, MoreMinds
<1>6. WholeMinds(miss)'
  <2>1. \A node, last : IsWholeBut(node, last, miss)' = IsWholeBut(node, last, miss)
    BY <1>1, SameWhole
  <2>2. ASSUME NEW n \in DOMAIN node_map' PROVE IsWholeBut(node_map[n], NPorts[n], miss)'
    <3>1. PICK node : node = node_map'[n]
      OBVIOUS
    <3>2. IsWholeBut(node, NPorts[n], miss)
      <4>1. CASE n = g
        BY <1>3, <3>1, <4>1
      <4>2. CASE n \in DOMAIN node_map
        BY <1>2, <1>3, <3>1, <4>2 DEF WholeMinds
      <4> QED BY <1>3, <2>2, <4>1, <4>2
    <3>3. IsWholeBut(node, NPorts[n], miss)'
      BY <2>1, <3>2
    <3> QED BY <3>1, <3>3 DEF IsWholeBut
  <2> QED BY <2>2 DEF WholeMinds
<1>7. CallMinds(miss)'
  <2>1. CASE pc = "root"
    <3>1. DOMAIN node_map \subseteq {Root} /\ job.path = StartPath /\ stack = <<>>
      BY <2>1, CallFacts
    <3>2. g = Root
      <4>1. Arrival(Cable, StartPath) = root_port
        BY StartRoute
      <4> QED BY <1>3, <3>1, <4>1 DEF Finds, Root
    <3>3. DOMAIN node_map' \subseteq {Root'} /\ job'.path = StartPath /\ stack' = <<>> /\ pc' = "root"
      BY <1>1, <1>3, <1>5, <2>1, <3>1, <3>2
    <3> QED BY <3>3 DEF CallMinds
  <2>2. CASE pc = "first"
    <3>1. PICK q \in 1..NPorts[Root] : job.path = FirstHopPath(q)
      BY <2>2, CallFacts
    <3>2. \E k \in 1..NPorts[Root'] : job'.path = FirstHopPath(k)'
      BY <1>1, <1>5, <3>1
    <3> QED BY <1>1, <2>2, <3>2 DEF CallMinds
  <2>3. CASE pc = "loop"
    <3>1. PICK path : path = job.path /\ path = job'.path
      BY <1>1
    <3>2. IsOneMore(path)
      BY <2>3, <3>1, CallFacts
    <3>3. PICK known \in Nat : known = Cardinality(DOMAIN node_map)
                               /\ Cardinality(DOMAIN node_map') = known + 1
      <4>1. IsFiniteSet(DOMAIN node_map)
        BY <1>2, RouteAssumption, FS_Subset DEF MapOK
      <4>2. Cardinality(DOMAIN node_map \cup {g}) = Cardinality(DOMAIN node_map) + 1
        BY <1>3, <4>1, FS_AddElement
      <4> QED BY <1>3, <4>1, <4>2, FS_CardinalityType
    <3>4. PICK more \in {0, 1} : more = Slack /\ more = Slack'
      BY <1>5 DEF Slack
    <3>5. IsRegular(path) /\ Depth(path) > 0 /\ Depth(path) <= known + more
      BY <3>2, <3>3, <3>4 DEF IsOneMore
    <3>6. Depth(path) \in Nat
      BY <3>5, DepthFacts
    <3>7. Depth(path) < (known + 1) + more
      BY <3>3, <3>4, <3>5, <3>6
    <3>8. IsRegular(path)'
      BY <1>1, <3>5, SameFabric
    <3>9. Depth(path) < Cardinality(DOMAIN node_map') + Slack'
      BY <3>3, <3>4, <3>7
    <3>10. IsNear(path)'
      BY <3>5, <3>8, <3>9 DEF IsNear
    <3>11. IsNear(job.path)'
      BY <3>1, <3>10
    <3> QED BY <1>1, <1>3, <2>3, <3>11 DEF CallMinds
  <2>4. CASE pc = "end"
    BY <1>1, <2>4 DEF CallMinds
  <2> QED BY <2>1, <2>2, <2>3, <2>4 DEF IsCall
<1>8. \A p : IsFollowed(p) => IsFollowed(p)'
  BY <1>1, <1>3, <1>5 DEF IsFollowed
<1>9. \A p : IsAsked(p) => IsAsked(p)'
  BY <1>1, <1>3 DEF IsAsked
<1>10. ASSUME Begun, NEW n \in Others' PROVE n \in Others \/ IsHanded(n)'
  <2>1. n \in DOMAIN node_map' /\ n \in Switches /\ n # Root
    BY <1>5, <1>10 DEF Others
  <2>2. CASE n \in DOMAIN node_map
    BY <2>1, <2>2 DEF Others
  <2>3. CASE n = g
    <3>1. CASE pc \in {"first", "loop"}
      BY <1>1, <1>3, <2>3, <3>1 DEF IsHanded
    <3>2. CASE pc = "end"
      <4>1. Probing /\ ends # <<>> /\ job.path = RouteAcross(Head(ends))
        BY <3>2 DEF Probing, IInv, ProbingOK
      <4>2. PICK local : local = Head(ends).port
        OBVIOUS
      <4>3. local[1] \in Switches /\ local[2] \notin RingPorts /\ Arrival(Cable, job.path) = Behind(local)
        BY <4>1, <4>2, HeadMinds
      <4>4. local \in DOMAIN Cable /\ Cable[local][1] = n
        BY <1>3, <2>3, <4>3 DEF Finds, Behind
      <4>5. FALSE
        BY <2>1, <4>3, <4>4 DEF Steady, WellWired
      <4> QED BY <4>5
    <3>3. CASE pc = "root"
      BY <1>10, <3>3 DEF Begun
    <3> QED BY <3>1, <3>2, <3>3 DEF IsCall
  <2> QED BY <1>3, <2>1, <2>2, <2>3
<1> QED BY <1>3, <1>4, <1>6, <1>7, <1>8, <1>9, <1>10, CallKeeps

(* The call is lost: there was nothing to find, or its port is the one     *)
(* that is missed.                                                         *)
LEMMA LossMinds ==
    ASSUME IInv, Steady, NEW miss, MissOK(miss), IsCall, node_map' = node_map, job'.phase = "lost",
           \A p \in BridgesOf(Root, miss) : ~IsFollowed(p),
           \A p \in Bridges(miss) : ~IsAsked(p)
    PROVE  MissOK(miss)'
<1>1. UNCHANGED fabric /\ pc' = pc /\ stack' = stack /\ item' = item /\ job'.path = job.path
  BY DEF IsCall, traversal
<1>2. MapOK
  BY MindFacts
<1>3. DOMAIN node_map' \subseteq Node /\ DOMAIN node_map \subseteq DOMAIN node_map'
  BY <1>2 DEF MapOK
<1>4. WholeMinds(miss)' /\ Others' = Others
  BY <1>1, <1>2, MindFacts, SameMinds
<1>5. /\ Root' = Root
      /\ \A q : FirstHopPath(q)' = FirstHopPath(q)
      /\ \A path : IsOneMore(path) => IsOneMore(path)'
      /\ \A path : Arrival(Cable, path)' = Arrival(Cable, path)
  BY <1>1, <1>2, <1>3, MoreMinds
<1>6. CallMinds(miss)'
  <2>0. JobMinds(miss)'
    BY DEF JobMinds
  <2>1. CASE pc = "root"
    <3>1. DOMAIN node_map \subseteq {Root} /\ job.path = StartPath /\ stack = <<>>
      BY <2>1, CallFacts
    <3>2. DOMAIN node_map' \subseteq {Root'} /\ job'.path = StartPath /\ stack' = <<>> /\ pc' = "root"
      BY <1>1, <1>5, <2>1, <3>1
    <3> QED BY <2>0, <3>2 DEF CallMinds
  <2>2. CASE pc = "first"
    <3>1. PICK q \in 1..NPorts[Root] : job.path = FirstHopPath(q)
      BY <2>2, CallFacts
    <3>2. \E k \in 1..NPorts[Root'] : job'.path = FirstHopPath(k)'
      BY <1>1, <1>5, <3>1
    <3> QED BY <1>1, <2>0, <2>2, <3>2 DEF CallMinds
  <2>3. CASE pc = "loop"
    <3>1. PICK path : path = item.path /\ path = item'.path
      BY <1>1
    <3>2. IsOneMore(path) /\ ~IsKnown(Arrival(Cable, path)[1])
      BY <2>3, <3>1, CallFacts
    <3>3. PICK n : n = Arrival(Cable, path)[1]
      OBVIOUS
    <3>4. IsOneMore(path)' /\ n = Arrival(Cable, path)'[1] /\ ~IsKnown(n)'
      BY <1>5, <3>2, <3>3 DEF IsKnown
    <3>5. IsOneMore(item.path)'
      BY <3>1, <3>4
    <3>6. Arrival(Cable, item.path)' = Arrival(Cable, path)'
      BY <3>1
    <3>7. ~IsKnown(Arrival(Cable, item.path)[1])'
      BY <3>4, <3>6 DEF IsKnown
    <3> QED BY <1>1, <2>0, <2>3, <3>5, <3>7 DEF CallMinds
  <2>4. CASE pc = "end"
    BY <1>1, <2>0, <2>4 DEF CallMinds
  <2> QED BY <2>1, <2>2, <2>3, <2>4 DEF IsCall
<1>7. \A n \in DOMAIN node_map : node_map'[n] = node_map[n]
  OBVIOUS
<1> QED BY <1>3, <1>4, <1>6, <1>7, CallKeeps

(* Where there is nothing behind the port of a call, no cable was followed *)
(* or asked about.                                                         *)
LEMMA NothingThere ==
    ASSUME IInv, Steady, NEW miss, MissOK(miss), IsCall, Arrival(Cable, job.path) = Nowhere
    PROVE  /\ \A p \in BridgesOf(Root, miss) : ~IsFollowed(p)
           /\ \A p \in Bridges(miss) : ~IsAsked(p)
<1>1. FabricOK
  BY MindFacts
<1>2. ASSUME NEW p \in BridgesOf(Root, miss), IsFollowed(p) PROVE FALSE
  <2>1. p \in Bridges(miss) /\ p[1] = Root
    BY <1>2 DEF BridgesOf
  <2>2. /\ p \in DOMAIN Cable /\ p = <<Root, p[2]>> /\ p[2] \in 1..NPorts[Root]
        /\ Cable[p] # Nowhere
    BY <2>1, BridgeFacts
  <2>3. Arrival(Cable, FirstHopPath(p[2])) = Cable[p]
    BY <1>1, <2>2, FirstHopLeads
  <2> QED BY <1>2, <2>2, <2>3 DEF IsFollowed
<1>3. ASSUME NEW p \in Bridges(miss), IsAsked(p) PROVE FALSE
  <2>1. pc = "loop" /\ item.port = p /\ InLoop
    BY <1>3 DEF IsAsked, IsCall, InLoop
  <2>2. job.path = item.path /\ Arrival(Cable, item.path) = Behind(item.port)
    BY <2>1, CallFacts DEF MissOK, PlaceMinds
  <2>3. Behind(p) # Nowhere
    BY BridgeFacts
  <2> QED BY <2>1, <2>2, <2>3
<1> QED BY <1>2, <1>3

(* One port is missed with the call for the node behind it.                *)
LEMMA OnePort ==
    ASSUME IInv, Steady, MissOK(Nowhere), IsCall
    PROVE  \E now : /\ \A p \in BridgesOf(Root, now) : ~IsFollowed(p)
                    /\ \A p \in Bridges(now) : ~IsAsked(p)
<1>1. FabricOK /\ CutOK /\ IsCabling(cabling)
  BY MindFacts
<1>2. CASE pc = "first"
  <2>1. PICK q \in 1..NPorts[Root] : job.path = FirstHopPath(q)
    BY <1>2, CallFacts
  <2>2. PICK now : now = <<Root, q>>
    OBVIOUS
  <2>3. ASSUME NEW p \in BridgesOf(Root, now), IsFollowed(p) PROVE FALSE
    <3>1. p \in Bridges(now) /\ p[1] = Root
      BY <2>3 DEF BridgesOf
    <3>2. /\ p \in DOMAIN Cable /\ p = <<Root, p[2]>> /\ p[2] \in 1..NPorts[Root]
          /\ Cable[p] # Nowhere /\ p # now
      BY <3>1, BridgeFacts
    <3>3. Arrival(Cable, FirstHopPath(p[2])) = Cable[p]
      BY <1>1, <3>2, FirstHopLeads
    <3>4. Arrival(Cable, FirstHopPath(q)) = IF now \in DOMAIN Cable THEN Cable[now] ELSE Nowhere
      BY <1>1, <2>2, FirstHopLeads
    <3>5. FirstHopPath(p[2]) = FirstHopPath(q)
      BY <2>1, <2>3 DEF IsFollowed
    <3>6. now \in DOMAIN Cable /\ Cable[now] = Cable[p]
      BY <3>2, <3>3, <3>4, <3>5
    <3>7. Cable[Cable[now]] = now /\ Cable[Cable[p]] = p
      BY <1>1, <3>2, <3>6, CablePairs
    <3> QED BY <3>2, <3>6, <3>7
  <2>4. \A p : ~IsAsked(p)
    BY <1>2 DEF IsAsked
  <2> QED BY <2>3, <2>4
<1>3. CASE pc # "first"
  <2>1. PICK now : now = item.port
    OBVIOUS
  <2>2. \A p : ~IsFollowed(p)
    BY <1>3 DEF IsFollowed
  <2>3. \A p \in Bridges(now) : ~IsAsked(p)
    BY <2>1 DEF IsAsked, Bridges
  <2> QED BY <2>2, <2>3
<1> QED BY <1>2, <1>3

(* discover_node makes a step, which may be the one that fails.            *)
LEMMA DiscoverMissMinds ==
    ASSUME IInv, Steady, UpState \in {"Active", "Init"},
           NEW miss, IsMissed(miss), MissOK(miss), DiscoverNode, UNCHANGED <<traversal, probing>>,
           faults' <= 1
    PROVE  \E now : IsMissed(now)' /\ MissOK(now)'
<1>1. NodeInv /\ cut = {} /\ faults \in Nat /\ FabricOK
  BY MindFacts DEF IInv, GraphInv, IsMissed
<1>2. job.phase \in {"nodeInfo", "nodeDesc", "portInfo"} /\ UNCHANGED fabric /\ remote' = remote
  BY DEF DiscoverNode, FetchNodeInfo, FetchNodeDesc, FetchPortInfo, graph
<1>3. NodeInv' /\ job'.path = job.path
  BY <1>1, DiscoverNodeKeepsNodeInv
<1>4. pc \in {"root", "first", "loop", "end"}
  BY <1>2 DEF IInv, PlaceOK
<1>5. IsCall
  BY <1>2, <1>3, <1>4 DEF IsCall
<1>6. JobMinds(miss)
  BY <1>4 DEF MissOK, CallMinds
<1>7. /\ faults' \in Nat
      /\ \E now : /\ (now = miss /\ faults' = faults) \/ (faults = 0 /\ faults' = 1)
                  /\ JobMinds(now)'
                  /\ \/ node_map' = node_map /\ job'.phase \in {"nodeDesc", "portInfo", "found"}
                     \/ EnteredBut(job.node.guid, now)
                     \/ /\ node_map' = node_map /\ job'.phase = "lost"
                        /\ \/ faults' = faults /\ Arrival(Cable, job.path) = Nowhere
                           \/ faults = 0 /\ faults' = 1
  BY <1>1, <1>6, DiscoverMinds
<1>8. PICK now : /\ (now = miss /\ faults' = faults) \/ (faults = 0 /\ faults' = 1)
                 /\ JobMinds(now)'
                 /\ \/ node_map' = node_map /\ job'.phase \in {"nodeDesc", "portInfo", "found"}
                    \/ EnteredBut(job.node.guid, now)
                    \/ /\ node_map' = node_map /\ job'.phase = "lost"
                       /\ \/ faults' = faults /\ Arrival(Cable, job.path) = Nowhere
                          \/ faults = 0 /\ faults' = 1
  BY <1>7
<1>9. faults = 0 => MissOK(Nowhere)
  BY DEF IsMissed
<1>10. MissOK(now)
  BY <1>1, <1>8, <1>9, MissMore
<1>11. IsMissed(now)'
  BY <1>7, <1>8 DEF IsMissed
<1>12. CASE node_map' = node_map /\ job'.phase \in {"nodeDesc", "portInfo", "found"}
  <2>1. JobOK'
    BY <1>3 DEF NodeInv
  <2>2. MissOK(now)'
    BY <1>5, <1>8, <1>10, <1>12, <2>1, CallStays
  <2> QED BY <1>11, <2>2
<1>13. CASE EnteredBut(job.node.guid, now)
  <2>1. PICK g : g = job.node.guid
    OBVIOUS
  <2>2. MissOK(now)'
    BY <1>5, <1>8, <1>10, <1>13, <2>1, EntryMinds
  <2> QED BY <1>11, <2>2
<1>14. CASE /\ node_map' = node_map /\ job'.phase = "lost"
            /\ faults' = faults /\ Arrival(Cable, job.path) = Nowhere
  <2>1. MissOK(now)'
    BY <1>5, <1>10, <1>14, NothingThere, LossMinds
  <2> QED BY <1>11, <2>1
<1>15. CASE node_map' = node_map /\ job'.phase = "lost" /\ faults = 0 /\ faults' = 1
  <2>1. PICK other : /\ \A p \in BridgesOf(Root, other) : ~IsFollowed(p)
                     /\ \A p \in Bridges(other) : ~IsAsked(p)
    BY <1>5, <1>9, <1>15, OnePort
  <2>2. MissOK(other)
    BY <1>1, <1>9, <1>15, MissMore
  <2>3. MissOK(other)'
    BY <1>5, <1>15, <2>1, <2>2, LossMinds
  <2>4. IsMissed(other)'
    BY <1>15 DEF IsMissed
  <2> QED BY <2>3, <2>4
<1> QED BY <1>8, <1>12, <1>13, <1>14, <1>15

-----------------------------------------------------------------------------
(* The invariant of what one fault can cost.                               *)

(* A discovery that has begun has not missed anything yet.                 *)
LEMMA StartMinds == ASSUME Start PROVE MissOK(Nowhere)'
<1>1. /\ pc' = "root" /\ stack' = <<>> /\ first' = <<>> /\ node_map' = <<>> /\ remote' = <<>>
      /\ job'.path = StartPath /\ job'.phase = "nodeInfo"
  BY DEF Start, Forget, Call
<1>2. DOMAIN <<>> = {}
  OBVIOUS
<1>3. ~Begun' /\ ~Probing' /\ ~InLoop'
  BY <1>1 DEF Begun, Probing, InLoop
<1>4. WholeMinds(Nowhere)' /\ PlaceMinds'
  BY <1>1, <1>2, <1>3 DEF WholeMinds, PlaceMinds
<1>5. CallMinds(Nowhere)'
  BY <1>1, <1>2 DEF CallMinds, JobMinds
<1>6. QueueMinds(stack)' /\ LinksMind(remote)'
  BY <1>1, <1>2 DEF QueueMinds, LinksMind
<1>7. RootMinds(Nowhere)' /\ SwitchesMind(Nowhere)' /\ HostMinds'
  BY <1>3 DEF RootMinds, SwitchesMind, HostMinds
<1> QED BY <1>4, <1>5, <1>6, <1>7 DEF MissOK

(* Nothing happens.                                                        *)
LEMMA StutterMinds == ASSUME MapOK, UNCHANGED vars, NEW miss, MissOK(miss) PROVE MissOK(miss)'
<1>1. /\ UNCHANGED fabric /\ node_map' = node_map /\ remote' = remote /\ job' = job
      /\ pc' = pc /\ stack' = stack /\ first' = first /\ item' = item
      /\ ends' = ends /\ host' = host
  BY DEF vars, common, graph, found, traversal, probing
<1>2. DOMAIN node_map' \subseteq Node /\ DOMAIN node_map \subseteq DOMAIN node_map'
  BY <1>1 DEF MapOK
<1>3. /\ Cable' = Cable /\ Root' = Root
      /\ \A m : Bridges(m)' = Bridges(m)
      /\ \A n, m : BridgesOf(n, m)' = BridgesOf(n, m)
      /\ \A path : IsNear(path) => IsNear(path)'
      /\ \A path : IsOneMore(path) => IsOneMore(path)'
      /\ \A queue : QueueMinds(queue) => QueueMinds(queue)'
      /\ \A links : LinksMind(links) => LinksMind(links)'
      /\ \A port : Behind(port)' = Behind(port)
      /\ \A path : Arrival(Cable, path)' = Arrival(Cable, path)
      /\ \A q : FirstHopPath(q)' = FirstHopPath(q)
  BY <1>1, <1>2, MoreMinds
<1>4. /\ \A n : IsKnown(n)' = IsKnown(n)
      /\ \A p : IsReached(p)' = IsReached(p)
      /\ WholeMinds(miss)' = WholeMinds(miss) /\ Others' = Others
  BY <1>1, SameMinds
<1>5. /\ Begun' = Begun /\ Probing' = Probing /\ InFirst' = InFirst /\ InLoop' = InLoop
  BY <1>1 DEF Begun, Probing, InFirst, InLoop
<1>6. PICK path : path = item.path /\ path = item'.path
  BY <1>1
<1>7. PICK port : port = item.port /\ port = item'.port
  BY <1>1
<1>8. PICK n : n = Root /\ n = Root'
  BY <1>3
<1>9. Arrival(Cable, item.path)' = Arrival(Cable, item.path)
  <2>1. Arrival(Cable, item.path)' = Arrival(Cable, path)'
    BY <1>6
  <2> QED BY <1>3, <1>6, <2>1
<1>10. IsOneMore(item.path) => IsOneMore(item.path)'
  <2>1. IsOneMore(path)' => IsOneMore(item.path)'
    BY <1>6
  <2> QED BY <1>3, <1>6, <2>1
<1>11. CallMinds(miss)'
  <2>1. CallMinds(miss)
    BY DEF MissOK
  <2>2. JobMinds(miss) => JobMinds(miss)'
    <3>1. \A node, last : IsWholeBut(node, last, miss)' = IsWholeBut(node, last, miss)
      BY <1>1, SameWhole
    <3> QED BY <1>1, <3>1 DEF JobMinds
  <2>3. IsNear(job.path) => IsNear(job.path)'
    <3>1. PICK way : way = job.path /\ way = job'.path
      BY <1>1
    <3>2. IsNear(way)' => IsNear(job.path)'
      BY <3>1
    <3> QED BY <1>3, <3>1, <3>2
  <2>4. ~IsKnown(Arrival(Cable, item.path)[1]) => ~IsKnown(Arrival(Cable, item.path)[1])'
    BY <1>1, <1>9 DEF IsKnown
  <2>5. pc = "first" => \E q \in 1..NPorts[Root'] : job'.path = FirstHopPath(q)'
    BY <1>1, <1>3, <2>1 DEF CallMinds
  <2>6. pc = "root" => DOMAIN node_map' \subseteq {Root'} /\ job'.path = StartPath /\ stack' = <<>>
    BY <1>1, <1>3, <2>1 DEF CallMinds
  <2> QED BY <1>1, <1>10, <2>1, <2>2, <2>3, <2>4, <2>5, <2>6 DEF CallMinds
<1>12. PlaceMinds'
  <2>1. PlaceMinds
    BY DEF MissOK
  <2>2. IsKnown(item.port[1])' = IsKnown(item.port[1])
    BY <1>1 DEF IsKnown
  <2>3. Behind(item.port)' = Behind(item.port)
    <3>1. Behind(item.port)' = Behind(port)'
      BY <1>7
    <3> QED BY <1>3, <1>7, <3>1
  <2>4. IsKnown(Root)' = IsKnown(Root)
    BY <1>1, <1>3 DEF IsKnown
  <2> QED BY <1>1, <1>3, <1>5, <1>9, <1>10, <2>1, <2>2, <2>3, <2>4 DEF PlaceMinds
<1>13. HostMinds'
  <2>1. HostMinds
    BY DEF MissOK
  <2>2. PICK way : way = host.path /\ way = host'.path
    BY <1>1
  <2>3. IsNear(way)' => IsNear(host.path)'
    BY <2>2
  <2>4. IsNear(host.path) => IsNear(host.path)'
    BY <1>3, <2>2, <2>3
  <2>5. EndsSee(ends)' = EndsSee(ends)
    BY <1>1 DEF EndsSee
  <2> QED BY <1>1, <1>5, <2>1, <2>4, <2>5 DEF HostMinds
<1>14. QueueMinds(stack)' /\ LinksMind(remote)'
  <2>1. PICK queue : queue = stack /\ queue = stack'
    BY <1>1
  <2>2. QueueMinds(queue)' => QueueMinds(stack)'
    BY <2>1
  <2>3. PICK links : links = remote /\ links = remote'
    BY <1>1
  <2>4. LinksMind(links)' => LinksMind(remote)'
    BY <2>3 DEF LinksMind
  <2>5. QueueMinds(queue) /\ LinksMind(links)
    BY <2>1, <2>3 DEF MissOK
  <2> QED BY <1>3, <2>2, <2>4, <2>5
<1>15. \A p : /\ IsHop(first, p)' = IsHop(first, p) /\ IsFollowed(p)' = IsFollowed(p)
              /\ InQueue(stack, p)' = InQueue(stack, p) /\ IsAsked(p)' = IsAsked(p)
  BY <1>1, <1>3 DEF IsHop, IsFollowed, InQueue, IsAsked
<1>16. RootMinds(miss)'
  <2>1. BridgesOf(Root, miss)' = BridgesOf(n, miss)
    <3>1. BridgesOf(Root, miss)' = BridgesOf(n, miss)'
      BY <1>8 DEF BridgesOf
    <3> QED BY <3>1, <1>3
  <2> QED BY <1>4, <1>5, <1>8, <1>15, <2>1 DEF MissOK, RootMinds
<1>17. SwitchesMind(miss)'
  <2>1. \A m : IsHanded(m)' = IsHanded(m)
    BY <1>1, <1>5 DEF IsHanded
  <2>2. \A m : IsMinded(m, miss) => IsMinded(m, miss)'
    BY <1>3, <1>4, <1>15 DEF IsMinded
  <2> QED BY <1>4, <1>5, <2>1, <2>2 DEF MissOK, SwitchesMind
<1> QED BY <1>4, <1>11, <1>12, <1>13, <1>14, <1>16, <1>17 DEF MissOK

(* Before the first discovery nothing is missed.                           *)
LEMMA InitMinds == Init => MissInv
<1> SUFFICES ASSUME Init PROVE MissInv
  OBVIOUS
<1>1. /\ pc = "idle" /\ stack = <<>> /\ first = <<>> /\ node_map = <<>> /\ remote = <<>>
      /\ faults = 0
  BY DEF Init, CommonInit
<1>2. DOMAIN <<>> = {}
  OBVIOUS
<1>3. ~Begun /\ ~Probing /\ ~InLoop
  BY <1>1 DEF Begun, Probing, InLoop
<1>4. WholeMinds(Nowhere) /\ CallMinds(Nowhere) /\ PlaceMinds /\ HostMinds
  BY <1>1, <1>2, <1>3 DEF WholeMinds, CallMinds, PlaceMinds, HostMinds
<1>5. QueueMinds(stack) /\ LinksMind(remote) /\ RootMinds(Nowhere) /\ SwitchesMind(Nowhere)
  BY <1>1, <1>2, <1>3 DEF QueueMinds, LinksMind, RootMinds, SwitchesMind
<1>6. MissOK(Nowhere) /\ IsMissed(Nowhere)
  BY <1>1, <1>4, <1>5 DEF MissOK, IsMissed
<1> QED BY <1>1, <1>6 DEF MissInv

(* The steps in which no exchange is made.                                 *)
IsInner ==
    \/ RootFound \/ RootLost \/ FirstSwitchFound \/ FirstSwitchDone \/ FirstOther
    \/ EndFound \/ EndLost
    \/ LoopSwitchFound \/ LoopSwitchDone \/ LoopEndFound \/ LoopLost

(* They leave the fabric and the number of faults alone.                   *)
LEMMA InnerSteps == ASSUME IsInner PROVE UNCHANGED fabric /\ faults' = faults
<1>1. CASE RootFound \/ RootLost \/ FirstSwitchDone \/ FirstOther
  BY <1>1 DEF RootFound, RootLost, FirstSwitchDone, FirstOther, FirstHop, ghosts
<1>2. CASE FirstSwitchFound \/ LoopSwitchFound \/ EndFound \/ EndLost
  BY <1>2 DEF FirstSwitchFound, LoopSwitchFound, EndFound, EndLost, ghosts
<1>3. CASE LoopSwitchDone \/ LoopEndFound \/ LoopLost
  BY <1>3 DEF LoopSwitchDone, LoopEndFound, LoopLost, ghosts
<1> QED BY <1>1, <1>2, <1>3 DEF IsInner

(* They keep what is left to do, but for the port that is missed.          *)
LEMMA InnerMinds ==
    ASSUME IInv, Steady, NEW miss, MissOK(miss), IsInner PROVE MissOK(miss)'
<1>1. CASE RootFound \/ RootLost \/ FirstSwitchDone \/ FirstOther
  BY <1>1, RootFoundMinds, RootLostMinds, FirstSwitchDoneMinds, FirstOtherMinds
<1>2. CASE FirstSwitchFound \/ LoopSwitchFound \/ EndFound \/ EndLost
  BY <1>2, SwitchFoundMinds, EndFoundMinds, EndLostMinds
<1>3. CASE LoopSwitchDone \/ LoopEndFound \/ LoopLost
  BY <1>3, LoopSwitchDoneMinds, LoopEndFoundMinds, LoopLostMinds
<1> QED BY <1>1, <1>2, <1>3 DEF IsInner

(* Exchanges that failed are never forgotten, and neither is a cable that  *)
(* was unplugged.                                                          *)
LEMMA FaultsGrow ==
    ASSUME faults \in Nat, [Next]_vars
    PROVE  /\ faults' \in Nat /\ faults <= faults'
           /\ cut' = {} => cut = {} /\ UNCHANGED fabric
<1>1. ASSUME NEW path, NEW outcome \in Outcome(path), Note(outcome)
      PROVE  faults' \in Nat /\ faults <= faults'
  <2>1. outcome.fault \in {0, 1}
    BY <1>1 DEF Outcome
  <2> QED BY <1>1, <2>1 DEF Note
<1>2. ASSUME UNCHANGED fabric PROVE cut' = cut
  BY <1>2 DEF fabric
<1>3. CASE Start
  BY <1>2, <1>3 DEF Start, Forget
<1>4. CASE DiscoverNode
  <2>1. UNCHANGED fabric /\ \E outcome \in Outcome(job.path) : Note(outcome)
    BY <1>4 DEF DiscoverNode, FetchNodeInfo, FetchNodeDesc, FetchPortInfo
  <2> QED BY <1>1, <1>2, <2>1
<1>5. CASE Probe
  <2>1. UNCHANGED fabric /\ \E outcome \in Outcome(item.path) : Note(outcome)
    BY <1>5 DEF Probe
  <2> QED BY <1>1, <1>2, <2>1
<1>6. CASE ProbeEnd
  <2>1. UNCHANGED fabric /\ \E outcome \in Outcome(RouteAcross(Head(ends))) : Note(outcome)
    BY <1>6 DEF ProbeEnd
  <2> QED BY <1>1, <1>2, <2>1
<1>7. CASE IsInner
  BY <1>2, <1>7, InnerSteps
<1>8. CASE Unplug
  <2>1. faults' = faults /\ \E p : p \in cut'
    BY <1>8 DEF Unplug
  <2> QED BY <2>1
<1>9. CASE UNCHANGED vars
  <2>1. UNCHANGED fabric /\ faults' = faults
    BY <1>9 DEF vars, common, ghosts
  <2> QED BY <1>2, <2>1
<1> QED BY <1>3, <1>4, <1>5, <1>6, <1>7, <1>8, <1>9 DEF Next, Progress, IsInner

(* Every step keeps what is left to do, with one failure at most.          *)
LEMMA MissInductive ==
    ASSUME \A cable \in Cablings : IsCabling(cable), UpState \in {"Active", "Init"},
           IInv, MissInv, [Next]_vars
    PROVE  MissInv'
<1>1. faults \in Nat /\ faults' \in Nat /\ faults <= faults'
  BY FaultsGrow DEF MissInv
<1>2. SUFFICES ASSUME cut' = {}, faults' <= 1, WellWired'
               PROVE  \E now : IsMissed(now)' /\ MissOK(now)'
  BY <1>1 DEF MissInv
<1>3. cut = {} /\ UNCHANGED fabric
  BY <1>1, <1>2, FaultsGrow
<1>4. FabricOK /\ MapOK /\ IsCabling(cabling)
  BY DEF IInv, GraphInv, NodeInv, FabricOK
<1>5. WellWired
  <2>1. Cable' = Cable
    BY <1>3, SameFabric
  <2> QED BY <1>2, <2>1 DEF WellWired
<1>6. Steady
  BY <1>3, <1>4, <1>5 DEF Steady
<1>7. faults <= 1
  BY <1>1, <1>2
<1>8. PICK miss : IsMissed(miss) /\ MissOK(miss)
  BY <1>3, <1>5, <1>7 DEF MissInv
<1>9. faults' = faults => IsMissed(miss)'
  BY <1>8 DEF IsMissed
<1>10. CASE Start
  <2>1. IsMissed(Nowhere)'
    BY <1>1 DEF IsMissed
  <2> QED BY <1>10, <2>1, StartMinds
<1>11. CASE DiscoverNode /\ UNCHANGED <<traversal, probing>>
  BY <1>2, <1>6, <1>8, <1>11, DiscoverMissMinds
<1>12. CASE Probe
  BY <1>2, <1>6, <1>8, <1>12, ProbeMinds
<1>13. CASE ProbeEnd
  <2>1. MissOK(miss)'
    BY <1>6, <1>8, <1>13, ProbeEndMinds
  <2>2. IsMissed(miss)'
    <3>1. \E outcome \in Outcome(RouteAcross(Head(ends))) : Note(outcome)
      BY <1>13 DEF ProbeEnd
    <3>2. faults' = 0 => faults = 0
      BY <1>1
    <3> QED BY <1>1, <1>8, <3>2 DEF IsMissed
  <2> QED BY <2>1, <2>2
<1>14. CASE IsInner
  <2>1. faults' = faults
    BY <1>14, InnerSteps
  <2>2. MissOK(miss)'
    BY <1>6, <1>8, <1>14, InnerMinds
  <2> QED BY <1>9, <2>1, <2>2
<1>15. CASE Unplug
  <2>1. \E p : p \in cut'
    BY <1>15 DEF Unplug
  <2> QED BY <1>2, <2>1
<1>16. CASE UNCHANGED vars
  <2>1. faults' = faults
    BY <1>16 DEF vars, common, ghosts
  <2>2. MissOK(miss)'
    BY <1>4, <1>8, <1>16, StutterMinds
  <2> QED BY <1>9, <2>1, <2>2
<1> QED BY <1>10, <1>11, <1>12, <1>13, <1>14, <1>15, <1>16 DEF Next, Progress, IsInner

(* When the traversal is over, the known switches have no cable left to    *)
(* another one, but the one that is missed: so they are all of a closed    *)
(* ring.                                                                   *)
LEMMA DoneMinds ==
    ASSUME IInv, IsCabling(cabling), MissInv, pc = "done", cut = {}, faults <= 1, WellWired,
           ClosedRing, \E s \in Switches : IsKnown(s)
    PROVE  \A s \in Switches : IsKnown(s)
<1> DEFINE part == DOMAIN node_map \cap Switches
<1>1. FabricOK /\ Begun /\ ~InFirst /\ ~Probing
  BY DEF IInv, GraphInv, NodeInv, Begun, InFirst, Probing
<1>2. PICK miss : MissOK(miss)
  BY DEF MissInv
<1>3. /\ DOMAIN Cable = DOMAIN cabling
      /\ \A q \in DOMAIN Cable : Cable[q] = cabling[q]
  BY <1>1, Uncut
<1>4. stack = <<>>
  BY <1>2 DEF MissOK, PlaceMinds
<1>5. ASSUME NEW p \in Bridges(miss), p[1] \in part PROVE Cable[p][1] \in part
  <2>1. Cable[p][1] \in Switches
    BY DEF Bridges
  <2>2. IsReached(p)
    <3>1. PICK n : n = p[1]
      OBVIOUS
    <3>2. p \in BridgesOf(n, miss)
      BY <3>1 DEF BridgesOf
    <3>3. CASE n = Root
      BY <1>1, <1>2, <3>2, <3>3, RootReached
    <3>4. CASE n # Root
      <4>1. n \in Others
        BY <1>5, <3>1, <3>4 DEF Others
      <4>2. ~IsHanded(n)
        BY <1>1 DEF IsHanded
      <4>3. IsMinded(n, miss)
        BY <1>1, <1>2, <4>1, <4>2 DEF MissOK, SwitchesMind
      <4>4. ~InQueue(stack, p) /\ ~IsAsked(p)
        BY <1>4 DEF InQueue, IsAsked
      <4> QED BY <3>2, <4>3, <4>4 DEF IsMinded
    <3> QED BY <3>3, <3>4
  <2> QED BY <2>1, <2>2 DEF IsReached, IsKnown
<1>6. part # {}
  BY DEF IsKnown
<1>7. part = Switches
  <2> SUFFICES ASSUME part # Switches PROVE FALSE
    OBVIOUS
  <2>1. part \in (SUBSET Switches) \ {{}, Switches}
    BY <1>6
  <2> HIDE DEF part
  <2>2. PICK p, q \in DOMAIN cabling :
           /\ p # q /\ {p[1], q[1]} \subseteq part
           /\ {cabling[p][1], cabling[q][1]} \subseteq Switches \ part
    BY <2>1 DEF ClosedRing
  <2>3. PICK r \in DOMAIN cabling :
           r # miss /\ r[1] \in part /\ cabling[r][1] \in Switches \ part
    <3>1. CASE p # miss
      BY <2>2, <3>1
    <3>2. CASE q # miss
      BY <2>2, <3>2
    <3> QED BY <2>2, <3>1, <3>2
  <2>4. r[1] \in Switches
    BY <2>1, <2>3
  <2>5. r \in Bridges(miss) /\ Cable[r] = cabling[r]
    BY <1>3, <2>3, <2>4 DEF Bridges
  <2> QED BY <1>5, <2>3, <2>5
<1> QED BY <1>7 DEF IsKnown

(* One exchange that fails does not cost a switch of a closed ring.        *)
THEOREM OneLossLeavesRing ==
    ASSUME \A cable \in Cablings : IsCabling(cable), UpState \in {"Active", "Init"}
    PROVE  Spec => []RingSurvivesOneLoss
<1>1. Init => MissInv
  BY InitMinds
<1>2. IInv /\ MissInv /\ [Next]_vars => MissInv'
  BY MissInductive
<1>3. IInv /\ MissInv => RingSurvivesOneLoss
  BY DoneMinds DEF RingSurvivesOneLoss, IInv, GraphInv, NodeInv, FabricOK
<1> QED BY Invariance, <1>1, <1>2, <1>3, PTL DEF Spec
=============================================================================
