--------------------------- MODULE AsyncDiscovery ---------------------------
(***************************************************************************)
(* What the crawl of src/examples/async_discovery.rs makes of the answers: *)
(* process_response with recv_nodeinfo, recv_nodedesc and recv_portinfo,   *)
(* against the simulated fabric.  All requests that are known are under    *)
(* way at the same time, and the answers come in any order, or in the      *)
(* order of the requests, as the simulator gives them.                     *)
(*                                                                         *)
(* Main handles a message to its end before it takes the next one, so a    *)
(* step is a message.  How requests and answers travel is AsyncPipeline's  *)
(* part; here an answer reaches main or its request expires.               *)
(***************************************************************************)
EXTENDS DirectedRoute, Collections, FiniteSetsExt, SequencesExt

CONSTANTS
    Cablings,    \* the fabrics a crawl may meet
    Overtake,    \* bound: how many older requests an answer may overtake
    MaxExpiries  \* bound: times that requests expire

ASSUME CrawlAssumption ==
    /\ \A cable \in Cablings : IsCabling(cable)
    /\ Overtake \in Nat /\ MaxExpiries \in Nat

VARIABLES
    cabling,   \* the fabric
    in_order,  \* the device answers requests in their order
    tid,       \* the id of the next request
    smp_map,   \* the requests neither answered nor expired, oldest first
    visited,   \* the nodes whose NodeInfo has been followed
    ports,     \* Node.ports of the nodes that exist: the numbers in it
    desc,      \* the nodes with a description
    info,      \* Port.info: of the ports that have one, the port it is about
    remote,    \* Port.remote of the ports that have one
    over,      \* the main loop has ended
    expiries   \* ghost: how often requests expired

crawl == <<tid, smp_map, over>>
graph == <<visited, ports, desc, info, remote>>
vars == <<root_port, cabling, in_order, crawl, graph, expiries>>

Nobody == <<>>  \* the guid of the first request

ASSUME NobodyAssumption == Nobody \notin Node

-----------------------------------------------------------------------------
Ask(attr, path, port, guid) ==
    [tid |-> 0, attr |-> attr, path |-> path, port |-> port, guid |-> guid]

(* build_and_store_smp for some requests, with the answered one taken out. *)
Requests(answered, asked) ==
    /\ smp_map' = Filter(smp_map, LAMBDA r : r # answered)
                  \o [i \in DOMAIN asked |-> [asked[i] EXCEPT !.tid = tid + i - 1]]
    /\ tid' = tid + Len(asked)

Init ==
    /\ root_port \in RootPorts /\ cabling \in Cablings /\ in_order \in BOOLEAN
    /\ tid = 1 /\ smp_map = <<Ask("NodeInfo", StartPath, 0, Nobody)>> /\ over = FALSE
    /\ visited = {} /\ ports = <<>> /\ desc = {} /\ info = <<>> /\ remote = <<>>
    /\ expiries = 0

(* What the simulator says of port 0 is what it says of port 1.            *)
InfoPort(node, port) == <<node, IF port = 0 THEN 1 ELSE port>>
IsUp(port) == port \in DOMAIN cabling

FirstPort(node) == IF node \in Switches THEN 0 ELSE 1

(* The ports a node has when its NodeInfo comes for the first time.        *)
PortsGiven(node) ==
    IF node \in DOMAIN ports THEN ports[node] ELSE FirstPort(node)..NPorts[node]

(* Fabric::get_or_create_port: the port is made when it is not there.      *)
WithPort(known, p) ==
    Put(known, p[1], (IF p[1] \in DOMAIN known THEN known[p[1]] ELSE {}) \cup {p[2]})

(* Mutant: the link is recorded at the port found only.                    *)
LinkOneEnd(p, q) == Put(remote, p, q)

LinkPorts(p, q) == Put(Put(remote, q, p), p, q)

(* Mutant: the first hop of the route is taken for the last.               *)
AskedByFirstHop(req) == <<req.guid, req.path[1]>>

(* The port the request left the node of its sender by.                    *)
AskedBy(req) == <<req.guid, req.path[GetHopCount(req.path)]>>

(* Mutant: a node that is known already is followed again.                 *)
FollowAlways(node) == TRUE

IsNew(node) == node \notin visited

(* recv_nodeinfo.  The node that led here is linked with the one that      *)
(* answered, at the port the request came in by.                           *)
RecvNodeInfo(req) ==
    LET at == Arrival(cabling, req.path)
        node == at[1]
        given == Put(ports, node, PortsGiven(node))
        followUp == <<Ask("NodeDesc", req.path, 0, node)>>
                    \o [i \in 1..(NPorts[node] - FirstPort(node) + 1) |->
                           Ask("PortInfo", req.path, FirstPort(node) + i - 1, node)]
    IN  /\ IF req.guid = Nobody
           THEN ports' = given /\ UNCHANGED remote
           ELSE /\ ports' = WithPort(WithPort(given, AskedBy(req)), at)
                /\ remote' = LinkPorts(AskedBy(req), at)
        /\ visited' = visited \cup {node}
        /\ Requests(req, IF IsNew(node) THEN followUp ELSE <<>>)
        /\ UNCHANGED <<desc, info>>

RecvNodeDesc(req) ==
    /\ desc' = desc \cup {req.guid}
    /\ Requests(req, <<>>)
    /\ UNCHANGED <<visited, ports, info, remote>>

(* An adapter that is not the agent's own is the end of the route.         *)
IsEndpoint(req) == req.guid \notin Switches /\ req.path # StartPath

Onward(req) == [req.path EXCEPT ![GetHopCount(req.path) + 1] = req.port]

RecordedPort(req) == <<req.guid, IF req.guid \in Switches THEN req.port ELSE 1>>

(* recv_portinfo.  Port 0 of a switch is followed like any other: the      *)
(* route does not get longer by it, so it leads to the switch itself.      *)
RecvPortInfo(req) ==
    /\ IF IsEndpoint(req)
       THEN Requests(req, <<>>) /\ UNCHANGED <<ports, info>>
       ELSE LET source == InfoPort(req.guid, req.port)
            IN  /\ ports' = WithPort(ports, RecordedPort(req))
                /\ info' = Put(info, RecordedPort(req), source)
                /\ Requests(req, IF IsUp(source)
                                 THEN <<Ask("NodeInfo", Onward(req), 0, req.guid)>>
                                 ELSE <<>>)
    /\ UNCHANGED <<visited, desc, remote>>

(* process_response on an answer.                                          *)
ProcessAnswer ==
    /\ \E i \in DOMAIN smp_map :
          /\ Arrival(cabling, smp_map[i].path) # Nowhere
          /\ i <= (IF in_order THEN 1 ELSE 1 + Overtake)
          /\ CASE smp_map[i].attr = "NodeInfo" -> RecvNodeInfo(smp_map[i])
               [] smp_map[i].attr = "NodeDesc" -> RecvNodeDesc(smp_map[i])
               [] smp_map[i].attr = "PortInfo" -> RecvPortInfo(smp_map[i])
    /\ UNCHANGED <<root_port, cabling, in_order, over, expiries>>

(* Mutant: the youngest requests expire.                                   *)
TimeoutOfYoungest ==
    /\ expiries < MaxExpiries /\ expiries' = expiries + 1
    /\ \E n \in DOMAIN smp_map : smp_map' = SubSeq(smp_map, 1, n - 1)
    /\ UNCHANGED <<root_port, cabling, in_order, tid, over, graph>>

(* process_response on a timeout: the oldest requests expire.              *)
ProcessTimeout ==
    /\ expiries < MaxExpiries /\ expiries' = expiries + 1
    /\ \E n \in DOMAIN smp_map : smp_map' = SubSeq(smp_map, n + 1, Len(smp_map))
    /\ UNCHANGED <<root_port, cabling, in_order, tid, over, graph>>

LoopEnds ==
    /\ ~over /\ smp_map = <<>> /\ over' = TRUE
    /\ UNCHANGED <<root_port, cabling, in_order, tid, smp_map, graph, expiries>>

Next == ProcessAnswer \/ ProcessTimeout \/ LoopEnds

Spec == Init /\ [][Next]_vars

-----------------------------------------------------------------------------
(* A switch whose port 0 reports to be up.                                 *)
FollowsPortZero(node) == node \in Switches /\ IsUp(InfoPort(node, 0))

(* A recorded link is a cable, and a recorded port is a port of its node,  *)
(* whatever the order of the answers: except at a switch whose port 0      *)
(* reports to be up, which may be linked with itself, even by a port       *)
(* number that it does not have.                                           *)
LinksTrueOrOwn ==
    /\ \A p \in DOMAIN remote :
          \/ p \in DOMAIN cabling /\ remote[p] = cabling[p]
          \/ FollowsPortZero(p[1]) /\ remote[p][1] = p[1]
    /\ \A node \in visited :
          FollowsPortZero(node) \/ ports[node] = FirstPort(node)..NPorts[node]

(* When no request has expired, every node in reach is there with its      *)
(* description, every port with its own information, and every cable       *)
(* between two of them is recorded at both ends: unless answers come out   *)
(* of order and port 0 of a switch reports to be up.                       *)
Reach == Ball(cabling, Cardinality(Node))
Explored == Reach \cap (Switches \cup {Root})
CrawlComplete ==
    over /\ expiries = 0 =>
        /\ visited = Reach /\ desc = Reach
        /\ \A p \in UNION {PortsOf(node) : node \in Explored} :
              p \in DOMAIN info /\ info[p] = p
        /\ \A p \in DOMAIN cabling :
              /\ {p[1], cabling[p][1]} \cap Explored # {}
              /\ in_order \/ ~FollowsPortZero(p[1])
              => p \in DOMAIN remote /\ remote[p] = cabling[p]

(* The crawl asks no more than this, whatever cycles the fabric has: for   *)
(* each node in reach its description and its ports, and for each port     *)
(* that reports to be up one NodeInfo.                                     *)
Questions(node) ==
    LET asked == FirstPort(node)..NPorts[node]
        followed == {i \in asked : IsUp(InfoPort(node, i))}
    IN  1 + Cardinality(asked)
          + (IF node \in Explored THEN Cardinality(followed) ELSE 0)
RequestBudget == tid <= 1 + MapThenSumSet(Questions, Reach)

(* Each request is closed once, and the crawl ends when none is open.      *)
Crawl == INSTANCE Outstanding
         WITH issued <- tid, open <- {smp_map[i].tid : i \in DOMAIN smp_map}
KeepsTrack == Crawl!Spec
=============================================================================
