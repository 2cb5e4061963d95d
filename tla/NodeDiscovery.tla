--------------------------- MODULE NodeDiscovery ---------------------------
(***************************************************************************)
(* Fabric::discover_node with populate_node_ports and the fetch functions  *)
(* (src/src/discovery/lib.rs) against the simulated fabric                 *)
(* (src/src/sim/mod.rs): the part that the two traversals, IbDiscovery and *)
(* NvlinkDiscovery, have in common, with the graph they fill.              *)
(*                                                                         *)
(* One step is one MAD exchange, so that the fabric can change between any *)
(* two.  An exchange is a call of send_and_match_with_retries as Rpc       *)
(* promises it: the reply to this very request, TimedOut, or an error.     *)
(* A traversal calls discover_node by setting job and goes on when job     *)
(* says that the node was found or lost.                                   *)
(***************************************************************************)
EXTENDS NodeRecord

CONSTANTS
    Cablings,    \* the fabrics a session may meet
    FaultKinds,  \* how an exchange may fail though its target would answer
    MaxFaults,   \* bound: such failures in one session
    MaxCuts,     \* bound: cables unplugged in one session
    MaxRuns      \* bound: discoveries in one session

ASSUME DiscoveryAssumption ==
    /\ \A cable \in Cablings : IsWiring(cable)
    /\ FaultKinds \subseteq {"TimedOut", "InvalidInput", "Other"}
    /\ MaxFaults \in Nat /\ MaxCuts \in Nat /\ MaxRuns \in Nat

VARIABLES
    cabling,   \* the cables at the start
    cut,       \* the ports whose cable has been unplugged
    node_map,  \* Fabric.node_map: the nodes known, by GUID
    nodes,     \* Fabric.nodes, in the order of discovery
    remote,    \* Port.remote_port of the recorded ports that have one
    switches, hcas,             \* Fabric.switches and Fabric.hcas
    mad_timeouts, mad_errors,   \* what populate_node_ports adds to them
    job,       \* the call of discover_node: how far it is, and its node
    faults, runs,   \* ghosts: what of the bounds is used up
    quiet      \* ghost: no fault and no cut since the discovery began

fabric == <<root_port, cabling, cut>>
found == <<node_map, nodes>>
graph == <<found, remote, switches, hcas>>
counters == <<mad_timeouts, mad_errors>>
ghosts == <<faults, runs, quiet>>
common == <<fabric, graph, counters, job, ghosts>>

-----------------------------------------------------------------------------
(* Mutant: a node that is known already is taken for a new one.            *)
NeverKnown(guid) == FALSE

IsKnown(guid) == guid \in DOMAIN node_map

Cable == [p \in DOMAIN cabling \ cut |-> cabling[p]]
Idle == [phase |-> "none", path |-> StartPath, node |-> Nowhere, next |-> 0]
Call(path) == [phase |-> "nodeInfo", path |-> path, node |-> Nowhere, next |-> 0]

(* The outcomes of an exchange with the node a route leads to.  Without a  *)
(* reply it times out; whatever else goes wrong is a fault.                *)
Outcome(path) ==
    {[kind |-> IF Arrival(Cable, path) = Nowhere THEN "TimedOut" ELSE "Ok", fault |-> 0]}
    \cup (IF faults < MaxFaults THEN {[kind |-> f, fault |-> 1] : f \in FaultKinds} ELSE {})

Note(outcome) ==
    /\ faults' = faults + outcome.fault
    /\ quiet' = (quiet /\ outcome.fault = 0)
    /\ UNCHANGED runs

CommonInit ==
    /\ root_port \in RootPorts
    /\ cabling \in Cablings /\ cut = {}
    /\ node_map = <<>> /\ nodes = <<>> /\ remote = <<>>
    /\ switches = <<>> /\ hcas = <<>>
    /\ mad_timeouts = 0 /\ mad_errors = 0
    /\ job = Idle
    /\ faults = 0 /\ runs = 0 /\ quiet = TRUE

(* Mutant: the nodes of the last discovery are kept.                       *)
ForgetButNodes ==
    /\ runs < MaxRuns
    /\ nodes' = <<>> /\ remote' = <<>> /\ switches' = <<>> /\ hcas' = <<>>
    /\ mad_timeouts' = 0 /\ mad_errors' = 0
    /\ job' = Call(StartPath)
    /\ runs' = runs + 1 /\ quiet' = TRUE
    /\ UNCHANGED <<fabric, faults, node_map>>

(* Both traversals begin by forgetting the last result, and with the node  *)
(* the agent is on.                                                        *)
Forget ==
    /\ runs < MaxRuns
    /\ node_map' = <<>> /\ nodes' = <<>> /\ remote' = <<>>
    /\ switches' = <<>> /\ hcas' = <<>>
    /\ mad_timeouts' = 0 /\ mad_errors' = 0
    /\ job' = Call(StartPath)
    /\ runs' = runs + 1 /\ quiet' = TRUE
    /\ UNCHANGED <<fabric, faults>>

-----------------------------------------------------------------------------
(* The ends of discover_node.                                              *)
Found(node) == job' = [job EXCEPT !.phase = "found", !.node = node]
Lost == job' = [job EXCEPT !.phase = "lost"]

(* A node known already is returned as it is.                              *)
FetchNodeInfo ==
    /\ job.phase = "nodeInfo"
    /\ UNCHANGED <<fabric, graph, counters>>
    /\ \E outcome \in Outcome(job.path) :
          /\ Note(outcome)
          /\ LET port == Arrival(Cable, job.path)
             IN  \/ /\ outcome.kind = "Ok" /\ IsKnown(port[1])
                    /\ Found(node_map[port[1]])
                 \/ /\ outcome.kind = "Ok" /\ ~IsKnown(port[1])
                    /\ job' = [job EXCEPT !.phase = "nodeDesc",
                                          !.node = NewNode(port[1], job.path, port[2])]
                 \/ outcome.kind # "Ok" /\ Lost

(* The ports of a switch are asked for from port 0 on.                     *)
FetchNodeDesc ==
    /\ job.phase = "nodeDesc"
    /\ UNCHANGED <<fabric, graph, counters>>
    /\ \E outcome \in Outcome(job.path) :
          /\ Note(outcome)
          /\ \/ /\ outcome.kind = "Ok"
                /\ job' = [job EXCEPT !.phase = "portInfo",
                                      !.next = IF job.node.guid \in Switches THEN 0 ELSE 1]
             \/ outcome.kind # "Ok" /\ Lost

(* Mutant: one port more than the node has.                                *)
PortDonePastLast(node, p) ==
    IF p <= NPorts[node.guid]
    THEN job' = [job EXCEPT !.node = node, !.next = p + 1] /\ UNCHANGED found
    ELSE /\ Found(node)
         /\ node_map' = Put(node_map, node.guid, node)
         /\ nodes' = Append(nodes, node.guid)

(* After port p: the next one, or the finished node goes into the map.     *)
PortDone(node, p) ==
    IF p < NPorts[node.guid]
    THEN job' = [job EXCEPT !.node = node, !.next = p + 1] /\ UNCHANGED found
    ELSE /\ Found(node)
         /\ node_map' = Put(node_map, node.guid, node)
         /\ nodes' = Append(nodes, node.guid)

(* What populate_node_ports does with the outcome of a PortInfo: port 0 of *)
(* a switch may fail; a port that times out is recorded as down, one       *)
(* refused as invalid is left out, any other error gives up the whole node.*)
PortArrived(node, p) ==
    /\ PortDone(Attach(node, PortOf(Cable, node.guid, p)), p)
    /\ UNCHANGED counters

(* Mutant: the timeout is not counted.                                     *)
PortTimedOutUncounted(node, p) ==
    /\ PortDone(IF p = 0 THEN node ELSE Attach(node, Placeholder(p)), p)
    /\ UNCHANGED counters

PortTimedOut(node, p) ==
    /\ PortDone(IF p = 0 THEN node ELSE Attach(node, Placeholder(p)), p)
    /\ mad_timeouts' = mad_timeouts + 1
    /\ UNCHANGED mad_errors

(* Mutant: the port that is left out is not counted.                       *)
PortInvalidUncounted(node, p) == PortDone(node, p) /\ UNCHANGED counters

PortInvalid(node, p) ==
    /\ PortDone(node, p)
    /\ mad_errors' = mad_errors + (IF p = 0 THEN 0 ELSE 1)
    /\ UNCHANGED mad_timeouts

PortFailed(node, p) ==
    /\ \/ p = 0 /\ PortDone(node, p)
       \/ p # 0 /\ Lost /\ UNCHANGED found
    /\ UNCHANGED counters

FetchPortInfo ==
    /\ job.phase = "portInfo"
    /\ UNCHANGED <<fabric, remote, switches, hcas>>
    /\ \E outcome \in Outcome(job.path) :
          /\ Note(outcome)
          /\ \/ outcome.kind = "Ok" /\ PortArrived(job.node, job.next)
             \/ outcome.kind = "TimedOut" /\ PortTimedOut(job.node, job.next)
             \/ outcome.kind = "InvalidInput" /\ PortInvalid(job.node, job.next)
             \/ outcome.kind = "Other" /\ PortFailed(job.node, job.next)

DiscoverNode == FetchNodeInfo \/ FetchNodeDesc \/ FetchPortInfo

-----------------------------------------------------------------------------
(* What the traversals do with a port and a route.                         *)

(* Mutants: the last entry of a route is never used; the next hop          *)
(* overwrites the last one.                                                *)
LastEntryUnused(path) == GetHopCount(path) + 2 < PathLen
LastHopOverwritten(entry) ==
    [entry.path EXCEPT ![GetHopCount(entry.path)] = entry.port[2]]

(* A queue entry is a port and the route to its node.  It is skipped when  *)
(* its port is linked already or its route has no room for one more hop.   *)
HasRoom(path) == GetHopCount(path) + 1 < PathLen
RouteAcross(entry) ==
    [entry.path EXCEPT ![GetHopCount(entry.path) + 1] = entry.port[2]]
IsOpen(entry, links) ==
    entry.port[2] # 0 /\ entry.port \notin DOMAIN links /\ HasRoom(entry.path)

(* Mutants: the port the remote node was discovered by is linked; a link   *)
(* is recorded at one of its ends only.                                    *)
LinkedToEntry(local, port) ==
    LET entry == <<port[1], node_map[port[1]].local_port>>
    IN  Put(Put(remote, entry, local), local, entry)
LinkedOneWay(local, port) ==
    IF port[2] \in PortNumbers(node_map[port[1]]) THEN Put(remote, local, port) ELSE remote

(* Linking a port with the one a NodeInfo named, both ways; a port the     *)
(* remote node has no record of is left alone.                             *)
Linked(local, port) ==
    IF port[2] \in PortNumbers(node_map[port[1]])
    THEN Put(Put(remote, port, local), local, port)
    ELSE remote

(* The final categorization.                                               *)
IsSwitchNode(guid) == guid \in Switches
IsOtherNode(guid) == guid \notin Switches
Categorize ==
    /\ switches' = Filter(nodes, IsSwitchNode)
    /\ hcas' = Filter(nodes, IsOtherNode)

-----------------------------------------------------------------------------
(* The environment: somebody unplugs a cable.                              *)
Unplug ==
    /\ runs > 0
    /\ Cardinality(cut) < 2 * MaxCuts
    /\ \E p \in DOMAIN Cable :
          /\ cut' = cut \cup {p, cabling[p]}
          /\ quiet' = FALSE
    /\ UNCHANGED <<root_port, cabling, graph, counters, job, faults, runs>>

-----------------------------------------------------------------------------
(* Properties of the graph.                                                *)

PortRecord == [number : 0..255, state : {"Active", "Init", "Armed", "Down"}, lid : Nat]
Path == [Index -> 0..255]
NodeShape ==
    [guid : Node, path : Path, local_port : 0..255, lid : Nat, ports : Seq(PortRecord)]

GraphTypeOK ==
    /\ cut \subseteq DOMAIN cabling
    /\ DOMAIN node_map \subseteq Node
    /\ \A n \in DOMAIN node_map : node_map[n] \in NodeShape
    /\ nodes \in Seq(Node) /\ switches \in Seq(Node) /\ hcas \in Seq(Node)
    /\ DOMAIN remote \subseteq Ports
    /\ job.phase \in {"none", "nodeInfo", "nodeDesc", "portInfo", "found", "lost"}
    /\ job.path \in Path
    /\ job.phase \in {"nodeDesc", "portInfo", "found"} => job.node \in NodeShape
    /\ job.phase = "portInfo" => job.next \in 0..NPorts[job.node.guid]
    /\ mad_timeouts \in Nat /\ mad_errors \in Nat

(* node_map and the list of nodes stay two views of one set, and no node   *)
(* is entered twice, however many cables lead to it and whichever fetch    *)
(* failed half-way; the two lists of the end split the nodes by type.      *)
Enumerated ==
    /\ ToSet(nodes) = DOMAIN node_map
    /\ Len(nodes) = Cardinality(DOMAIN node_map)
    /\ switches # <<>> \/ hcas # <<>> => /\ ToSet(switches) = ToSet(nodes) \cap Switches
                                         /\ ToSet(hcas) = ToSet(nodes) \ Switches

(* Every recorded link is a cable, and is recorded at both of its ends:    *)
(* the traversal names the local port, a NodeInfo of its own the remote    *)
(* one, and discover_node the remote node, in up to three conversations.   *)
LinksTrue ==
    \A p \in DOMAIN remote :
        /\ p \in DOMAIN cabling /\ remote[p] = cabling[p]
        /\ remote[p] \in DOMAIN remote

(* Where ports are connected again and again, a link still follows the     *)
(* connection of one of its ends; and a cable that nothing else was ever   *)
(* connected to is linked as it is, at both ends: what the others          *)
(* overwrite is never one of its ports.                                    *)
IsPrivate(p) ==
    \A q \in DOMAIN cabling : cabling[q] \in {p, cabling[p]} <=> q \in {p, cabling[p]}
LinksAsConnected ==
    \A p \in DOMAIN remote :
        /\ {p, remote[p]} \subseteq DOMAIN cabling
        /\ cabling[p] = remote[p] \/ cabling[remote[p]] = p
        /\ IsPrivate(p) => /\ remote[p] = cabling[p]
                           /\ remote[p] \in DOMAIN remote /\ remote[remote[p]] = p

(* What a discovery could not see is counted: no connected port is         *)
(* recorded as down, and no port missing, without a timeout or an error    *)
(* that says so.                                                           *)
RecordedDown(n) ==
    {i \in DOMAIN node_map[n].ports :
        /\ node_map[n].ports[i].state = "Down"
        /\ <<n, node_map[n].ports[i].number>> \in DOMAIN cabling}
Missing(n) == (1..NPorts[n]) \ PortNumbers(node_map[n])
GapsAreCounted ==
    cut = {} =>
        /\ Cardinality(UNION {{n} \X RecordedDown(n) : n \in DOMAIN node_map}) <= mad_timeouts
        /\ Cardinality(UNION {{n} \X Missing(n) : n \in DOMAIN node_map}) <= mad_errors

(* A switch whose port 0 answered with a LID has that LID, and so has each *)
(* of its external ports, a placeholder of one that timed out included.    *)
LidPropagated ==
    \A n \in DOMAIN node_map \cap Switches :
        0 \in PortNumbers(node_map[n]) /\ PortLid[<<n, 0>>] # 0 =>
            /\ node_map[n].lid = PortLid[<<n, 0>>]
            /\ \A i \in DOMAIN node_map[n].ports :
                   node_map[n].ports[i].lid = PortLid[<<n, 0>>]
=============================================================================
