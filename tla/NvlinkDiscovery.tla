-------------------------- MODULE NvlinkDiscovery --------------------------
(***************************************************************************)
(* Fabric::seq_discover_nvlink, first_hop_discovery_nvlink and             *)
(* discover_connected_nodes_nvlink (src/src/discovery/nvlink.rs): the      *)
(* traversal of a fabric whose switches form rings by two ports each.  The *)
(* ring ports are followed depth first; the other ports of a switch are    *)
(* probed once, when the switch is found, and lead no further.             *)
(*                                                                         *)
(* The code's set of visited nodes is left out: it is never read.          *)
(***************************************************************************)
EXTENDS NodeDiscovery

CONSTANT RingPorts   \* NVLINK_RING_PORTS: 73 and 74

ASSUME RingAssumption == RingPorts \subseteq Nat \ {0}

VARIABLES
    pc,      \* idle; discovering the root, a neighbour of it, a node behind
             \* a ring port or an endpoint; at the ends of a switch; probing
             \* a ring port; done; failed
    stack,   \* the ring ports to traverse, each with the route to its node
    first,   \* the ports of the first node that are still to be followed
    item,    \* the loop's current port and the route across it
    probed,  \* the port the loop's NodeInfo reported
    ends,    \* the ports of a switch that are still to be probed
    seen,    \* the port the last probe of an end reported
    host     \* the switch whose ends are probed, and for whom

traversal == <<pc, stack, first, item, probed>>
probing == <<ends, seen, host>>
vars == <<common, traversal, probing>>

NoItem == [port |-> Nowhere, path |-> StartPath]
NoHost == [node |-> Nowhere, path |-> StartPath, for |-> "none"]

Init ==
    /\ CommonInit
    /\ pc = "idle"
    /\ stack = <<>> /\ first = <<>> /\ item = NoItem /\ probed = Nowhere
    /\ ends = <<>> /\ seen = Nowhere /\ host = NoHost

Start ==
    /\ pc \in {"idle", "done", "failed"}
    /\ Forget
    /\ pc' = "root"
    /\ stack' = <<>> /\ first' = <<>> /\ item' = NoItem /\ probed' = Nowhere
    /\ ends' = <<>> /\ seen' = Nowhere /\ host' = NoHost

-----------------------------------------------------------------------------
(* is_nvlink_ring_port, among the ports with a link.                       *)
IsRing(port) == IsEligible(port) /\ port.number \in RingPorts
IsEnd(port) == IsEligible(port) /\ port.number \notin RingPorts

Entry(node, path, port) == [port |-> <<node.guid, port.number>>, path |-> path]

(* Mutant: the second ring port is forgotten.                              *)
OneRingPort(node, path) ==
    LET ring == Filter(node.ports, IsRing)
    IN  IF ring = <<>> THEN <<>> ELSE <<Entry(node, path, Head(ring))>>

(* Every ring port is pushed to the front, so the last one is taken first. *)
RingEntries(node, path) ==
    LET pushed[i \in 0..Len(node.ports)] ==
          IF i = 0 THEN <<>>
          ELSE IF IsRing(node.ports[i]) THEN <<Entry(node, path, node.ports[i])>> \o pushed[i - 1]
          ELSE pushed[i - 1]
    IN  pushed[Len(node.ports)]

(* The other ports that have no link yet.                                  *)
EndEntries(node, path) ==
    LET IsUnlinkedEnd(port) == IsEnd(port) /\ <<node.guid, port.number>> \notin DOMAIN remote
        unlinked == Filter(node.ports, IsUnlinkedEnd)
    IN  IF HasRoom(path) THEN [i \in DOMAIN unlinked |-> Entry(node, path, unlinked[i])]
                         ELSE <<>>

(* Mutant: the traversal leaves the port it takes in the queue.            *)
TakeAndKeep(queue, links) ==
    LET open == {i \in DOMAIN queue : IsOpen(queue[i], links)}
    IN  /\ IF open = {}
           THEN /\ pc' = "done" /\ stack' = <<>> /\ item' = NoItem
                /\ Categorize
           ELSE LET i == Min(open)
                IN  /\ pc' = "probe"
                    /\ stack' = SubSeq(queue, i, Len(queue))
                    /\ item' = [port |-> queue[i].port, path |-> RouteAcross(queue[i])]
                    /\ UNCHANGED <<switches, hcas>>
        /\ first' = <<>> /\ job' = Idle

(* Ports are popped until one is open; after the last one the nodes are    *)
(* sorted by type.                                                         *)
Traverse(queue, links) ==
    LET open == {i \in DOMAIN queue : IsOpen(queue[i], links)}
    IN  /\ \/ /\ open = {}
              /\ pc' = "done" /\ stack' = <<>> /\ item' = NoItem
              /\ Categorize
           \/ /\ open # {}
              /\ pc' = "probe"
              /\ LET i == Min(open)
                 IN  /\ stack' = SubSeq(queue, i + 1, Len(queue))
                     /\ item' = [port |-> queue[i].port, path |-> RouteAcross(queue[i])]
              /\ UNCHANGED <<switches, hcas>>
        /\ first' = <<>> /\ job' = Idle

(* The loop links its current port and goes on; a port the remote node has *)
(* no record of ends the discovery, and nothing is sorted.                 *)
LinkAndTraverse(queue, port) ==
    \/ /\ port[2] \in PortNumbers(node_map[port[1]])
       /\ remote' = Linked(item.port, port)
       /\ Traverse(queue, remote')
    \/ /\ port[2] \notin PortNumbers(node_map[port[1]])
       /\ pc' = "failed" /\ job' = Idle
       /\ stack' = queue
       /\ UNCHANGED <<remote, switches, hcas, first, item>>

Probe ==
    /\ pc = "probe"
    /\ UNCHANGED <<fabric, counters, found, probing>>
    /\ \E outcome \in Outcome(item.path) :
          /\ Note(outcome)
          /\ LET port == Arrival(Cable, item.path)
             IN  \/ /\ outcome.kind = "Ok" /\ IsKnown(port[1])
                    /\ probed' = port
                    /\ LinkAndTraverse(stack, port)
                 \/ /\ outcome.kind = "Ok" /\ ~IsKnown(port[1])
                    /\ probed' = port
                    /\ pc' = "loop" /\ job' = Call(item.path)
                    /\ UNCHANGED <<remote, switches, hcas, stack, first, item>>
                 \/ /\ outcome.kind # "Ok"
                    /\ Traverse(stack, remote)
                    /\ UNCHANGED <<remote, probed>>

-----------------------------------------------------------------------------
(* discover_connected_nodes_nvlink, called for a switch just found.        *)
ProbeEndsOf(caller) ==
    /\ pc' = "ends"
    /\ host' = [node |-> job.node, path |-> job.path, for |-> caller]
    /\ ends' = EndEntries(job.node, job.path)
    /\ job' = Idle
    /\ UNCHANGED <<graph, stack, first, item, probed, seen>>

ProbeEnd ==
    /\ pc = "ends" /\ ends # <<>>
    /\ UNCHANGED <<fabric, counters, found, switches, hcas, stack, first, item, probed, host>>
    /\ LET path == RouteAcross(Head(ends))
           port == Arrival(Cable, path)
       IN  \E outcome \in Outcome(path) :
              /\ Note(outcome)
              /\ \/ /\ outcome.kind = "Ok" /\ IsKnown(port[1])
                    /\ seen' = port
                    /\ remote' = Linked(Head(ends).port, port)
                    /\ ends' = Tail(ends)
                    /\ UNCHANGED <<pc, job>>
                 \/ /\ outcome.kind = "Ok" /\ ~IsKnown(port[1])
                    /\ seen' = port
                    /\ pc' = "end" /\ job' = Call(path)
                    /\ UNCHANGED <<remote, ends>>
                 \/ /\ outcome.kind # "Ok"
                    /\ ends' = Tail(ends)
                    /\ UNCHANGED <<pc, job, remote, seen>>

EndFound ==
    /\ pc = "end" /\ job.phase = "found"
    /\ remote' = Linked(Head(ends).port, <<job.node.guid, seen[2]>>)
    /\ ends' = Tail(ends)
    /\ pc' = "ends" /\ job' = Idle
    /\ UNCHANGED <<fabric, found, switches, hcas, counters, ghosts,
                   stack, first, item, probed, seen, host>>

EndLost ==
    /\ pc = "end" /\ job.phase = "lost"
    /\ ends' = Tail(ends)
    /\ pc' = "ends" /\ job' = Idle
    /\ UNCHANGED <<fabric, graph, counters, ghosts, stack, first, item, probed, seen, host>>

-----------------------------------------------------------------------------
(* discover_node returns to the loop: a switch has its ends probed and its *)
(* ring ports pushed before the link to it is recorded.                    *)
LoopSwitchFound ==
    /\ pc = "loop" /\ job.phase = "found" /\ job.node.guid \in Switches
    /\ ProbeEndsOf("loop")
    /\ UNCHANGED <<fabric, counters, ghosts>>

LoopSwitchDone ==
    /\ pc = "ends" /\ ends = <<>> /\ host.for = "loop"
    /\ LinkAndTraverse(RingEntries(host.node, host.path) \o stack, <<host.node.guid, probed[2]>>)
    /\ UNCHANGED <<fabric, counters, found, ghosts, probed, probing>>

LoopEndFound ==
    /\ pc = "loop" /\ job.phase = "found" /\ job.node.guid \notin Switches
    /\ LinkAndTraverse(stack, <<job.node.guid, probed[2]>>)
    /\ UNCHANGED <<fabric, counters, found, ghosts, probed, probing>>

LoopLost ==
    /\ pc = "loop" /\ job.phase = "lost"
    /\ Traverse(stack, remote)
    /\ UNCHANGED <<fabric, counters, found, ghosts, remote, probed, probing>>

-----------------------------------------------------------------------------
(* first_hop_discovery_nvlink follows every port of the first node,        *)
(* whatever its state.                                                     *)
FirstHopPath(p) == [StartPath EXCEPT ![IF RootIsSwitch THEN 0 ELSE 1] = p]
IsExternal(port) == port.number # 0

FirstHop(ports, queue) ==
    /\ UNCHANGED <<fabric, counters, found, ghosts, remote, probed, probing>>
    /\ \/ ports = <<>> /\ Traverse(queue, remote)
       \/ /\ ports # <<>>
          /\ pc' = "first"
          /\ job' = Call(FirstHopPath(Head(ports).number))
          /\ first' = Tail(ports) /\ stack' = queue
          /\ UNCHANGED <<switches, hcas, item>>

RootFound ==
    pc = "root" /\ job.phase = "found" /\ FirstHop(Filter(job.node.ports, IsExternal), stack)

RootLost ==
    /\ pc = "root" /\ job.phase = "lost"
    /\ pc' = "failed" /\ job' = Idle
    /\ UNCHANGED <<fabric, graph, counters, ghosts, stack, first, item, probed, probing>>

FirstSwitchFound ==
    /\ pc = "first" /\ job.phase = "found" /\ job.node.guid \in Switches
    /\ ProbeEndsOf("first")
    /\ UNCHANGED <<fabric, counters, ghosts>>

FirstSwitchDone ==
    /\ pc = "ends" /\ ends = <<>> /\ host.for = "first"
    /\ FirstHop(first, RingEntries(host.node, host.path) \o stack)

FirstOther ==
    /\ pc = "first"
    /\ job.phase = "lost" \/ (job.phase = "found" /\ job.node.guid \notin Switches)
    /\ FirstHop(first, stack)

-----------------------------------------------------------------------------
Progress ==
    \/ DiscoverNode /\ UNCHANGED <<traversal, probing>>
    \/ RootFound \/ RootLost \/ FirstSwitchFound \/ FirstSwitchDone \/ FirstOther
    \/ ProbeEnd \/ EndFound \/ EndLost
    \/ Probe \/ LoopSwitchFound \/ LoopSwitchDone \/ LoopEndFound \/ LoopLost

Next == Start \/ Progress \/ (Unplug /\ UNCHANGED <<traversal, probing>>)

Spec == Init /\ [][Next]_vars
FairSpec == Spec /\ WF_vars(Progress)

-----------------------------------------------------------------------------
(* Properties of the traversal.                                            *)

(* A fabric wired as the traversal expects: switches are joined by their   *)
(* ring ports only, and routes are long enough for all of them.            *)
WellWired ==
    /\ Cardinality(Node) < PathLen
    /\ \A p \in DOMAIN Cable :
          p[1] \in Switches /\ Cable[p][1] \in Switches => p[2] \in RingPorts

(* Without failures a well-wired fabric is found completely, with every    *)
(* cable at a switch, although ends lead no further and the links to them  *)
(* are made while the ring is still being followed.                        *)
RingComplete ==
    pc = "done" /\ quiet /\ WellWired /\ ~RootIsSwitch =>
        /\ DOMAIN node_map = Ball(Cable, PathLen - 1)
        /\ \A p \in DOMAIN Cable : IsKnown(p[1]) /\ p[1] \in Switches => p \in DOMAIN remote

(* A ring is walked from both sides, so that one lost exchange does not    *)
(* lose a switch of it: where no single cable joins a part of the switches *)
(* with the rest, all of them are found once the first of them is, unless  *)
(* the discovery was given up.                                             *)
ClosedRing ==
    \A part \in (SUBSET Switches) \ {{}, Switches} :
        \E p, q \in DOMAIN cabling :
            /\ p # q /\ {p[1], q[1]} \subseteq part
            /\ {cabling[p][1], cabling[q][1]} \subseteq Switches \ part
RingSurvivesOneLoss ==
    pc = "done" /\ cut = {} /\ faults <= 1 /\ WellWired /\ ClosedRing
        /\ (\E s \in Switches : IsKnown(s))
    => \A s \in Switches : IsKnown(s)

(* Once its first node is known a discovery is only given up for a port    *)
(* that was left out as invalid, and such a port was counted.              *)
GivenUpForCause ==
    pc = "failed" /\ IsKnown(Root) => mad_errors > 0

(* A discovery that has begun ends, whatever is lost or unplugged.         *)
Over == pc \in {"done", "failed"}
Terminates == ~Over /\ pc # "idle" ~> Over
=============================================================================
