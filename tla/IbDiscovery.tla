---------------------------- MODULE IbDiscovery ----------------------------
(***************************************************************************)
(* Fabric::seq_discover and first_hop_discovery_ib                         *)
(* (src/src/discovery/ib.rs): the breadth-first traversal of an InfiniBand *)
(* fabric, one step per MAD exchange or return of discover_node.           *)
(***************************************************************************)
EXTENDS NodeDiscovery

VARIABLES
    pc,      \* idle; discovering the root, a neighbour of it, or a node
             \* met by the loop; probing; done; failed
    stack,   \* the ports to traverse, each with the route to its node
    first,   \* the ports of the first node that are still to be followed
    item,    \* the loop's current port and the route across it
    probed   \* the port the loop's NodeInfo reported

traversal == <<pc, stack, first, item, probed>>
vars == <<common, traversal>>

NoItem == [port |-> Nowhere, path |-> StartPath]

Init ==
    /\ CommonInit
    /\ pc = "idle"
    /\ stack = <<>> /\ first = <<>> /\ item = NoItem /\ probed = Nowhere

Start ==
    /\ pc \in {"idle", "done", "failed"}
    /\ Forget
    /\ pc' = "root"
    /\ stack' = <<>> /\ first' = <<>> /\ item' = NoItem /\ probed' = Nowhere

-----------------------------------------------------------------------------
(* The loop of seq_discover.                                               *)

(* Mutants: the traversal takes the newest port instead of the oldest; it  *)
(* leaves the port it takes in the queue.                                  *)
TakeFrom(queue, links, newest, kept) ==
    LET open == {i \in DOMAIN queue : IsOpen(queue[i], links)}
    IN  /\ IF open = {}
           THEN /\ pc' = "done" /\ stack' = <<>> /\ item' = NoItem
                /\ Categorize
           ELSE LET i == IF newest THEN Max(open) ELSE Min(open)
                IN  /\ pc' = "probe"
                    /\ stack' = IF newest THEN SubSeq(queue, 1, i - 1)
                                          ELSE SubSeq(queue, i + (1 - kept), Len(queue))
                    /\ item' = [port |-> queue[i].port, path |-> RouteAcross(queue[i])]
                    /\ UNCHANGED <<switches, hcas>>
        /\ first' = <<>> /\ job' = Idle
TakeNewest(queue, links) == TakeFrom(queue, links, TRUE, 0)
TakeAndKeep(queue, links) == TakeFrom(queue, links, FALSE, 1)

(* Ports are popped until one is open; after the last one the nodes are    *)
(* sorted by type.                                                         *)
Traverse(queue, links) ==
    LET open == {i \in DOMAIN queue : IsOpen(queue[i], links)}
    IN  /\ \/ /\ open = {}
              /\ pc' = "done" /\ stack' = <<>> /\ item' = NoItem
              /\ Categorize
           \/ /\ open # {}
              /\ pc' = "probe"
              /\ LET i == Min(open)
                 IN  /\ stack' = SubSeq(queue, i + 1, Len(queue))
                     /\ item' = [port |-> queue[i].port, path |-> RouteAcross(queue[i])]
              /\ UNCHANGED <<switches, hcas>>
        /\ first' = <<>> /\ job' = Idle

(* The queue entries for a node reached by a route.                        *)
Entries(node, path) ==
    IF node.guid \in Switches
    THEN [i \in DOMAIN EligiblePorts(node) |->
             [port |-> <<node.guid, EligiblePorts(node)[i].number>>, path |-> path]]
    ELSE <<>>

(* The loop asks who is behind its current port.  A known node is linked   *)
(* at once; for an unknown one discover_node asks again.                   *)
Probe ==
    /\ pc = "probe"
    /\ UNCHANGED <<fabric, counters, found>>
    /\ \E outcome \in Outcome(item.path) :
          /\ Note(outcome)
          /\ LET port == Arrival(Cable, item.path)
             IN  \/ /\ outcome.kind = "Ok" /\ IsKnown(port[1])
                    /\ probed' = port
                    /\ remote' = Linked(item.port, port)
                    /\ Traverse(stack, remote')
                 \/ /\ outcome.kind = "Ok" /\ ~IsKnown(port[1])
                    /\ probed' = port
                    /\ pc' = "loop" /\ job' = Call(item.path)
                    /\ UNCHANGED <<remote, switches, hcas, stack, first, item>>
                 \/ /\ outcome.kind # "Ok"
                    /\ Traverse(stack, remote)
                    /\ UNCHANGED <<remote, probed>>

(* discover_node returns to the loop.  The remote port is the one of the   *)
(* loop's own NodeInfo.                                                    *)
LoopFound ==
    /\ pc = "loop" /\ job.phase = "found"
    /\ remote' = Linked(item.port, <<job.node.guid, probed[2]>>)
    /\ Traverse(stack \o Entries(job.node, job.path), remote')
    /\ UNCHANGED <<fabric, counters, found, ghosts, probed>>

LoopLost ==
    /\ pc = "loop" /\ job.phase = "lost"
    /\ Traverse(stack, remote)
    /\ UNCHANGED <<fabric, counters, found, ghosts, remote, probed>>

-----------------------------------------------------------------------------
(* first_hop_discovery_ib.                                                 *)

(* A switch's own ports are followed by entry 0 of the route, a channel    *)
(* adapter's by entry 1.                                                   *)
FirstHopPath(p) == [StartPath EXCEPT ![IF RootIsSwitch THEN 0 ELSE 1] = p]

(* It goes on with the next port of the first node; the loop starts after  *)
(* the last.                                                               *)
FirstHop(ports, queue) ==
    /\ UNCHANGED <<fabric, counters, found, ghosts, remote, probed>>
    /\ \/ ports = <<>> /\ Traverse(queue, remote)
       \/ /\ ports # <<>>
          /\ pc' = "first"
          /\ job' = Call(FirstHopPath(Head(ports).number))
          /\ first' = Tail(ports) /\ stack' = queue
          /\ UNCHANGED <<switches, hcas, item>>

(* Without its first node a discovery fails as a whole; any other it can   *)
(* do without.                                                             *)
RootFound == pc = "root" /\ job.phase = "found" /\ FirstHop(EligiblePorts(job.node), stack)

RootLost ==
    /\ pc = "root" /\ job.phase = "lost"
    /\ pc' = "failed" /\ job' = Idle
    /\ UNCHANGED <<fabric, graph, counters, ghosts, stack, first, item, probed>>

(* A neighbour that is a switch seeds the traversal with its ports, again  *)
(* if it has been found before.                                            *)
FirstFound ==
    pc = "first" /\ job.phase = "found" /\ FirstHop(first, stack \o Entries(job.node, job.path))

FirstLost == pc = "first" /\ job.phase = "lost" /\ FirstHop(first, stack)

-----------------------------------------------------------------------------
Progress ==
    \/ DiscoverNode /\ UNCHANGED traversal
    \/ RootFound \/ RootLost \/ FirstFound \/ FirstLost
    \/ Probe \/ LoopFound \/ LoopLost

Next == Start \/ Progress \/ (Unplug /\ UNCHANGED traversal)

(* Every exchange ends, in an answer or in an error, so the thread of the  *)
(* discovery always goes on; nobody is obliged to start one.               *)
Spec == Init /\ [][Next]_vars
FairSpec == Spec /\ WF_vars(Progress)

-----------------------------------------------------------------------------
(* Properties of the traversal.                                            *)

TypeOK ==
    /\ GraphTypeOK
    /\ pc \in {"idle", "root", "first", "probe", "loop", "done", "failed"}
    /\ pc \in {"root", "first", "loop"} <=> job.phase # "none"
    /\ stack \in Seq([port : Ports, path : Path])
    /\ first \in Seq(PortRecord)
    /\ item.port \in Ports \cup {Nowhere} /\ item.path \in Path
    /\ probed \in AllPorts \cup {Nowhere}

(* Without failures a finished discovery holds exactly the nodes within    *)
(* reach of a route, and exactly the links with a traversed port: all of a *)
(* known switch that is not too far away.  The switch the agent is on is   *)
(* traversed only if a cable of its own comes back to it.  In a second     *)
(* discovery nothing of the first one is left over.                        *)
MaxHops == IF RootIsSwitch THEN PathLen ELSE PathLen - 1
Traversed(n) ==
    /\ IsKnown(n) /\ n \in Switches
    /\ HasRoom(node_map[n].path)
    /\ n = Root => \E p \in PortsOf(Root) \cap DOMAIN Cable : Cable[p][1] = Root
Ends == {p \in DOMAIN Cable : Traversed(p[1])}
Complete ==
    pc = "done" /\ quiet =>
        /\ DOMAIN node_map = Ball(Cable, MaxHops)
        /\ DOMAIN remote = Ends \cup {Cable[p] : p \in Ends}

(* One lost exchange does not lose a link between two known switches, as   *)
(* long as both of its ports were recorded: every cable is asked about     *)
(* from both of its ends.                                                  *)
BothEndsTraversed(p) ==
    \A q \in {p, cabling[p]} : Traversed(q[1]) /\ q[2] \in PortNumbers(node_map[q[1]])
LinksSurviveOneLoss ==
    pc = "done" /\ cut = {} /\ faults <= 1 =>
        \A p \in DOMAIN cabling : BothEndsTraversed(p) => p \in DOMAIN remote

(* A discovery that has begun ends, whatever is lost or unplugged: no port *)
(* comes back into the queue once it has been taken out.                   *)
Over == pc \in {"done", "failed"}
Terminates == ~Over /\ pc # "idle" ~> Over

(* seq_discover's own comment: the traversal uses all ports on a switch.   *)
AllSwitchPortsUsed ==
    pc = "done" /\ quiet =>
        \A p \in DOMAIN Cable :
            IsKnown(p[1]) /\ p[1] \in Switches /\ HasRoom(node_map[p[1]].path)
            => p \in DOMAIN remote
=============================================================================
