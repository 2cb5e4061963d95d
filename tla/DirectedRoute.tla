--------------------------- MODULE DirectedRoute ---------------------------
(***************************************************************************)
(* Directed routes and where they lead.  A route is the initial_path array *)
(* of a DR SMP: entry i is the port by which hop i leaves a node, 0 ends   *)
(* the route.  Entry 0 is 0 in a route that starts at a channel adapter;   *)
(* the simulator also accepts routes that use it for their first hop, and  *)
(* a discovery that starts at a switch sends such routes.                  *)
(*                                                                         *)
(* A port is a pair <<node, number>>.  A cabling is a partial function     *)
(* from ports to ports, the remote_port of every simulated port that has   *)
(* one.                                                                    *)
(***************************************************************************)
EXTENDS Naturals, FiniteSets

CONSTANTS
    Node,      \* the nodes; a node stands for its GUID
    Switches,  \* those of type switch
    NPorts,    \* the number of external ports of a node
    RootPorts, \* the ports the local agent may send from
    PathLen    \* entries of a route: 64 in the code

VARIABLE root_port  \* the port it does send from: dr_paths[FIRST_HOP]

PortsOf(n) == {n} \X (1..NPorts[n])
Ports == UNION {PortsOf(n) : n \in Node}
Root == root_port[1]
RootIsSwitch == Root \in Switches

ASSUME RouteAssumption ==
    /\ IsFiniteSet(Node) /\ Switches \subseteq Node
    /\ NPorts \in [Node -> 1..255]
    /\ RootPorts \subseteq Ports \cup (Switches \X {0})
    /\ PathLen \in Nat /\ PathLen >= 2

Index == 0..(PathLen - 1)
Nowhere == <<>>
StartPath == [i \in Index |-> 0]

(* Fabric::get_hop_count: entry 0 is not counted.                          *)
GetHopCount(path) ==
    Cardinality({i \in 1..(PathLen - 1) : \A j \in 1..i : path[j] # 0})

(* The port process_one_umad arrives at after the entries up to index i;   *)
(* Nowhere when an egress port is missing or has no remote port, which     *)
(* ends in an error and no reply.  Entry 0 may be 0, any later 0 stops.    *)
Hop(cable, path, i, before) ==
    LET stopped == \E j \in 1..i : path[j] = 0
        egress == <<before[1], path[i]>>
    IN  IF before = Nowhere \/ stopped \/ (i = 0 /\ path[0] = 0) THEN before
        ELSE IF egress \in DOMAIN cable THEN cable[egress] ELSE Nowhere

Arrival(cable, path) ==
    LET at[i \in Index] == Hop(cable, path, i, IF i = 0 THEN root_port ELSE at[i - 1])
    IN  at[PathLen - 1]

(* What calls of connect_ports can build: a port that is connected again   *)
(* forgets its old remote port, which still points to it.                  *)
IsWiring(cable) ==
    /\ DOMAIN cable \subseteq Ports
    /\ \A p \in DOMAIN cable : cable[p] \in DOMAIN cable \ {p}

(* Cables plugged into both of their ports, and into no port twice: what   *)
(* connect_ports builds when it is called once per port.                   *)
IsCabling(cable) == IsWiring(cable) /\ \A p \in DOMAIN cable : cable[cable[p]] = p

(* The nodes at most k hops from the root; only switches forward, and the  *)
(* root sends from all its ports.                                          *)
Ball(cable, k) ==
    LET Wider(inner) == inner \cup {cable[p][1] : p \in {q \in DOMAIN cable :
                                        q[1] \in inner \cap (Switches \cup {Root})}}
        ball[i \in 0..k] == IF i = 0 THEN {Root} ELSE Wider(ball[i - 1])
    IN  ball[k]
=============================================================================
