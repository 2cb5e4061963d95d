--------------------------- MODULE StandardFabric ---------------------------
(***************************************************************************)
(* The fabric that sim::build_standard_fabric builds (src/src/sim/mod.rs): *)
(* spine switches, and leaf switches with hosts, joined by as many rounds  *)
(* of uplinks as a leaf has hosts.  The rounds of one leaf, and those of   *)
(* different leaves, meet at the same ports.  connect_ports overwrites     *)
(* what the port had before, but not what the other side remembers of it.  *)
(***************************************************************************)
EXTENDS Naturals, SequencesExt

CONSTANTS
    Spines, Leaves,  \* how many: 16 and 32 in the code
    Hosts            \* on each leaf, and the rounds of uplinks: 32

ASSUME BuilderAssumption == Spines \in Nat /\ Leaves \in Nat /\ Hosts \in Nat

Spine(s) == <<"spine", s>>
Leaf(l) == <<"leaf", l>>
Host(l, h) == <<"host", l, h>>

SpineNodes == {Spine(s) : s \in 0..(Spines - 1)}
LeafNodes == {Leaf(l) : l \in 0..(Leaves - 1)}
HostNodes == {Host(l, h) : l \in 0..(Leaves - 1), h \in 0..(Hosts - 1)}

(* A switch reports 65 ports, for 32 hosts and 32 uplinks; the last of     *)
(* them is never used.                                                     *)
NPortsOf(node) == IF node \in HostNodes THEN 1 ELSE 2 * Hosts + 1

(* connect_ports, for calls that have no port in common.                   *)
ConnectPorts(remote_port, calls) == calls @@ AntiFunction(calls) @@ remote_port

(* A round of uplinks of leaf l: one of its ports with one of each spine,  *)
(* as long as both of them exist.                                          *)
SpinePort(l, i) == l + 1 + i
LeafPort(s, i) == Hosts + 1 + s + i \div 2
IsSafe(port) == port < NPortsOf(Spine(0))

Round(l, i) ==
    LET calls == {s \in 0..(Spines - 1) : IsSafe(SpinePort(l, i)) /\ IsSafe(LeafPort(s, i))}
    IN  [p \in {<<Spine(s), SpinePort(l, i)>> : s \in calls} |->
            <<Leaf(l), LeafPort(p[1][2], i)>>]

Downlinks(l) == [p \in {<<Leaf(l), h + 1>> : h \in 0..(Hosts - 1)} |-> <<Host(l, p[2] - 1), 1>>]

(* Leaf by leaf, first all its uplinks and then its hosts.                 *)
AllCalls(l) == [i \in 1..Hosts |-> Round(l, i - 1)] \o <<Downlinks(l)>>
BuildStandardFabric ==
    FoldLeft(ConnectPorts, <<>>, FlattenSeq([l \in 1..Leaves |-> AllCalls(l - 1)]))

(* The LIDs: each switch has one for all its ports.                        *)
LidOf(node) ==
    CASE node[1] = "spine" -> 2000 + node[2]
      [] node[1] = "leaf"  -> 3000 + node[2]
      [] node[1] = "host"  -> 4001 + node[2] * Hosts + node[3]

(* The first host of the first leaf runs the agent.                        *)
AgentPort == <<Host(0, 0), 1>>
=============================================================================
