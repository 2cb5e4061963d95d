-------------------------- MODULE MCStandardFabric --------------------------
(***************************************************************************)
(* The discovery of the fabric that build_standard_fabric builds, made     *)
(* small in its own proportions: what src/tests/discovery.rs runs, with an  *)
(* exchange that fails.                                                    *)
(***************************************************************************)
EXTENDS IbDiscovery, StandardFabric

MCNode == SpineNodes \cup LeafNodes \cup HostNodes
MCSwitches == SpineNodes \cup LeafNodes
MCNPorts == [node \in MCNode |-> NPortsOf(node)]
MCRootPorts == {AgentPort}
MCPortLid == [p \in AllPorts |-> LidOf(p[1])]
MCCablings == {BuildStandardFabric}

(* Though connections overwrite each other, every leaf still has a port    *)
(* that leads to every spine, and every spine one that leads to every      *)
(* leaf; but the cable that leads there need not lead back.                *)
LeadsTo(a, b) == \E p \in DOMAIN BuildStandardFabric : p[1] = a /\ BuildStandardFabric[p][1] = b
ASSUME EverySpineEveryLeaf ==
    \A spine \in SpineNodes, leaf \in LeafNodes : LeadsTo(spine, leaf) /\ LeadsTo(leaf, spine)

(* What is overwritten is no port of a host: nothing else is connected to  *)
(* a host's cable, so that LinksAsConnected says that it is linked as it   *)
(* is.                                                                     *)
ASSUME HostsArePrivate ==
    \A p \in DOMAIN BuildStandardFabric : p[1] \in HostNodes =>
        LET pair == {p, BuildStandardFabric[p]}
        IN  \A q \in DOMAIN BuildStandardFabric : BuildStandardFabric[q] \in pair <=> q \in pair

(* A discovery without failures finds every node, as the test of the       *)
(* switches' enumeration expects, although it does not follow a port that  *)
(* a connection forgotten at its other end has linked before.  This is so  *)
(* for the proportions of the code, and not for all: with two spines and   *)
(* three leaves of two hosts a leaf would be missed.                       *)
EveryNodeFound == pc = "done" /\ quiet => DOMAIN node_map = MCNode
=============================================================================
