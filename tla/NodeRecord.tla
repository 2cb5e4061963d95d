----------------------------- MODULE NodeRecord -----------------------------
(***************************************************************************)
(* The node and port records a discovery builds (src/src/discovery/lib.rs):*)
(* what discover_node puts into a Node, and how attach_port_to_node adds a *)
(* port and passes LIDs between a node and its ports.                      *)
(***************************************************************************)
EXTENDS Naturals, Sequences, SequencesExt, Collections, DirectedRoute

CONSTANTS
    PortLid,   \* the LID in the PortInfo of <<node, number>>, 0 if none
    UpState    \* the link state a connected port reports

(* Port 0 is the management port of a switch.                              *)
AllPorts == Ports \cup (Switches \X {0})

ASSUME RecordAssumption ==
    /\ PortLid \in [AllPorts -> Nat]
    /\ UpState \in {"Active", "Init", "Armed"}

NewNode(guid, path, local_port) ==
    [guid |-> guid, path |-> path, local_port |-> local_port, lid |-> 0, ports |-> <<>>]

(* The port a PortInfo reply yields.  The simulator answers for port 0     *)
(* with port 1, whose state is not looked at; its LID is PortLid's.        *)
PortOf(cable, guid, p) ==
    [number |-> p,
     state |-> IF <<guid, p>> \in DOMAIN cable THEN UpState ELSE "Down",
     lid |-> PortLid[<<guid, p>>]]

Placeholder(p) == [number |-> p, state |-> "Down", lid |-> 0]

(* Mutant: a port that reports a LID of its own keeps it.                  *)
AttachKeepingLid(node, port) ==
    LET inherits == node.guid \in Switches /\ node.lid # 0 /\ port.lid = 0
        provides == node.lid = 0 /\ port.number \in {0, node.local_port}
    IN  [node EXCEPT
           !.lid = IF provides THEN port.lid ELSE @,
           !.ports = Append(@, IF inherits THEN [port EXCEPT !.lid = node.lid] ELSE port)]

(* attach_port_to_node: an external port of a switch takes over the LID    *)
(* the switch has already; a node without one takes that of its port 0 or  *)
(* of the port it was reached by.                                          *)
Attach(node, port) ==
    LET inherits == node.guid \in Switches /\ port.number # 0 /\ node.lid # 0
        provides == /\ node.lid = 0
                    /\ port.number \in {0, node.local_port}
    IN  [node EXCEPT
           !.lid = IF provides THEN port.lid ELSE @,
           !.ports = Append(@, IF inherits THEN [port EXCEPT !.lid = node.lid] ELSE port)]

PortNumbers(node) == {node.ports[i].number : i \in DOMAIN node.ports}

(* The ports whose links a traversal follows.                              *)
IsEligible(port) == port.number # 0 /\ port.state \in {"Active", "Init"}
EligiblePorts(node) == Filter(node.ports, IsEligible)
=============================================================================
