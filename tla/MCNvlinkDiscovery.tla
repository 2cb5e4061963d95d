------------------------- MODULE MCNvlinkDiscovery -------------------------
(***************************************************************************)
(* Small NVLink fabrics for TLC: three switches with an end (port 1) and   *)
(* two ring ports (2 and 3), the host h1 and two more nodes for ends.      *)
(***************************************************************************)
EXTENDS NvlinkDiscovery

CONSTANTS h1, h2, s1, s2, s3

MCNode == {h1, h2, s1, s2, s3}
MCSwitches == {s1, s2, s3}
MCNPorts == [n \in MCNode |-> IF n \in MCSwitches THEN 3 ELSE 1]
MCRingPorts == {2, 3}

HostPort == {<<h1, 1>>}
SwitchPort == {<<s1, 0>>}
EitherPort == HostPort \cup SwitchPort

MCPortLid == [p \in AllPorts |-> IF p[1] \in MCSwitches /\ p[2] = 0 THEN 10 ELSE 20]

Plug(p, q) == (p :> q) @@ (q :> p)
Matchings ==
    [S \in SUBSET Ports |->
        LET matching[T \in SUBSET S] ==
              IF T = {} THEN {<<>>}
              ELSE LET p == CHOOSE p \in T : TRUE
                   IN  matching[T \ {p}] \cup
                       UNION {{Plug(p, q) @@ m : m \in matching[T \ {p, q}]} : q \in T \ {p}}
        IN  matching[S]]

Uplink == Plug(<<h1, 1>>, <<s1, 1>>)
AllFabrics == {Uplink @@ m : m \in Matchings[Ports \ {<<h1, 1>>, <<s1, 1>>}]}

(* The ring of three, once each way round, with an end at s3.              *)
Ring == Uplink @@ Plug(<<s1, 3>>, <<s2, 2>>) @@ Plug(<<s2, 3>>, <<s3, 2>>)
               @@ Plug(<<s3, 3>>, <<s1, 2>>) @@ Plug(<<s3, 1>>, <<h2, 1>>)
Twisted == Uplink @@ Plug(<<s1, 3>>, <<s2, 3>>) @@ Plug(<<s2, 2>>, <<s3, 2>>)
                  @@ Plug(<<s3, 3>>, <<s1, 2>>) @@ Plug(<<s2, 1>>, <<h2, 1>>)
SomeFabrics == {Ring, Twisted}
=============================================================================
