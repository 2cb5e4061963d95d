--------------------------- MODULE MCIbDiscovery ---------------------------
(***************************************************************************)
(* Small fabrics for TLC: a host h1, switches s1 to s3 and a host h2.      *)
(***************************************************************************)
EXTENDS IbDiscovery

CONSTANTS h1, h2, s1, s2, s3

MCNode == {h1, h2, s1, s2, s3}
MCSwitches == {s1, s2, s3}
MCNPorts == (h1 :> 1) @@ (h2 :> 1) @@ (s1 :> 3) @@ (s2 :> 3) @@ (s3 :> 2)

HostPort == {<<h1, 1>>}
SwitchPort == {<<s1, 0>>}
EitherPort == HostPort \cup SwitchPort

(* LIDs as assigned to real fabrics: a switch has one, at its port 0, and  *)
(* its external ports report one of their own that is to be overwritten.   *)
MCPortLid ==
    [p \in AllPorts |->
        CASE p[1] = s1 -> IF p[2] = 0 THEN 10 ELSE 10 + p[2]
          [] p[1] = s2 -> IF p[2] = 0 THEN 20 ELSE 0
          [] p[1] = s3 -> IF p[2] = 0 THEN 0 ELSE 30
          [] OTHER -> 40]

(* All ways to cable a set of ports, each port to at most one other.       *)
Plug(p, q) == (p :> q) @@ (q :> p)
Matchings ==
    [S \in SUBSET Ports |->
        LET matching[T \in SUBSET S] ==
              IF T = {} THEN {<<>>}
              ELSE LET p == CHOOSE p \in T : TRUE
                   IN  matching[T \ {p}] \cup
                       UNION {{Plug(p, q) @@ m : m \in matching[T \ {p, q}]} : q \in T \ {p}}
        IN  matching[S]]

(* Every fabric in which the host is plugged into port 1 of s1.            *)
Uplink == Plug(<<h1, 1>>, <<s1, 1>>)
AllFabrics == {Uplink @@ m : m \in Matchings[Ports \ {<<h1, 1>>, <<s1, 1>>}]}

(* Two switches joined by two cables; a ring of three; a chain.            *)
DualUplink == Uplink @@ Plug(<<s1, 2>>, <<s2, 1>>) @@ Plug(<<s1, 3>>, <<s2, 2>>)
                     @@ Plug(<<s2, 3>>, <<h2, 1>>)
Ring == Uplink @@ Plug(<<s1, 2>>, <<s2, 1>>) @@ Plug(<<s1, 3>>, <<s3, 2>>)
               @@ Plug(<<s2, 3>>, <<s3, 1>>) @@ Plug(<<s2, 2>>, <<h2, 1>>)
Chain == Uplink @@ Plug(<<s1, 3>>, <<s2, 1>>) @@ Plug(<<s2, 2>>, <<s3, 2>>)
                @@ Plug(<<s3, 1>>, <<h2, 1>>)
SomeFabrics == {DualUplink, Ring, Chain}
=============================================================================
