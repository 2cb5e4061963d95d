-------------------------- MODULE MCAsyncDiscovery --------------------------
(***************************************************************************)
(* Small fabrics for TLC: a host h1, two switches and a host h2.           *)
(***************************************************************************)
EXTENDS AsyncDiscovery

CONSTANTS h1, h2, s1, s2

MCNode == {h1, h2, s1, s2}
MCSwitches == {s1, s2}
MCNPorts == (h1 :> 1) @@ (h2 :> 1) @@ (s1 :> 2) @@ (s2 :> 3)
MCRootPorts == {<<h1, 1>>, <<s1, 0>>}

Plug(p, q) == (p :> q) @@ (q :> p)

(* The port 1 of a switch decides what its port 0 reports: it is free at   *)
(* s2 in the first chain, joins the switches in the second, and leads to a *)
(* host in the others; two cables in parallel; a cable back into a switch. *)
FreePort == Plug(<<h1, 1>>, <<s1, 2>>) @@ Plug(<<s1, 1>>, <<s2, 3>>) @@ Plug(<<s2, 2>>, <<h2, 1>>)
Chain == Plug(<<h1, 1>>, <<s1, 2>>) @@ Plug(<<s1, 1>>, <<s2, 1>>) @@ Plug(<<s2, 2>>, <<h2, 1>>)
Parallel == Plug(<<s1, 1>>, <<s2, 2>>) @@ Plug(<<s1, 2>>, <<s2, 1>>) @@ Plug(<<s2, 3>>, <<h2, 1>>)
LoopBack == Plug(<<h1, 1>>, <<s2, 1>>) @@ Plug(<<s2, 2>>, <<s2, 3>>)
MCCablings == {FreePort, Chain, Parallel, LoopBack}
=============================================================================
