--------------------------- MODULE MCPerfSession ----------------------------
(***************************************************************************)
(* One port that has counters and one that has not, and the directories    *)
(* with or without the two umad devices of the adapter (one more has no    *)
(* device file), the two of its SMI and one of somebody else, whose number *)
(* is the least.                                                           *)
(***************************************************************************)
EXTENDS PerfSession

MCAnswers == {<<10, 1>>}

Device(kind, idx, ibdev) == [kind |-> kind, idx |-> idx, ibdev |-> ibdev, dev |-> TRUE]
Pool == {Device("issm", 0, "smi"), Device("issm", 1, "own"),
         Device("umad", 0, "other"), Device("umad", 2, "smi"), Device("umad", 3, "own"),
         Device("umad", 4, "smi"), Device("umad", 5, "own"),
         [Device("umad", 1, "own") EXCEPT !.dev = FALSE]}
MCDirectories ==
    {{e \in Pool : e.kind = "issm" \/ e.ibdev \in owners} :
        owners \in SUBSET {"own", "smi", "other"}}
=============================================================================
