---------------------------- MODULE PerfSession -----------------------------
(***************************************************************************)
(* A session that reads counters, as src/tests/discovery.rs and            *)
(* src/tests/mad.rs run it: an adapter is looked up, its devices opened,   *)
(* and the port that open_port returned queried again and again.           *)
(***************************************************************************)
EXTENDS PerfQuery, DevPaths

session == <<vars, dev_vars>>

SessionInit == Init /\ DevInit

(* The SMP port is opened, or not, before, between or without any queries; *)
(* they need the other port only.                                          *)
GetPorts ==
    /\ DevNext
    /\ UNCHANGED vars

AskCounters ==
    /\ file["perf"] # {}
    /\ Next
    /\ UNCHANGED dev_vars

SessionNext == GetPorts \/ AskCounters

SessionSpec == SessionInit /\ [][SessionNext]_session /\ Fairness
=============================================================================
