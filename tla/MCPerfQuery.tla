---------------------------- MODULE MCPerfQuery ----------------------------
(***************************************************************************)
(* Two LIDs with two and one ports for TLC.                                *)
(***************************************************************************)
EXTENDS PerfQuery

MCAnswers == {<<10, 1>>, <<10, 2>>, <<20, 1>>}
=============================================================================
