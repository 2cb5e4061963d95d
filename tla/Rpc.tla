-------------------------------- MODULE Rpc --------------------------------
(***************************************************************************)
(* What one call of Fabric::send_and_match_with_retries promises its       *)
(* caller, with the wire, the retries and the transaction ids left out:    *)
(* the call returns, with the reply to its own request or with an error,   *)
(* and no second call starts before it has returned.  MadTransport is      *)
(* shown to implement this module.                                         *)
(***************************************************************************)
EXTENDS Naturals

CONSTANT MaxRequests   \* bound: calls made in one session

VARIABLES req,         \* calls made so far; the serial of the current one
          pending,     \* the current call has not returned
          result       \* what the last call returned

rpcVars == <<req, pending, result>>

NoResult == [kind |-> "none", of |-> 0]
Answer(k) == [kind |-> "ok", of |-> k]
Errors == {"TimedOut", "fatal"}
Error(e, k) == [kind |-> e, of |-> k]

RpcInit == req = 0 /\ pending = FALSE /\ result = NoResult

Invoke ==
    /\ ~pending
    /\ req < MaxRequests
    /\ req' = req + 1
    /\ pending' = TRUE
    /\ result' = NoResult

ReturnAnswer ==
    /\ pending
    /\ pending' = FALSE
    /\ result' = Answer(req)
    /\ UNCHANGED req

ReturnError ==
    /\ pending
    /\ pending' = FALSE
    /\ result' \in {Error(e, req) : e \in Errors}
    /\ UNCHANGED req

Return == ReturnAnswer \/ ReturnError

RpcNext == Invoke \/ Return

RpcSafety == RpcInit /\ [][RpcNext]_rpcVars

RpcSpec == RpcSafety /\ WF_rpcVars(Return)
=============================================================================
