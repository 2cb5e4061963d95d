----------------------------- MODULE PerfQuery -----------------------------
(***************************************************************************)
(* query_port_counters_extended (src/src/mad/mod.rs), called again and     *)
(* again on one port file, with the performance branch of                  *)
(* sim::Fabric::process_one_umad (src/src/sim/mod.rs) at its other end.    *)
(*                                                                         *)
(* A query sends once and receives once; the kernel is trusted with        *)
(* retries and with matching.  The transaction id is not modelled: it is   *)
(* drawn and sent, and never compared with anything.  A record is reduced  *)
(* to the port it is about and, as a ghost, the serial of its query.       *)
(***************************************************************************)
EXTENDS Naturals, Sequences

CONSTANTS
    Lids,        \* the LIDs a caller may ask for
    PortNumber,  \* the port numbers a caller may ask for
    Answers,     \* the pairs <<lid, port>> the fabric has counters for
    TimeoutMs,   \* the timeouts a caller may give
    RetryCounts, \* the numbers of retries a caller may give
    U32,         \* 2^32, the numbers a u32 can hold
    PollMax,     \* i32::MAX, the longest wait that poll accepts
    Capacity,    \* records that fit into one direction of the file
    MaxQueries   \* bound: queries in one session

ASSUME QueryAssumption ==
    /\ Answers \subseteq Lids \X PortNumber
    /\ U32 \in Nat \ {0} /\ PollMax \in Nat
    /\ TimeoutMs \subseteq 0..(U32 - 1) /\ RetryCounts \subseteq 0..(U32 - 1)
    /\ Capacity \in Nat \ {0}
    /\ MaxQueries \in Nat

VARIABLES
    pc,         \* where the current query is
    req,        \* ghost: serial of the current or last query
    asked,      \* what it asks for
    window,     \* its total_timeout_ms
    result,     \* what the last query returned, and (ghost) for which one
    unread,     \* ghost: queries that returned without receiving anything
    overlooked, \* ghost: those of them that did not see whether anything is there
    answered,   \* ghost: the last serial whose answer has been received
    toSim, inSim, toClient   \* records to, at and from the responder

query == <<pc, req, asked, window, result, unread, overlooked, answered>>
vars == <<query, toSim, inSim, toClient>>

Asked == Lids \X PortNumber
Record == [kind : {"mad", "bad", "short"}, about : Asked, req : Nat]
Request == [kind |-> "mad", about |-> asked, req |-> req]
NoResult == [kind |-> "none", about |-> asked, of |-> 0]

Init ==
    /\ pc = "idle" /\ req = 0
    /\ asked \in Asked
    /\ window = 0
    /\ result = NoResult
    /\ unread = 0 /\ overlooked = 0 /\ answered = 0
    /\ toSim = <<>> /\ inSim = <<>> /\ toClient = <<>>

(* The worst case of the kernel's retries, in arithmetic that saturates.   *)
Saturated(n) == IF n < U32 THEN n ELSE U32 - 1
TotalTimeout(timeout_ms, retries) ==
    Saturated(Saturated(timeout_ms * Saturated(retries + 1)) + 50)

-----------------------------------------------------------------------------
Query ==
    /\ pc = "idle" /\ req < MaxQueries
    /\ req' = req + 1
    /\ asked' \in Asked
    /\ window' \in {TotalTimeout(t, r) : t \in TimeoutMs, r \in RetryCounts}
    /\ pc' = "send"
    /\ result' = [NoResult EXCEPT !.about = asked']
    /\ UNCHANGED <<unread, overlooked, answered, toSim, inSim, toClient>>

(* Mutant: the request is repeated, as the transport of a discovery would. *)
SendAgain ==
    /\ pc = "send"
    /\ Len(toSim) < Capacity
    /\ toSim' = Append(toSim, Request)
    /\ pc' \in {"send", "wait"}
    /\ UNCHANGED <<req, asked, window, result, unread, overlooked, answered, inSim, toClient>>

Send ==
    /\ pc = "send"
    /\ Len(toSim) < Capacity
    /\ toSim' = Append(toSim, Request)
    /\ pc' = "wait"
    /\ UNCHANGED <<req, asked, window, result, unread, overlooked, answered, inSim, toClient>>

Return(kind, about, of) ==
    /\ pc' = "idle"
    /\ result' = [kind |-> kind, about |-> about, of |-> of]
    /\ UNCHANGED <<req, asked, window>>

SendFails ==
    /\ pc = "send"
    /\ Return("error", asked, req)
    /\ unread' = unread + 1
    /\ UNCHANGED <<overlooked, answered, toSim, inSim, toClient>>

(* An error of mad::recv after which nothing has been read, whether or not *)
(* there is something to read.                                             *)
RecvError ==
    /\ pc = "wait"
    /\ Return("error", asked, req)
    /\ unread' = unread + 1 /\ overlooked' = overlooked + 1
    /\ UNCHANGED <<answered, toSim, inSim, toClient>>

(* The window is longer than poll accepts: the conversion of the timeout   *)
(* fails, so that the query ends at once where it asked for the longest    *)
(* wait.                                                                   *)
OutOfRange == window > PollMax /\ RecvError

(* poll fails, or the read after it.                                       *)
RecvFails == window <= PollMax /\ RecvError

(* Mutant: the wait for an answer has no end.                              *)
NeverTimesOut == FALSE /\ UNCHANGED vars

(* Mutant: time is up although an answer is there.                         *)
TimesOutRegardless ==
    /\ pc = "wait" /\ window <= PollMax
    /\ Return("TimedOut", asked, req)
    /\ unread' = unread + 1
    /\ UNCHANGED <<overlooked, answered, toSim, inSim, toClient>>

(* The poll of mad::recv times out: nothing has come in the whole of       *)
(* total_timeout_ms, and the answer, if there is one, will come later.     *)
PollTimedOut ==
    /\ pc = "wait" /\ window <= PollMax /\ toClient = <<>>
    /\ Return("TimedOut", asked, req)
    /\ unread' = unread + 1
    /\ UNCHANGED <<overlooked, answered, toSim, inSim, toClient>>

(* Whatever record comes next is this query's.  A short one, or one the    *)
(* kernel marks as timed out, is a timeout; one with a status of its own   *)
(* or of another attribute is an error; any other is an answer.            *)
Receive ==
    /\ pc = "wait" /\ window <= PollMax /\ toClient # <<>>
    /\ LET record == Head(toClient)
       IN  /\ \/ record.kind = "short" /\ Return("TimedOut", asked, req)
              \/ record.kind = "bad" /\ Return("error", asked, req)
              \/ record.kind = "mad" /\ Return("ok", record.about, record.req)
           /\ answered' = record.req
    /\ toClient' = Tail(toClient)
    /\ UNCHANGED <<unread, overlooked, toSim, inSim>>

Client ==
    \/ Query \/ Send \/ SendFails
    \/ OutOfRange \/ RecvFails \/ PollTimedOut \/ Receive

-----------------------------------------------------------------------------
(* The responder: counters for the port of the node with that LID, and     *)
(* silence for any other port or LID.  A device behind a real port may     *)
(* refuse the request, and the kernel hands back the header of one that    *)
(* nobody answered.                                                        *)
SimRead ==
    /\ inSim = <<>> /\ toSim # <<>>
    /\ inSim' = <<Head(toSim)>>
    /\ toSim' = Tail(toSim)
    /\ UNCHANGED <<query, toClient>>

Answer(kind) ==
    /\ inSim # <<>>
    /\ Len(toClient) < Capacity
    /\ toClient' = Append(toClient, [Head(inSim) EXCEPT !.kind = kind])
    /\ inSim' = <<>>
    /\ UNCHANGED <<query, toSim>>

SimAnswer == inSim # <<>> /\ Head(inSim).about \in Answers /\ Answer("mad")
DeviceRefuses == Answer("bad")
KernelTimeout == Answer("short")

SimSilent ==
    /\ inSim # <<>> /\ Head(inSim).about \notin Answers
    /\ inSim' = <<>>
    /\ UNCHANGED <<query, toSim, toClient>>

Respond == SimAnswer \/ DeviceRefuses \/ KernelTimeout \/ SimSilent
Next == Client \/ SimRead \/ Respond

Spec == Init /\ [][Next]_vars

(* The caller need not ask again; a query that has begun is carried on by  *)
(* its thread and by the clock, and the responder keeps processing.  Calls *)
(* of the system need not fail.                                            *)
Fairness ==
    /\ WF_vars(Send) /\ WF_vars(OutOfRange \/ PollTimedOut \/ Receive)
    /\ WF_vars(SimRead) /\ WF_vars(Respond)

-----------------------------------------------------------------------------
(* Properties.                                                             *)

TypeOK ==
    /\ pc \in {"idle", "send", "wait"}
    /\ req \in 0..MaxQueries /\ answered \in 0..req
    /\ unread \in 0..req /\ overlooked \in 0..unread
    /\ asked \in Asked /\ window \in 0..(U32 - 1)
    /\ result \in [kind : {"none", "ok", "TimedOut", "error"}, about : Asked, of : 0..req]
    /\ \A s \in {toSim, inSim, toClient} : s \in Seq(Record)
    /\ Len(toSim) <= Capacity /\ Len(inSim) <= 1 /\ Len(toClient) <= Capacity

(* An answer is late by no more queries than have returned without having  *)
(* read anything: as long as none does, every answer is the query's own,   *)
(* although nothing is compared.                                           *)
LagIsBounded == result.kind = "ok" => req - result.of <= unread

(* No answer is given twice, and none after the answer to a later query:   *)
(* what is under way is newer than anything received.                      *)
InOrder ==
    LET pipe == toClient \o inSim \o toSim
    IN  /\ \A i \in DOMAIN pipe : pipe[i].req > answered
        /\ \A i, j \in DOMAIN pipe : i < j => pipe[i].req < pipe[j].req

(* The query's write and the responder's wait for each other: both         *)
(* directions are full, and the responder holds an answer.  Neither reads  *)
(* before its write is done.                                               *)
Embrace ==
    /\ pc = "send" /\ Len(toSim) = Capacity
    /\ Len(toClient) = Capacity
    /\ inSim # <<>> /\ Head(inSim).about \in Answers

(* That takes as many errors of recv with nothing read as one direction    *)
(* has room for.  Time-outs of poll do not add up to it, however many, nor *)
(* late answers: a query that polls leaves nothing it could have read.     *)
EmbraceTakesErrors == Embrace => overlooked >= Capacity

(* Every query returns, whatever fails before it and however late its      *)
(* answer is, unless it has to wait in such an embrace.                    *)
QueryReturns == pc # "idle" ~> pc = "idle" \/ Embrace

(* What the test of the function asserts of an answer: it is about the     *)
(* port that was asked for.                                                *)
AnswersTheQuestion == result.kind = "ok" => result.about[2] = asked[2]
=============================================================================
