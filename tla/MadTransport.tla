---------------------------- MODULE MadTransport ----------------------------
(***************************************************************************)
(* The request/response layer of a discovery: Fabric::next_tid and         *)
(* Fabric::send_and_match_with_retries (src/src/discovery/lib.rs) over     *)
(* mad::send and mad::recv (src/src/mad/mod.rs), with the responder at the *)
(* other end of the file: sim::Fabric::run and process_one_umad            *)
(* (src/src/sim/mod.rs).                                                   *)
(*                                                                         *)
(* One thread makes one call after another; the responder is a second      *)
(* thread; two byte streams of 320-byte records join them.  A record is    *)
(* reduced to its transaction id; req, the serial of the call it belongs   *)
(* to, is a ghost that the code cannot see and the properties need.  Time  *)
(* is abstracted: a deadline may pass whenever an attempt waits.           *)
(***************************************************************************)
EXTENDS Naturals, Sequences, FiniteSets

CONSTANTS
    TidMod,         \* number of transaction ids: 2^32 in the code
    FirstTid,       \* Fabric.tid & 0xffffffff when the session starts
    Retries,        \* Fabric.retries
    Timeouts,       \* values of Fabric.timeout, the window of the first attempt
    U32,            \* the values of a u32: 2^32 in the code
    OverflowChecks, \* overflow panics (a debug build) or wraps (release)
    Capacity,       \* records that fit into one direction of the file
    Prompt,         \* an attempt polls once before its deadline passes
    MaxStreak,      \* bound: calls since the last one that was answered
    MaxRequests,    \* bound: calls made in one session
    MaxErrors       \* bound: receive errors in one session

ASSUME TransportAssumption ==
    /\ TidMod \in Nat /\ TidMod >= 3
    /\ FirstTid \in 0..(TidMod - 1)
    /\ Retries \in Nat
    /\ U32 \in Nat /\ U32 >= 2
    /\ Timeouts \subseteq 0..(U32 - 1)
    /\ Capacity \in Nat \ {0}
    /\ MaxStreak \in 1..(TidMod - 2)
    /\ MaxRequests \in Nat
    /\ MaxErrors \in Nat

ASSUME SwitchAssumption == OverflowChecks \in BOOLEAN /\ Prompt \in BOOLEAN

VARIABLES
    tid,             \* Fabric.tid
    pc,              \* where the current call is
    req,             \* ghost: serial of the current or last call
    answered,        \* ghost: serial of the last call that got a reply
    expected_tid,    \* local of the call
    attempt,         \* local of the call
    current_timeout, \* local of the call
    result,          \* what the last call returned, and (ghost) for whom
    mads_sent, mad_timeouts, mad_errors,   \* counters of the Fabric
    toSim, inSim, toClient   \* records to, at and from the responder

call == <<pc, req, answered, expected_tid, attempt, current_timeout, result>>
counters == <<mads_sent, mad_timeouts, mad_errors>>
wire == <<toSim, inSim, toClient>>
vars == <<tid, call, counters, wire>>

-----------------------------------------------------------------------------
(* Fabric::next_tid hands out the current id and stores the next; 0 is     *)
(* never handed out.                                                       *)
CurrentTid(t) == IF t = 0 THEN 1 ELSE t
(* Mutant: the mask is forgotten when the next id is computed.             *)
UnmaskedTid(t) == CurrentTid(t) + 1

FollowingTid(t) ==
    LET next == (CurrentTid(t) + 1) % TidMod IN IF next = 0 THEN 1 ELSE next

Record == [kind : {"mad", "short"}, tid : 0..(TidMod - 1), req : Nat]
Mad == [kind |-> "mad", tid |-> expected_tid, req |-> req]
NoResult == [kind |-> "none", of |-> 0]

(* Mutants: any reply is taken; a reply to a later id is taken too.        *)
AnyReply(record) == TRUE
LaterReply(record) == record.tid >= expected_tid

(* ib_user_mad::is_tid_equal: all that a reply is matched by.              *)
IsTidEqual(record) == record.tid = expected_tid

Init ==
    /\ tid = FirstTid
    /\ pc = "idle"
    /\ req = 0 /\ answered = 0
    /\ expected_tid = 0 /\ attempt = 0
    /\ current_timeout \in Timeouts
    /\ result = NoResult
    /\ mads_sent = 0 /\ mad_timeouts = 0 /\ mad_errors = 0
    /\ toSim = <<>> /\ inSim = <<>> /\ toClient = <<>>

-----------------------------------------------------------------------------
(* A fetch_* function draws an id, builds the request and calls            *)
(* send_and_match_with_retries; Fabric.timeout may be set between calls.   *)
Begin ==
    /\ pc = "idle"
    /\ req < MaxRequests /\ req - answered < MaxStreak
    /\ req' = req + 1
    /\ expected_tid' = CurrentTid(tid)
    /\ tid' = FollowingTid(tid)
    /\ pc' = "send"
    /\ attempt' = 0
    /\ current_timeout' \in Timeouts
    /\ result' = NoResult
    /\ UNCHANGED <<answered, counters, wire>>

(* Mutant: every attempt is counted as a request.                          *)
SendCountingAttempts ==
    /\ pc = "send"
    /\ Len(toSim) < Capacity
    /\ toSim' = Append(toSim, Mad)
    /\ mads_sent' = mads_sent + 1
    /\ pc' = "wait"
    /\ UNCHANGED <<tid, req, answered, expected_tid, attempt, current_timeout, result,
                   mad_timeouts, mad_errors, inSim, toClient>>

(* mad::send blocks while the file is full.                                *)
Send ==
    /\ pc = "send"
    /\ Len(toSim) < Capacity
    /\ toSim' = Append(toSim, Mad)
    /\ mads_sent' = mads_sent + (IF attempt = 0 THEN 1 ELSE 0)
    /\ pc' = "wait"
    /\ UNCHANGED <<tid, req, answered, expected_tid, attempt, current_timeout, result,
                   mad_timeouts, mad_errors, inSim, toClient>>

(* A failed send ends the call, whatever retries are left.                 *)
SendFails ==
    /\ pc = "send"
    /\ mad_errors' = mad_errors + 1
    /\ pc' = "idle"
    /\ result' = [kind |-> "fatal", of |-> req]
    /\ UNCHANGED <<tid, req, answered, expected_tid, attempt, current_timeout,
                   mads_sent, mad_timeouts, wire>>

(* The receive loop, before and after its first call of mad::recv.         *)
Waiting == pc \in {"wait", "polled"}

(* Mutants of the end of an attempt, for a number of attempts that is left *)
(* and a factor: one attempt too many, the same attempt for ever, a factor *)
(* of four.                                                                *)
AttemptOverWith(left, step, factor) ==
    /\ UNCHANGED <<tid, req, answered, expected_tid, mads_sent, mad_errors,
                   toSim, inSim>>
    /\ \/ /\ OverflowChecks /\ current_timeout * factor >= U32
          /\ pc' = "panic"
          /\ UNCHANGED <<attempt, current_timeout, result>>
       \/ /\ ~(OverflowChecks /\ current_timeout * factor >= U32)
          /\ current_timeout' = (current_timeout * factor) % U32
          /\ \/ /\ left > 0
                /\ attempt' = attempt + step
                /\ pc' = "send"
                /\ UNCHANGED result
             \/ /\ left <= 0
                /\ pc' = "idle"
                /\ result' = [kind |-> "TimedOut", of |-> req]
                /\ UNCHANGED attempt
OneAttemptMore == AttemptOverWith(Retries + 1 - attempt, 1, 2)
SameAttempt == AttemptOverWith(Retries - attempt, 0, 2)
Quadrupled == AttemptOverWith(Retries - attempt, 1, 4)

(* The end of an attempt: the window is doubled, also after the last one,  *)
(* where its value is not used any more.                                   *)
AttemptOver ==
    /\ UNCHANGED <<tid, req, answered, expected_tid, mads_sent, mad_errors,
                   toSim, inSim>>
    /\ \/ /\ OverflowChecks /\ current_timeout * 2 >= U32
          /\ pc' = "panic"
          /\ UNCHANGED <<attempt, current_timeout, result>>
       \/ /\ ~(OverflowChecks /\ current_timeout * 2 >= U32)
          /\ current_timeout' = (current_timeout * 2) % U32
          /\ \/ /\ attempt < Retries
                /\ attempt' = attempt + 1
                /\ pc' = "send"
                /\ UNCHANGED result
             \/ /\ attempt = Retries
                /\ pc' = "idle"
                /\ result' = [kind |-> "TimedOut", of |-> req]
                /\ UNCHANGED attempt

(* Mutant: the deadline is looked at although nothing has been polled.     *)
DeadlineBeforePoll ==
    /\ Waiting
    /\ mad_timeouts' = mad_timeouts + 1
    /\ UNCHANGED toClient
    /\ AttemptOver

(* The test at the head of the receive loop; the only counted timeout.     *)
DeadlinePassed ==
    /\ Waiting
    /\ Prompt => pc = "polled" \/ current_timeout = 0
    /\ mad_timeouts' = mad_timeouts + 1
    /\ UNCHANGED toClient
    /\ AttemptOver

(* The calls of mad::recv below happen before the deadline: never in an    *)
(* attempt whose window has wrapped to zero.                               *)
Receiving == Waiting /\ current_timeout > 0

PollTimedOut ==
    /\ Receiving
    /\ toClient = <<>>
    /\ UNCHANGED <<mad_timeouts, toClient>>
    /\ AttemptOver

(* A record shorter than 320 bytes is consumed and reported as TimedOut,   *)
(* whatever request it belongs to.                                         *)
ShortRead ==
    /\ Receiving
    /\ toClient # <<>> /\ Head(toClient).kind = "short"
    /\ toClient' = Tail(toClient)
    /\ UNCHANGED mad_timeouts
    /\ AttemptOver

MatchReply ==
    /\ Receiving
    /\ toClient # <<>> /\ Head(toClient).kind = "mad"
    /\ IsTidEqual(Head(toClient))
    /\ result' = [kind |-> "ok", of |-> Head(toClient).req]
    /\ toClient' = Tail(toClient)
    /\ answered' = req
    /\ pc' = "idle"
    /\ UNCHANGED <<tid, req, expected_tid, attempt, current_timeout,
                   counters, toSim, inSim>>

DiscardReply ==
    /\ Receiving
    /\ toClient # <<>> /\ Head(toClient).kind = "mad"
    /\ ~IsTidEqual(Head(toClient))
    /\ toClient' = Tail(toClient)
    /\ pc' = "polled"
    /\ UNCHANGED <<tid, req, answered, expected_tid, attempt, current_timeout,
                   result, counters, toSim, inSim>>

(* Any other error of recv (an interrupted poll, a window above i32::MAX)  *)
(* is counted and the loop goes on.                                        *)
RecvError ==
    /\ Receiving
    /\ mad_errors < MaxErrors
    /\ mad_errors' = mad_errors + 1
    /\ pc' = "polled"
    /\ UNCHANGED <<tid, req, answered, expected_tid, attempt, current_timeout,
                   result, mads_sent, mad_timeouts, wire>>

(* The arms of the match on recv's result that its data decides.           *)
Received == PollTimedOut \/ ShortRead \/ MatchReply \/ DiscardReply

Client == Begin \/ Send \/ SendFails \/ DeadlinePassed \/ Received \/ RecvError

-----------------------------------------------------------------------------
(* The responder reads one record, spends up to response_delay on it, and  *)
(* echoes its id in a reply; any error on the way means no reply at all.   *)
SimRead ==
    /\ inSim = <<>> /\ toSim # <<>>
    /\ inSim' = <<Head(toSim)>>
    /\ toSim' = Tail(toSim)
    /\ UNCHANGED <<tid, call, counters, toClient>>

SimReply ==
    /\ inSim # <<>>
    /\ Len(toClient) < Capacity
    /\ toClient' = Append(toClient, Head(inSim))
    /\ inSim' = <<>>
    /\ UNCHANGED <<tid, call, counters, toSim>>

SimDrop ==
    /\ inSim # <<>>
    /\ inSim' = <<>>
    /\ UNCHANGED <<tid, call, counters, toSim, toClient>>

(* With a umad device in place of the simulator, the kernel returns the    *)
(* bare header of a request that nobody answered.                          *)
HeaderOf(record) == [kind |-> "short", tid |-> record.tid, req |-> record.req]

KernelTimeout ==
    /\ inSim # <<>>
    /\ Len(toClient) < Capacity
    /\ toClient' = Append(toClient, HeaderOf(Head(inSim)))
    /\ inSim' = <<>>
    /\ UNCHANGED <<tid, call, counters, toSim>>

Responder == SimRead \/ SimReply \/ SimDrop \/ KernelTimeout

Next == Client \/ Responder

(* The caller is not obliged to call again; a call that has begun is       *)
(* carried on by its thread and by the clock, and the responder's loop     *)
(* keeps processing.                                                       *)
Fairness ==
    /\ WF_vars(Send)
    /\ WF_vars(DeadlinePassed)
    /\ WF_vars(Received)
    /\ WF_vars(SimRead)
    /\ WF_vars(SimReply \/ SimDrop \/ KernelTimeout)

Spec == Init /\ [][Next]_vars
FairSpec == Spec /\ Fairness

-----------------------------------------------------------------------------
(* Properties.                                                             *)

TypeOK ==
    /\ tid \in 0..(TidMod - 1) /\ expected_tid \in 0..(TidMod - 1)
    /\ pc \in {"idle", "send", "wait", "polled", "panic"}
    /\ req \in Nat /\ answered \in Nat
    /\ attempt \in 0..Retries
    /\ current_timeout \in 0..(U32 - 1)
    /\ result \in [kind : {"none", "ok", "TimedOut", "fatal"}, of : Nat]
    /\ mads_sent \in Nat /\ mad_timeouts \in Nat /\ mad_errors \in Nat
    /\ toSim \in Seq(Record) /\ inSim \in Seq(Record) /\ toClient \in Seq(Record)
    /\ Len(inSim) <= 1

(* Everything under way, the oldest record first.                          *)
Pipe == toClient \o inSim \o toSim
Copies(k) == Cardinality({i \in DOMAIN Pipe : Pipe[i].req = k})

(* A call that succeeds returns the reply to its own request, never a late *)
(* or duplicated reply to an earlier one, although the id is all it looks  *)
(* at and ids are used again after a wrap.                                 *)
AcceptedReplyIsOwn == result.kind = "ok" => result.of = req

(* When a call has succeeded, nothing of an earlier call is left anywhere  *)
(* in the pipe: replies come in the order of the requests, and the ones    *)
(* that were late have been read and thrown away.  This is what bounds the *)
(* life of a stale reply.                                                  *)
DrainedOnSuccess ==
    pc = "idle" /\ result.kind = "ok" => \A i \in DOMAIN Pipe : Pipe[i].req = req

(* A call puts at most Retries + 1 records on the wire, one per attempt it *)
(* has begun, and no record of a call is duplicated on the way.            *)
RetryBudget ==
    /\ \A k \in 1..req : Copies(k) <= Retries + 1
    /\ pc # "idle" => Copies(req) <= attempt + (IF pc = "send" THEN 0 ELSE 1)

(* mads_sent counts calls, not attempts: only a call whose very first send *)
(* failed is missing from it, and that one is in mad_errors.               *)
CountersAddUp ==
    LET unsent == IF pc = "send" /\ attempt = 0 THEN 1 ELSE 0
    IN  mads_sent <= req /\ req <= mads_sent + mad_errors + unsent

(* The windows of the attempts of a call, while nothing overflows.         *)
Windows(t) ==
    LET window[i \in 0..Retries] == IF i = 0 THEN t ELSE 2 * window[i - 1]
    IN  window

(* While the windows of all attempts fit into a u32, the doubling panics   *)
(* only where its value is not used any more: at the end of the last       *)
(* attempt, in place of the TimedOut the caller would have got.            *)
PanicIsLate ==
    (\A t \in Timeouts : Windows(t)[Retries] < U32) /\ pc = "panic" => attempt = Retries

(* The caller blocked in a write and the responder blocked in another wait *)
(* for each other for ever; it takes both directions full.                 *)
NoCircularWait ==
    ~(pc = "send" /\ Len(toSim) = Capacity /\ inSim # <<>> /\ Len(toClient) = Capacity)

(* The promise made to the callers of send_and_match_with_retries: an      *)
(* answer to this request or an error; and, KeepsPromiseLive, that every   *)
(* call returns, whatever the responder does with the requests.            *)
Promise == INSTANCE Rpc WITH pending <- pc # "idle"
KeepsPromise == Promise!RpcSafety
KeepsPromiseLive == Promise!RpcSpec
=============================================================================
