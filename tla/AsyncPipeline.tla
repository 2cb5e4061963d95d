--------------------------- MODULE AsyncPipeline ---------------------------
(***************************************************************************)
(* The tasks of src/examples/async_discovery.rs.  The main loop builds     *)
(* requests and puts them into tx_chan; the send task writes each to the   *)
(* device and asks for one read through recv_chan; the read task waits for *)
(* the device, at most a second, and puts what it got into res_chan; the   *)
(* main loop takes it from there.  All three channels are bounded, so each *)
(* task can wait for the next one, in a circle.                            *)
(*                                                                         *)
(* A request is its id, which grows with the time it was built at.  What   *)
(* an answer is about is AsyncDiscovery's part; here it is the number of   *)
(* requests that the handler of the answer makes.                          *)
(***************************************************************************)
EXTENDS Naturals, Sequences, FiniteSets

CONSTANTS
    TxCap, RecvCap, ResCap,  \* the channels: 128, 1 and 256 in the code
    Fanout,       \* the most requests one answer may bring
    MaxRequests,  \* bound: requests in a crawl without trouble
    MaxTroubled,  \* bound: requests in a crawl with trouble, which is any of
    MaxLost,      \* bound: requests without an answer
    MaxLate,      \* bound: answers that come when a read has timed out
    MaxFaults     \* bound: reads or waits of the device that fail

ASSUME PipelineAssumption ==
    /\ TxCap \in Nat \ {0} /\ RecvCap \in Nat \ {0} /\ ResCap \in Nat \ {0}
    /\ Fanout \in Nat /\ MaxRequests \in Nat /\ MaxTroubled \in Nat
    /\ MaxLost \in Nat /\ MaxLate \in Nat /\ MaxFaults \in Nat

VARIABLES
    tid,        \* the id of the next request
    smp_map,    \* the requests neither answered nor expired
    main,       \* where the main loop is
    hand,       \* the request it is sending
    batch,      \* how many more its handler will build
    requests_sent, responses_received,  \* the counters it logs in the end
    tx_chan,    \* requests on their way to the send task
    sender,     \* "take", "write", or "ask" when a request is written
    taken,      \* the request it has taken from tx_chan
    recv_chan,  \* how many PollRecv wait for the read task
    reader,     \* "idle", "poll", or "put" when it has something for main
    mark,       \* the requests built, and written, when its poll began
    got,        \* what it puts into res_chan
    res_chan,   \* what waits for the main loop
    wire,       \* the requests the device will answer
    inbox,      \* the answers that wait in the device to be read
    event,      \* the device has reported answers, the runtime not yet
    readable,   \* AsyncFd has the device for readable
    lost, late, faults,  \* ghosts: what of the bounds is used up
    unpolled,   \* ghost: polls that ended without a message
    overlooked  \* ghost: a poll timed out although an answer was there

mainVars == <<tid, smp_map, main, hand, batch, requests_sent, responses_received>>
sendVars == <<sender, taken>>
deviceVars == <<wire, inbox, event, readable>>
readVars == <<reader, mark, got>>
ghosts == <<lost, late, faults, unpolled, overlooked>>
vars == <<mainVars, tx_chan, sendVars, recv_chan, readVars, res_chan, deviceVars, ghosts>>

(* The bounds.                                                             *)
Untroubled == lost = 0 /\ late = {} /\ faults = 0
MayBuild(n) == n = 0 \/ tid + n <= (IF Untroubled THEN MaxRequests ELSE MaxTroubled)
MayFail(used, max) == used < max /\ tid + batch <= MaxTroubled

Message == [kind : {"Answer", "Zero", "Timeout"}, tid : Nat]

-----------------------------------------------------------------------------
(* The first request is built before the loop.                             *)
Init ==
    /\ tid = 1 /\ smp_map = {0} /\ main = "send" /\ hand = 0 /\ batch = 0
    /\ requests_sent = 0 /\ responses_received = 0
    /\ tx_chan = <<>> /\ sender = "take" /\ taken = 0 /\ recv_chan = 0
    /\ reader = "idle" /\ mark = [built |-> 0, written |-> 0]
    /\ got = [kind |-> "Timeout", tid |-> 0] /\ res_chan = <<>>
    /\ wire = {} /\ inbox = <<>> /\ event = FALSE /\ readable = FALSE
    /\ lost = 0 /\ late = {} /\ faults = 0 /\ unpolled = 0
    /\ overlooked = FALSE

(* The main loop.  A request is in smp_map before it is sent.              *)
Build ==
    /\ main = "build"
    /\ smp_map' = smp_map \cup {tid} /\ hand' = tid
    /\ tid' = tid + 1 /\ batch' = batch - 1
    /\ main' = "send"
    /\ UNCHANGED <<requests_sent, responses_received, tx_chan, sendVars, recv_chan,
                   readVars, res_chan, deviceVars, ghosts>>

SendRequest ==
    /\ main = "send"
    /\ Len(tx_chan) < TxCap
    /\ tx_chan' = Append(tx_chan, hand)
    /\ requests_sent' = requests_sent + 1
    /\ main' = IF batch > 0 THEN "build" ELSE "head"
    /\ UNCHANGED <<tid, smp_map, hand, batch, responses_received, sendVars, recv_chan,
                   readVars, res_chan, deviceVars, ghosts>>

(* Mutant: the loop ends as soon as its channel is empty.                  *)
ExitWhenSent == tx_chan = <<>>

NothingLeft == tx_chan = <<>> /\ smp_map = {}

(* Asked once before each wait for a message.  With its end the runtime    *)
(* ends, and the tasks with it.                                            *)
LoopHead ==
    /\ main = "head"
    /\ main' = IF NothingLeft THEN "done" ELSE "recv"
    /\ UNCHANGED <<tid, smp_map, hand, batch, requests_sent, responses_received,
                   tx_chan, sendVars, recv_chan, readVars, res_chan, deviceVars, ghosts>>

Handled(msg) == msg.kind = "Answer" /\ msg.tid \in smp_map

(* A request expires when it was built more than a second ago.  A poll     *)
(* takes a second, so those built before it do; of the later ones, those   *)
(* that are old enough when main comes to look.                            *)
ExpireOld(built) ==
    \E cut \in built..tid : smp_map' = {t \in smp_map : t >= cut}

(* process_response.  A record that could not be read is one of zeros: it  *)
(* has the id of the first request and an attribute nobody asked for.      *)
ProcessResponse ==
    /\ main = "recv" /\ res_chan # <<>>
    /\ res_chan' = Tail(res_chan)
    /\ responses_received' = responses_received + 1
    /\ LET msg == Head(res_chan)
       IN  /\ IF msg.kind = "Timeout" THEN ExpireOld(msg.tid)
              ELSE smp_map' = smp_map \ {msg.tid}
           /\ batch' \in (IF Handled(msg) THEN {n \in 0..Fanout : MayBuild(n)}
                                          ELSE {0})
    /\ main' = IF batch' > 0 THEN "build" ELSE "head"
    /\ UNCHANGED <<tid, hand, requests_sent, tx_chan, sendVars, recv_chan,
                   readVars, deviceVars, ghosts>>

-----------------------------------------------------------------------------
(* The send task.                                                          *)
TakeRequest ==
    /\ main # "done"
    /\ sender = "take" /\ tx_chan # <<>>
    /\ tx_chan' = Tail(tx_chan) /\ taken' = Head(tx_chan)
    /\ sender' = "write"
    /\ UNCHANGED <<mainVars, recv_chan, readVars, res_chan, deviceVars, ghosts>>

(* Mutant: nothing is written while the read task is behind.               *)
WriteWhenReadIdle ==
    /\ main # "done"
    /\ sender = "write" /\ sender' = "ask"
    /\ \/ wire' = (IF recv_chan = 0 THEN wire \cup {taken} ELSE wire) /\ UNCHANGED lost
       \/ MayFail(lost, MaxLost) /\ lost' = lost + 1 /\ UNCHANGED wire
    /\ UNCHANGED <<mainVars, tx_chan, taken, recv_chan, readVars, res_chan, inbox, event,
                   readable, late, faults, unpolled, overlooked>>

(* That a write fails is logged and has no other effect.                   *)
WriteRequest ==
    /\ main # "done"
    /\ sender = "write" /\ sender' = "ask"
    /\ \/ wire' = wire \cup {taken} /\ UNCHANGED lost
       \/ MayFail(lost, MaxLost) /\ lost' = lost + 1 /\ UNCHANGED wire
    /\ UNCHANGED <<mainVars, tx_chan, taken, recv_chan, readVars, res_chan, inbox, event,
                   readable, late, faults, unpolled, overlooked>>

(* Mutant: the channel takes one poll more than it holds.                  *)
AskTooMuch ==
    /\ main # "done"
    /\ sender = "ask" /\ recv_chan < RecvCap + 1
    /\ recv_chan' = recv_chan + 1
    /\ sender' = "take"
    /\ UNCHANGED <<mainVars, tx_chan, taken, readVars, res_chan, deviceVars, ghosts>>

(* Mutant: no poll is asked for while the channel is full.                *)
AskIfRoom ==
    /\ main # "done"
    /\ sender = "ask"
    /\ recv_chan' = (IF recv_chan < RecvCap THEN recv_chan + 1 ELSE recv_chan)
    /\ sender' = "take"
    /\ UNCHANGED <<mainVars, tx_chan, taken, readVars, res_chan, deviceVars, ghosts>>

AskForRead ==
    /\ main # "done"
    /\ sender = "ask" /\ recv_chan < RecvCap
    /\ recv_chan' = recv_chan + 1
    /\ sender' = "take"
    /\ UNCHANGED <<mainVars, tx_chan, taken, readVars, res_chan, deviceVars, ghosts>>

-----------------------------------------------------------------------------
(* The read task.  Of the requests sent, these are not written yet.        *)
Unwritten == Len(tx_chan) + (IF sender = "write" THEN 1 ELSE 0)

(* Mutant: the read task polls again without being asked.                  *)
PollUnasked ==
    /\ main # "done"
    /\ reader = "idle" /\ recv_chan > 0
    /\ reader' = "poll"
    /\ mark' = [built |-> tid, written |-> requests_sent - Unwritten]
    /\ UNCHANGED <<mainVars, tx_chan, sendVars, recv_chan, got, res_chan, deviceVars, ghosts>>

StartPoll ==
    /\ main # "done"
    /\ reader = "idle" /\ recv_chan > 0
    /\ recv_chan' = recv_chan - 1
    /\ reader' = "poll"
    /\ mark' = [built |-> tid, written |-> requests_sent - Unwritten]
    /\ UNCHANGED <<mainVars, tx_chan, sendVars, got, res_chan, deviceVars, ghosts>>

(* After a read the readiness is cleared, whether or not the device has    *)
(* more: the next read waits for the device's next event.                  *)
Read ==
    /\ main # "done"
    /\ reader = "poll" /\ readable /\ inbox # <<>>
    /\ inbox' = Tail(inbox) /\ readable' = FALSE
    /\ got' = [kind |-> "Answer", tid |-> Head(inbox)]
    /\ reader' = "put"
    /\ UNCHANGED <<mainVars, tx_chan, sendVars, recv_chan, mark, res_chan, wire, event, ghosts>>

(* The requests written before the poll began that are not answered yet.   *)
Overdue == {t \in wire : t < mark.written}

(* Mutant: a read waits for as long as it takes.                           *)
NeverTimesOut ==
    /\ reader = "poll" /\ FALSE
    /\ UNCHANGED vars

(* An answer that is not there by now is late.                             *)
PollTimesOut ==
    /\ main # "done"
    /\ reader = "poll" /\ ~readable /\ ~event
    /\ late' = late \cup Overdue
    /\ Overdue # {} => MayFail(Cardinality(late \cup Overdue) - 1, MaxLate)
    /\ overlooked' = (overlooked \/ inbox # <<>>)
    /\ got' = [kind |-> "Timeout", tid |-> mark.built]
    /\ reader' = "put"
    /\ UNCHANGED <<mainVars, tx_chan, sendVars, recv_chan, mark, res_chan, deviceVars,
                   lost, faults, unpolled>>

(* A failed read is logged, and its buffer of zeros passed on.             *)
ReadFails ==
    /\ main # "done"
    /\ reader = "poll" /\ readable
    /\ MayFail(faults, MaxFaults) /\ faults' = faults + 1
    /\ readable' = FALSE
    /\ got' = [kind |-> "Zero", tid |-> 0]
    /\ reader' = "put"
    /\ UNCHANGED <<mainVars, tx_chan, sendVars, recv_chan, mark, res_chan, wire, inbox,
                   event, lost, late, unpolled, overlooked>>

(* A failed wait is logged, and main not told.                             *)
WaitFails ==
    /\ main # "done"
    /\ reader = "poll"
    /\ MayFail(faults, MaxFaults) /\ faults' = faults + 1
    /\ unpolled' = unpolled + 1
    /\ reader' = "idle"
    /\ UNCHANGED <<mainVars, tx_chan, sendVars, recv_chan, mark, got, res_chan,
                   deviceVars, lost, late, overlooked>>

PutResult ==
    /\ main # "done"
    /\ reader = "put" /\ Len(res_chan) < ResCap
    /\ res_chan' = Append(res_chan, got)
    /\ reader' = "idle"
    /\ UNCHANGED <<mainVars, tx_chan, sendVars, recv_chan, mark, got, deviceVars, ghosts>>

-----------------------------------------------------------------------------
(* The device and the runtime.  Events that the runtime has not seen yet   *)
(* are one event.                                                          *)
Arrive ==
    /\ main # "done"
    /\ \E t \in wire : wire' = wire \ {t} /\ inbox' = Append(inbox, t)
    /\ event' = TRUE
    /\ UNCHANGED <<mainVars, tx_chan, sendVars, recv_chan, readVars, res_chan, readable, ghosts>>

SeeEvent ==
    /\ main # "done"
    /\ event /\ event' = FALSE /\ readable' = TRUE
    /\ UNCHANGED <<mainVars, tx_chan, sendVars, recv_chan, readVars, res_chan, wire, inbox, ghosts>>

Main == Build \/ SendRequest \/ LoopHead \/ ProcessResponse
Sender == TakeRequest \/ AskForRead
Reader == StartPoll \/ Read \/ PollTimesOut \/ PutResult
Device == Arrive \/ SeeEvent

Next == Main \/ Sender \/ WriteRequest \/ Reader \/ ReadFails \/ WaitFails \/ Device

Spec == Init /\ [][Next]_vars

(* The runtime polls every task that can go on, time passes, the device    *)
(* becomes writable again after each write and delivers what it will       *)
(* deliver.  Nothing has to fail.                                          *)
Fairness ==
    /\ WF_vars(Main) /\ WF_vars(Sender) /\ WF_vars(WriteRequest) /\ WF_vars(Reader)
    /\ WF_vars(Arrive) /\ WF_vars(SeeEvent)

FairSpec == Spec /\ Fairness

-----------------------------------------------------------------------------
TypeOK ==
    /\ tid \in Nat /\ smp_map \subseteq 0..(tid - 1)
    /\ main \in {"head", "recv", "build", "send", "done"}
    /\ hand \in Nat /\ batch \in Nat
    /\ requests_sent \in Nat /\ responses_received \in Nat
    /\ tx_chan \in Seq(Nat) /\ Len(tx_chan) <= TxCap
    /\ sender \in {"take", "write", "ask"} /\ taken \in Nat
    /\ recv_chan \in 0..RecvCap
    /\ reader \in {"idle", "poll", "put"}
    /\ mark \in [built : Nat, written : Nat] /\ got \in Message
    /\ res_chan \in Seq(Message) /\ Len(res_chan) <= ResCap
    /\ wire \subseteq Nat /\ inbox \in Seq(Nat)
    /\ event \in BOOLEAN /\ readable \in BOOLEAN
    /\ lost \in Nat /\ late \subseteq Nat /\ faults \in Nat /\ unpolled \in Nat
    /\ overlooked \in BOOLEAN

(* Whatever was sent is in one place: queued, being written, polled for,   *)
(* read, waiting for main, or handled.  So the two counters that main logs *)
(* in the end differ by the polls that failed without a message.           *)
InFlight ==
    Len(tx_chan) + recv_chan + Len(res_chan)
    + (IF sender = "take" THEN 0 ELSE 1) + (IF reader = "idle" THEN 0 ELSE 1)

EverySendPolled == requests_sent = InFlight + responses_received + unpolled

(* All three tasks wait for room in the next channel.                      *)
Gridlock ==
    /\ main = "send" /\ Len(tx_chan) = TxCap
    /\ sender = "ask" /\ recv_chan = RecvCap
    /\ reader = "put" /\ Len(res_chan) = ResCap

(* They do so only with as many requests under way as the channels and the *)
(* tasks hold, and one more: 388 with the capacities of the code.          *)
GridlockTakesAll ==
    Gridlock => tid >= responses_received + TxCap + RecvCap + ResCap + 3

(* Main waits for a message nobody will send.                              *)
Forsaken == main = "recv" /\ InFlight = 0

(* This takes an answer that a poll did not wait for or did not see, or a  *)
(* failure of the device: lost answers alone do not hang the crawl, since  *)
(* the poll of the youngest open request expires it.  And without a loss   *)
(* or one of these, no request expires, however long it waits in the       *)
(* channels.                                                               *)
Expiring == reader = "put" /\ got.kind = "Timeout"
TroubleForCause ==
    LET astray == late # {} \/ faults > 0 \/ overlooked
    IN  (Forsaken => astray) /\ (Expiring => astray \/ lost > 0)

(* The crawl ends when the channels hold all it has under way and nothing  *)
(* of the above happens.                                                   *)
Ends == <>(main = "done" \/ Gridlock \/ Forsaken)

(* Each request is closed once, by its answer or by expiry, and the crawl  *)
(* ends when none is open.                                                 *)
Crawl == INSTANCE Outstanding WITH issued <- tid, open <- smp_map, over <- (main = "done")
KeepsTrack == Crawl!Spec
=============================================================================
