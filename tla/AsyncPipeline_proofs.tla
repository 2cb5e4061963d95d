------------------------ MODULE AsyncPipeline_proofs ------------------------
(***************************************************************************)
(* Proofs about AsyncPipeline, for every capacity of its channels and      *)
(* every bound.                                                            *)
(***************************************************************************)
EXTENDS AsyncPipeline, SequenceTheorems, FiniteSetTheorems, TLAPS

(* The first element of a channel, and what is left of it.                 *)
LEMMA HeadTail ==
    ASSUME NEW S, NEW s \in Seq(S), s # <<>>
    PROVE  /\ Head(s) \in S /\ Tail(s) \in Seq(S)
           /\ Len(s) \in Nat \ {0} /\ Len(Tail(s)) = Len(s) - 1
<1>1. Len(s) \in Nat /\ Len(s) # 0
  BY EmptySeq
<1>2. Head(s) \in S /\ Tail(s) \in Seq(S)
  BY HeadTailProperties
<1> QED BY <1>1, <1>2, HeadTailProperties

(* A message of any kind.                                                  *)
LEMMA MessageType ==
    ASSUME NEW k \in {"Answer", "Zero", "Timeout"}, NEW t \in Nat
    PROVE  [kind |-> k, tid |-> t] \in Message
BY DEF Message

(* The strengthening: main goes to build something only when its handler   *)
(* has something to build, and every request built is sent at once.        *)
SentAtOnce ==
    /\ main = "build" => batch > 0
    /\ tid = requests_sent + (IF main = "send" THEN 1 ELSE 0)

TypeInv == TypeOK /\ SentAtOnce

-----------------------------------------------------------------------------
(* Types.                                                                  *)
LEMMA InitType == Init => TypeInv
<1> SUFFICES ASSUME Init PROVE TypeInv
  OBVIOUS
<1>1. smp_map \subseteq 0..(tid - 1)
  BY DEF Init
<1>2. got \in Message
  BY MessageType DEF Init
<1>3. tx_chan \in Seq(Nat) /\ inbox \in Seq(Nat) /\ res_chan \in Seq(Message)
      /\ Len(tx_chan) = 0 /\ Len(res_chan) = 0
  BY DEF Init
<1>4. mark \in [built : Nat, written : Nat]
  BY DEF Init
<1>5. recv_chan \in 0..RecvCap /\ Len(tx_chan) <= TxCap /\ Len(res_chan) <= ResCap
  BY <1>3, PipelineAssumption DEF Init
<1>6. SentAtOnce
  BY DEF Init, SentAtOnce
<1> QED BY <1>1, <1>2, <1>3, <1>4, <1>5, <1>6 DEF Init, TypeOK, TypeInv

(* One lemma for each task, one case per action.                           *)
LEMMA MainType == TypeInv /\ Main => TypeInv'
<1> SUFFICES ASSUME TypeInv, Main PROVE TypeInv'
  OBVIOUS
<1> USE DEF TypeInv, TypeOK, SentAtOnce
<1>1. CASE Build
  <2>1. batch' \in Nat
    BY <1>1 DEF Build
  <2>2. tid' \in Nat /\ smp_map' \subseteq 0..(tid' - 1)
    BY <1>1 DEF Build
  <2> QED BY <1>1, <2>1, <2>2
          DEF Build, sendVars, readVars, deviceVars, ghosts
<1>2. CASE SendRequest
  <2>1. tx_chan' \in Seq(Nat) /\ Len(tx_chan') <= TxCap
    BY <1>2, PipelineAssumption DEF SendRequest
  <2> QED BY <1>2, <2>1 DEF SendRequest, sendVars, readVars, deviceVars, ghosts
<1>3. CASE LoopHead
  BY <1>3 DEF LoopHead, sendVars, readVars, deviceVars, ghosts
<1>4. CASE ProcessResponse
  <2>1. Head(res_chan) \in Message /\ res_chan' \in Seq(Message) /\ Len(res_chan') <= ResCap
    BY <1>4, HeadTail, PipelineAssumption DEF ProcessResponse
  <2>2. batch' \in Nat
    BY <1>4, PipelineAssumption DEF ProcessResponse
  <2>3. smp_map' \subseteq smp_map
    BY <1>4 DEF ProcessResponse, ExpireOld
  <2> QED BY <1>4, <2>1, <2>2, <2>3
          DEF ProcessResponse, sendVars, readVars, deviceVars, ghosts
<1> QED BY <1>1, <1>2, <1>3, <1>4 DEF Main

(* The sending task keeps the types.                                       *)
LEMMA SenderType == TypeInv /\ (Sender \/ WriteRequest) => TypeInv'
<1> SUFFICES ASSUME TypeInv, Sender \/ WriteRequest PROVE TypeInv'
  OBVIOUS
<1> USE DEF TypeInv, TypeOK, SentAtOnce
<1>1. CASE TakeRequest
  <2>1. taken' \in Nat /\ tx_chan' \in Seq(Nat) /\ Len(tx_chan') <= TxCap
    BY <1>1, HeadTail, PipelineAssumption DEF TakeRequest
  <2> QED BY <1>1, <2>1 DEF TakeRequest, mainVars, readVars, deviceVars, ghosts
<1>2. CASE WriteRequest
  <2>1. wire' \subseteq wire \cup {taken} /\ (lost' = lost \/ lost' = lost + 1)
    BY <1>2 DEF WriteRequest
  <2>2. wire' \subseteq Nat /\ lost' \in Nat
    BY <2>1
  <2> QED BY <1>2, <2>2 DEF WriteRequest, mainVars, readVars
<1>3. CASE AskForRead
  <2>1. recv_chan' \in 0..RecvCap
    BY <1>3, PipelineAssumption DEF AskForRead
  <2> QED BY <1>3, <2>1 DEF AskForRead, mainVars, readVars, deviceVars, ghosts
<1> QED BY <1>1, <1>2, <1>3 DEF Sender

(* The messages written before a poll are a number: what is not written is *)
(* no more than what was sent.                                             *)
LEMMA ReaderType ==
    TypeInv /\ EverySendPolled /\ (Reader \/ ReadFails \/ WaitFails) => TypeInv'
<1> SUFFICES ASSUME TypeInv, EverySendPolled, Reader \/ ReadFails \/ WaitFails
             PROVE  TypeInv'
  OBVIOUS
<1> USE DEF TypeInv, TypeOK, SentAtOnce
<1>1. CASE StartPoll
  <2>1. recv_chan' \in 0..RecvCap
    BY <1>1, PipelineAssumption DEF StartPoll
  <2>2. requests_sent - Unwritten \in Nat
    BY <1>1, PipelineAssumption, LenProperties DEF EverySendPolled, InFlight, Unwritten
  <2>3. mark' \in [built : Nat, written : Nat]
    BY <1>1, <2>2 DEF StartPoll
  <2> QED BY <1>1, <2>1, <2>3 DEF StartPoll, mainVars, sendVars, deviceVars, ghosts
<1>2. CASE Read
  <2>1. Head(inbox) \in Nat /\ inbox' \in Seq(Nat)
    BY <1>2, HeadTail DEF Read
  <2>2. got' \in Message
    BY <1>2, <2>1, MessageType DEF Read
  <2> QED BY <1>2, <2>1, <2>2 DEF Read, mainVars, sendVars, ghosts
<1>3. CASE PollTimesOut
  <2>1. late' \subseteq Nat
    BY <1>3 DEF PollTimesOut, Overdue
  <2>2. got' \in Message
    BY <1>3, MessageType DEF PollTimesOut
  <2> QED BY <1>3, <2>1, <2>2 DEF PollTimesOut, mainVars, sendVars, deviceVars
<1>4. CASE PutResult
  <2>1. res_chan' \in Seq(Message) /\ Len(res_chan') <= ResCap
    BY <1>4, PipelineAssumption DEF PutResult
  <2> QED BY <1>4, <2>1 DEF PutResult, mainVars, sendVars, deviceVars, ghosts
<1>5. CASE ReadFails
  <2>1. got' \in Message
    BY <1>5, MessageType DEF ReadFails
  <2>2. faults' = faults + 1 /\ readable' = FALSE /\ reader' = "put"
    BY <1>5 DEF ReadFails
  <2>3. faults' \in Nat
    BY <2>2
  <2> QED BY <1>5, <2>1, <2>2, <2>3 DEF ReadFails, mainVars, sendVars
<1>6. CASE WaitFails
  BY <1>6 DEF WaitFails, MayFail, mainVars, sendVars, deviceVars
<1> QED BY <1>1, <1>2, <1>3, <1>4, <1>5, <1>6 DEF Reader

(* The device keeps the types.                                             *)
LEMMA DeviceType == TypeInv /\ Device => TypeInv'
<1> SUFFICES ASSUME TypeInv, Device PROVE TypeInv'
  OBVIOUS
<1> USE DEF TypeInv, TypeOK, SentAtOnce
<1>1. CASE Arrive
  <2>1. wire' \subseteq Nat /\ inbox' \in Seq(Nat)
    BY <1>1 DEF Arrive
  <2> QED BY <1>1, <2>1 DEF Arrive, mainVars, sendVars, readVars, ghosts
<1>2. CASE SeeEvent
  BY <1>2 DEF SeeEvent, mainVars, sendVars, readVars, ghosts
<1> QED BY <1>1, <1>2 DEF Device

-----------------------------------------------------------------------------
(* What was sent is in one place.                                          *)
LEMMA InitPolled == Init => EverySendPolled
<1> SUFFICES ASSUME Init PROVE EverySendPolled
  OBVIOUS
<1>1. Len(tx_chan) = 0 /\ Len(res_chan) = 0
  BY DEF Init
<1> QED BY <1>1 DEF Init, EverySendPolled, InFlight

(* The main task never takes a request away that it has sent without a     *)
(* poll.                                                                   *)
LEMMA MainPolled == TypeInv /\ EverySendPolled /\ Main => EverySendPolled'
<1> SUFFICES ASSUME TypeInv, EverySendPolled, Main PROVE EverySendPolled'
  OBVIOUS
<1> USE DEF EverySendPolled, InFlight, sendVars, readVars, ghosts
<1>0. /\ Len(tx_chan) \in Nat /\ Len(res_chan) \in Nat /\ recv_chan \in Nat
      /\ requests_sent \in Nat /\ responses_received \in Nat /\ unpolled \in Nat
  BY PipelineAssumption DEF TypeInv, TypeOK
<1>1. CASE Build
  BY <1>1 DEF Build
<1>2. CASE SendRequest
  <2>1. Len(tx_chan') = Len(tx_chan) + 1
    BY <1>2 DEF SendRequest, TypeInv, TypeOK
  <2> QED BY <1>0, <1>2, <2>1 DEF SendRequest
<1>3. CASE LoopHead
  BY <1>3 DEF LoopHead
<1>4. CASE ProcessResponse
  <2>1. Len(res_chan') = Len(res_chan) - 1
    BY <1>4, HeadTail DEF ProcessResponse, TypeInv, TypeOK
  <2> QED BY <1>0, <1>4, <2>1 DEF ProcessResponse
<1> QED BY <1>1, <1>2, <1>3, <1>4 DEF Main

(* The sending task gives each request that it writes a poll.              *)
LEMMA SenderPolled ==
    TypeInv /\ EverySendPolled /\ (Sender \/ WriteRequest) => EverySendPolled'
<1> SUFFICES ASSUME TypeInv, EverySendPolled, Sender \/ WriteRequest
             PROVE  EverySendPolled'
  OBVIOUS
<1> USE DEF EverySendPolled, InFlight, mainVars, readVars, ghosts
<1>0. /\ Len(tx_chan) \in Nat /\ Len(res_chan) \in Nat /\ recv_chan \in Nat
      /\ requests_sent \in Nat /\ responses_received \in Nat /\ unpolled \in Nat
  BY PipelineAssumption DEF TypeInv, TypeOK
<1>1. CASE TakeRequest
  <2>1. Len(tx_chan') = Len(tx_chan) - 1
    BY <1>1, HeadTail DEF TakeRequest, TypeInv, TypeOK
  <2> QED BY <1>0, <1>1, <2>1 DEF TakeRequest
<1>2. CASE WriteRequest
  BY <1>0, <1>2 DEF WriteRequest
<1>3. CASE AskForRead
  BY <1>0, <1>3 DEF AskForRead
<1> QED BY <1>1, <1>2, <1>3 DEF Sender

(* The reading task uses a poll up only for what it reads.                 *)
LEMMA ReaderPolled ==
    TypeInv /\ EverySendPolled /\ (Reader \/ ReadFails \/ WaitFails) => EverySendPolled'
<1> SUFFICES ASSUME TypeInv, EverySendPolled, Reader \/ ReadFails \/ WaitFails
             PROVE  EverySendPolled'
  OBVIOUS
<1> USE DEF EverySendPolled, InFlight, mainVars, sendVars, ghosts
<1>0. /\ Len(tx_chan) \in Nat /\ Len(res_chan) \in Nat /\ recv_chan \in Nat
      /\ requests_sent \in Nat /\ responses_received \in Nat /\ unpolled \in Nat
  BY PipelineAssumption DEF TypeInv, TypeOK
<1>1. CASE StartPoll
  BY <1>0, <1>1 DEF StartPoll
<1>2. CASE Read
  BY <1>0, <1>2 DEF Read
<1>3. CASE PollTimesOut
  BY <1>0, <1>3 DEF PollTimesOut
<1>4. CASE PutResult
  <2>1. Len(res_chan') = Len(res_chan) + 1
    BY <1>4 DEF PutResult, TypeInv, TypeOK
  <2> QED BY <1>0, <1>4, <2>1 DEF PutResult
<1>5. CASE ReadFails
  BY <1>0, <1>5 DEF ReadFails
<1>6. CASE WaitFails
  BY <1>0, <1>6 DEF WaitFails
<1> QED BY <1>1, <1>2, <1>3, <1>4, <1>5, <1>6 DEF Reader

(* The device uses no poll up.                                             *)
LEMMA DevicePolled == EverySendPolled /\ Device => EverySendPolled'
BY DEF Device, Arrive, SeeEvent, EverySendPolled, InFlight, mainVars, sendVars,
       readVars, ghosts

(* The inductive invariant.                                                *)
IInv == TypeInv /\ EverySendPolled

(* The invariant is kept by every step, of whichever task.                 *)
LEMMA Inductive == IInv /\ [Next]_vars => IInv'
<1> SUFFICES ASSUME IInv, [Next]_vars PROVE IInv'
  OBVIOUS
<1>1. CASE Main
  BY <1>1, MainType, MainPolled DEF IInv
<1>2. CASE Sender \/ WriteRequest
  BY <1>2, SenderType, SenderPolled DEF IInv
<1>3. CASE Reader \/ ReadFails \/ WaitFails
  BY <1>3, ReaderType, ReaderPolled DEF IInv
<1>4. CASE Device
  BY <1>4, DeviceType, DevicePolled DEF IInv
<1>5. CASE UNCHANGED vars
  BY <1>5 DEF IInv, TypeInv, TypeOK, SentAtOnce, EverySendPolled, InFlight, vars,
              mainVars, sendVars, readVars, deviceVars, ghosts
<1> QED BY <1>1, <1>2, <1>3, <1>4, <1>5 DEF Next

(* Types, and a poll for each request written: what the other theorems     *)
(* start from.                                                             *)
THEOREM Invariance == Spec => []IInv
<1>1. Init => IInv
  BY InitType, InitPolled DEF IInv
<1> QED BY <1>1, Inductive, PTL DEF Spec

(* The variables keep their types, and no channel holds more than its      *)
(* capacity.                                                               *)
THEOREM TypeCorrect == Spec => []TypeOK
<1>1. IInv => TypeOK
  BY DEF IInv, TypeInv
<1> QED BY <1>1, Invariance, PTL

(* Every request that main has sent is in one of the channels or with one  *)
(* of the tasks, has come back as a message, or its wait has failed.       *)
THEOREM EverySendIsPolled == Spec => []EverySendPolled
<1>1. IInv => EverySendPolled
  BY DEF IInv
<1> QED BY <1>1, Invariance, PTL

(* The three tasks block each other only with as many requests under way   *)
(* as fill all three channels and all three hands.                         *)
THEOREM GridlockNeedsAll == Spec => []GridlockTakesAll
<1>1. IInv => GridlockTakesAll
  <2> SUFFICES ASSUME IInv, Gridlock
               PROVE  tid >= responses_received + TxCap + RecvCap + ResCap + 3
    BY DEF GridlockTakesAll
  <2>1. InFlight = TxCap + RecvCap + ResCap + 2
    BY PipelineAssumption DEF Gridlock, InFlight
  <2>2. tid = requests_sent + 1
    BY DEF Gridlock, IInv, TypeInv, SentAtOnce
  <2> QED BY <2>1, <2>2, PipelineAssumption
          DEF IInv, TypeInv, TypeOK, EverySendPolled
<1> QED BY <1>1, Invariance, PTL

-----------------------------------------------------------------------------
(* The refinement: only main issues, closes and ends.                      *)
LEMMA InitMaps == Init => Crawl!Init
BY DEF Init, Crawl!Init

(* Building a request issues it.                                           *)
LEMMA BuildMaps == TypeInv /\ Build => Crawl!Next
BY DEF TypeInv, TypeOK, Build, Crawl!Next, Crawl!Issue

(* The head of the loop ends the crawl, or does nothing the abstract crawl *)
(* sees.                                                                   *)
LEMMA HeadMaps == TypeInv /\ LoopHead => [Crawl!Next]_(Crawl!vars)
BY DEF TypeInv, TypeOK, LoopHead, NothingLeft, Crawl!Next, Crawl!Finish, Crawl!vars

(* A response closes one request, and a timeout the oldest.                *)
LEMMA ResponseMaps == TypeInv /\ ProcessResponse => [Crawl!Next]_(Crawl!vars)
<1> SUFFICES ASSUME TypeInv, ProcessResponse PROVE [Crawl!Next]_(Crawl!vars)
  OBVIOUS
<1> DEFINE msg == Head(res_chan)
<1>0. UNCHANGED tid /\ main # "done" /\ main' # "done"
  BY DEF ProcessResponse
<1>1. CASE msg.kind = "Timeout"
  <2>1. PICK cut \in msg.tid..tid : smp_map' = {t \in smp_map : t >= cut}
    BY <1>1 DEF ProcessResponse, ExpireOld
  <2>2. msg.tid \in Nat
    <3>1. msg \in Message
      BY HeadTail DEF TypeInv, TypeOK, ProcessResponse
    <3> QED BY <3>1 DEF Message
  <2>3. Crawl!Expire
    <3>1. smp_map' \subseteq smp_map
      BY <2>1
    <3>2. \A t \in smp_map \ smp_map', u \in smp_map' : t < u
      BY <2>1, <2>2 DEF TypeInv, TypeOK
    <3> QED BY <1>0, <3>1, <3>2 DEF Crawl!Expire
  <2> QED BY <1>0, <2>3 DEF Crawl!Next
<1>2. CASE msg.kind # "Timeout"
  <2>1. smp_map' = smp_map \ {msg.tid}
    BY <1>2 DEF ProcessResponse
  <2>2. CASE msg.tid \in smp_map
    <3>1. Crawl!Answer(msg.tid)
      BY <1>0, <2>1, <2>2 DEF Crawl!Answer, TypeInv, TypeOK
    <3> QED BY <1>0, <2>2, <3>1 DEF Crawl!Next
  <2>3. CASE msg.tid \notin smp_map
    BY <1>0, <2>1, <2>3 DEF Crawl!vars
  <2> QED BY <2>2, <2>3
<1> QED BY <1>1, <1>2

(* Every step of the tasks is a step of the crawl, or none.                *)
LEMMA StepMaps == TypeInv /\ [Next]_vars => [Crawl!Next]_(Crawl!vars)
<1> SUFFICES ASSUME TypeInv, [Next]_vars PROVE [Crawl!Next]_(Crawl!vars)
  OBVIOUS
<1>1. CASE Main
  <2>1. CASE SendRequest
    BY <2>1 DEF SendRequest, Crawl!vars
  <2> QED BY <1>1, <2>1, BuildMaps, HeadMaps, ResponseMaps DEF Main
<1>2. CASE Sender \/ WriteRequest
  BY <1>2 DEF Sender, TakeRequest, AskForRead, WriteRequest, mainVars, Crawl!vars
<1>3. CASE Reader \/ ReadFails \/ WaitFails
  BY <1>3 DEF Reader, StartPoll, Read, PollTimesOut, PutResult, ReadFails, WaitFails,
              mainVars, Crawl!vars
<1>4. CASE Device
  BY <1>4 DEF Device, Arrive, SeeEvent, mainVars, Crawl!vars
<1>5. CASE UNCHANGED vars
  BY <1>5 DEF vars, mainVars, Crawl!vars
<1> QED BY <1>1, <1>2, <1>3, <1>4, <1>5 DEF Next

(* Whatever the tasks, the channels and the device do, each request has an *)
(* id of its own, is closed once, the oldest expire first, and the crawl   *)
(* ends only when none is open.                                            *)
THEOREM ImplementsOutstanding == Spec => KeepsTrack
<1>1. IInv => TypeInv
  BY DEF IInv
<1> QED BY <1>1, InitMaps, StepMaps, Invariance, PTL DEF Spec, KeepsTrack, Crawl!Spec

-----------------------------------------------------------------------------
(* Trouble.  Nothing has happened to the device or to the polls that could *)
(* leave a request behind; requests may still be lost.                     *)
Calm == late = {} /\ faults = 0 /\ ~overlooked

(* The requests below Written are written, or lost.                        *)
Written == requests_sent - Unwritten

(* How many answers are still to come, and how many reads.                 *)
Due == Unwritten + Cardinality(wire) + Len(inbox)
Polls == Len(tx_chan) + (IF sender = "take" THEN 0 ELSE 1) + recv_chan
         + (IF reader = "poll" THEN 1 ELSE 0)

(* The requests whose answers are still to come.                           *)
Pending == (Written..(requests_sent - 1)) \cup wire \cup {inbox[i] : i \in 1..Len(inbox)}

(* A message on its way to main that will close request t.                 *)
Settles(msg, t) ==
    \/ msg.kind = "Answer" /\ msg.tid = t
    \/ msg.kind = "Timeout" /\ t < msg.tid
Settled(t) ==
    \/ reader = "put" /\ Settles(got, t)
    \/ \E i \in 1..Len(res_chan) : Settles(res_chan[i], t)

(* The requests are sent and written in the order of their ids.            *)
OrderInv ==
    /\ \A i \in 1..Len(tx_chan) : tx_chan[i] = requests_sent - Len(tx_chan) + i - 1
    /\ sender = "write" => taken = requests_sent - Len(tx_chan) - 1
    /\ main = "send" => hand = requests_sent
    /\ wire \subseteq 0..(Written - 1)

(* For each request that was not written when the poll under way began     *)
(* there is another poll to come.                                          *)
MarkInv ==
    reader = "poll" =>
        /\ mark.written <= Written /\ mark.written <= mark.built
        /\ requests_sent - mark.written < Polls

(* While nothing is astray there are enough polls for all answers, and     *)
(* exactly as many when no request is lost.                                *)
EnoughPolls == Due <= Polls /\ (lost = 0 => Polls <= Due /\ ~Expiring)

(* An open request that nothing on its way to main will close has its      *)
(* answer still to come, or there is a poll more than there are answers,   *)
(* which will expire it.                                                   *)
Covered(t) == Settled(t) \/ t \in Pending \/ Due < Polls
AllCovered == \A t \in smp_map : t < requests_sent => Covered(t)

CalmInv ==
    Calm =>
        /\ unpolled = 0
        /\ EnoughPolls
        /\ AllCovered
        /\ main = "recv" => InFlight > 0

CauseInv == OrderInv /\ MarkInv /\ CalmInv

(* The numbers the invariant counts with.                                  *)
LEMMA Numbers ==
    ASSUME IInv
    PROVE  /\ Len(tx_chan) \in Int /\ Len(tx_chan) >= 0
           /\ Len(res_chan) \in Int /\ Len(res_chan) >= 0
           /\ Len(inbox) \in Int /\ Len(inbox) >= 0
           /\ recv_chan \in Int /\ recv_chan >= 0
           /\ requests_sent \in Int /\ responses_received \in Int /\ unpolled \in Int
           /\ Unwritten \in Int /\ Unwritten >= 0
           /\ Unwritten = Len(tx_chan) + (IF sender = "write" THEN 1 ELSE 0)
           /\ Written = requests_sent - Unwritten /\ Written >= 0 /\ Written \in Int
<1>1. /\ Len(tx_chan) \in Nat /\ Len(res_chan) \in Nat /\ Len(inbox) \in Nat /\ recv_chan \in Nat
      /\ requests_sent \in Nat /\ responses_received \in Nat /\ unpolled \in Nat
  BY PipelineAssumption DEF IInv, TypeInv, TypeOK
<1>2. requests_sent = InFlight + responses_received + unpolled
  BY DEF IInv, EverySendPolled
<1>3. Unwritten \in Int /\ Unwritten >= 0 /\ Unwritten <= InFlight /\ InFlight \in Int
  BY <1>1 DEF Unwritten, InFlight
<1> QED BY <1>1, <1>2, <1>3 DEF Written, Unwritten

(* Requests stay in the order of their ids, from the map of main through   *)
(* the channels to the device.                                             *)
LEMMA OrderStep ==
    ASSUME IInv, OrderInv, [Next]_vars PROVE OrderInv'
<1>0. /\ Len(tx_chan) \in Int /\ Len(tx_chan) >= 0
      /\ requests_sent \in Int /\ Unwritten \in Int /\ Unwritten >= 0
      /\ Written = requests_sent - Unwritten /\ Written >= 0 /\ Written \in Int
      /\ tx_chan \in Seq(Nat) /\ hand \in Nat /\ tid = requests_sent + (IF main = "send" THEN 1 ELSE 0)
      /\ tid \in Int
  BY Numbers DEF IInv, TypeInv, TypeOK, SentAtOnce
<1>1. CASE Build
  BY <1>0, <1>1 DEF Build, OrderInv, sendVars, deviceVars, Written, Unwritten
<1>2. CASE SendRequest
  <2>1. /\ tx_chan' = Append(tx_chan, hand) /\ requests_sent' = requests_sent + 1
        /\ UNCHANGED <<sender, taken, wire>> /\ main' # "send" /\ hand = requests_sent
    BY <1>2 DEF SendRequest, sendVars, deviceVars, OrderInv
  <2>2. Len(tx_chan') = Len(tx_chan) + 1
    BY <1>0, <2>1
  <2>3. \A i \in 1..Len(tx_chan') : tx_chan'[i] = requests_sent' - Len(tx_chan') + i - 1
    <3> TAKE i \in 1..Len(tx_chan')
    <3>1. CASE i = Len(tx_chan) + 1
      BY <1>0, <2>1, <2>2, <3>1
    <3>2. CASE i \in 1..Len(tx_chan)
      <4>1. tx_chan'[i] = tx_chan[i] /\ tx_chan[i] = requests_sent - Len(tx_chan) + i - 1
        BY <1>0, <2>1, <3>2 DEF OrderInv
      <4> QED BY <1>0, <2>1, <2>2, <3>2, <4>1
    <3> QED BY <1>0, <2>2, <3>1, <3>2
  <2>4. Written' = Written
    BY <1>0, <2>1, <2>2 DEF Written, Unwritten
  <2> QED BY <1>0, <2>1, <2>2, <2>3, <2>4 DEF OrderInv
<1>3. CASE TakeRequest
  <2>1. /\ tx_chan # <<>> /\ tx_chan' = Tail(tx_chan) /\ taken' = Head(tx_chan)
        /\ sender = "take" /\ sender' = "write" /\ UNCHANGED <<main, hand, wire, requests_sent>>
    BY <1>3 DEF TakeRequest, mainVars, deviceVars
  <2>2. Len(tx_chan') = Len(tx_chan) - 1 /\ Len(tx_chan) >= 1
    BY <1>0, <2>1, HeadTail
  <2>3. \A i \in 1..Len(tx_chan') : tx_chan'[i] = requests_sent' - Len(tx_chan') + i - 1
    <3> TAKE i \in 1..Len(tx_chan')
    <3>1. tx_chan'[i] = tx_chan[i + 1] /\ i + 1 \in 1..Len(tx_chan)
      BY <1>0, <2>1, <2>2
    <3>2. tx_chan[i + 1] = requests_sent - Len(tx_chan) + (i + 1) - 1
      BY <3>1 DEF OrderInv
    <3> QED BY <1>0, <2>1, <2>2, <3>1, <3>2
  <2>4. taken' = requests_sent - Len(tx_chan') - 1
    <3>1. taken' = tx_chan[1] /\ 1 \in 1..Len(tx_chan)
      BY <1>0, <2>1, <2>2
    <3> QED BY <1>0, <2>2, <3>1 DEF OrderInv
  <2>5. Written' = Written
    BY <1>0, <2>1, <2>2 DEF Written, Unwritten
  <2> QED BY <2>1, <2>3, <2>4, <2>5 DEF OrderInv
<1>4. CASE WriteRequest
  <2>1. /\ sender = "write" /\ sender' = "ask" /\ wire' \subseteq wire \cup {taken}
        /\ UNCHANGED <<main, hand, tx_chan, requests_sent, taken>>
    BY <1>4 DEF WriteRequest, mainVars
  <2>2. Written' = Written + 1 /\ taken = Written
    BY <1>0, <2>1 DEF Written, Unwritten, OrderInv
  <2>3. wire' \subseteq 0..(Written' - 1)
    <3>1. wire \subseteq 0..(Written - 1)
      BY DEF OrderInv
    <3> QED BY <1>0, <2>1, <2>2, <3>1
  <2> QED BY <2>1, <2>3 DEF OrderInv
<1>5. CASE UNCHANGED <<main, hand, tx_chan, sender, taken, requests_sent>> /\ wire' \subseteq wire
  <2>1. Written' = Written
    BY <1>5 DEF Written, Unwritten
  <2> QED BY <1>5, <2>1 DEF OrderInv
<1>6. CASE LoopHead \/ ProcessResponse
  <2>1. main' # "send" /\ UNCHANGED <<hand, tx_chan, sender, taken, requests_sent, wire>>
    BY <1>6 DEF LoopHead, ProcessResponse, sendVars, deviceVars
  <2>2. Written' = Written
    BY <2>1 DEF Written, Unwritten
  <2> QED BY <2>1, <2>2 DEF OrderInv
<1>7. CASE AskForRead
  <2>1. sender = "ask" /\ sender' = "take" /\ UNCHANGED <<main, hand, tx_chan, taken, requests_sent, wire>>
    BY <1>7 DEF AskForRead, mainVars, deviceVars
  <2>2. Written' = Written
    BY <2>1 DEF Written, Unwritten
  <2> QED BY <2>1, <2>2 DEF OrderInv
<1> QED
  <2>1. Arrive => UNCHANGED <<main, hand, tx_chan, sender, taken, requests_sent>> /\ wire' \subseteq wire
    BY DEF Arrive, mainVars, sendVars
  <2> QED BY <1>1, <1>2, <1>3, <1>4, <1>5, <1>6, <1>7, <2>1
          DEF Next, Main, Sender, Reader, Device, StartPoll, Read, PollTimesOut, PutResult,
              ReadFails, WaitFails, SeeEvent, vars, mainVars, sendVars, deviceVars

(* What a step does to what is written and to the polls.                   *)
LEMMA PollsStep ==
    ASSUME IInv, OrderInv, [Next]_vars
    PROVE  /\ Written' \in Int /\ Written <= Written'
           /\ Polls \in Int /\ Polls' \in Int
           /\ reader' = "poll" => requests_sent' - requests_sent = Polls' - Polls
<1>0. /\ Len(tx_chan) \in Int /\ Len(tx_chan) >= 0 /\ recv_chan \in Int
      /\ requests_sent \in Int /\ Unwritten \in Int /\ Written \in Int
      /\ Written = requests_sent - Unwritten /\ tx_chan \in Seq(Nat)
  BY Numbers DEF IInv, TypeInv, TypeOK
<1>1. Polls \in Int
  BY <1>0 DEF Polls
<1> USE DEF mainVars, sendVars, readVars
<1>2. CASE SendRequest
  <2>1. /\ requests_sent' = requests_sent + 1 /\ Len(tx_chan') = Len(tx_chan) + 1
        /\ UNCHANGED <<sender, reader, recv_chan>>
    BY <1>0, <1>2 DEF SendRequest
  <2> QED BY <1>0, <1>1, <2>1 DEF Written, Unwritten, Polls
<1>3. CASE TakeRequest
  <2>1. /\ Len(tx_chan') = Len(tx_chan) - 1 /\ sender = "take" /\ sender' = "write"
        /\ UNCHANGED <<reader, recv_chan, requests_sent>>
    BY <1>0, <1>3, HeadTail DEF TakeRequest
  <2> QED BY <1>0, <1>1, <2>1 DEF Written, Unwritten, Polls
<1>4. CASE WriteRequest
  <2>1. sender = "write" /\ sender' = "ask" /\ UNCHANGED <<tx_chan, reader, recv_chan, requests_sent>>
    BY <1>4 DEF WriteRequest
  <2> QED BY <1>0, <1>1, <2>1 DEF Written, Unwritten, Polls
<1>5. CASE AskForRead
  <2>1. /\ sender = "ask" /\ sender' = "take" /\ recv_chan' = recv_chan + 1
        /\ UNCHANGED <<tx_chan, reader, requests_sent>>
    BY <1>5 DEF AskForRead
  <2> QED BY <1>0, <1>1, <2>1 DEF Written, Unwritten, Polls
<1>6. CASE StartPoll
  <2>1. /\ reader = "idle" /\ reader' = "poll" /\ recv_chan' = recv_chan - 1
        /\ UNCHANGED <<tx_chan, sender, requests_sent>>
    BY <1>6 DEF StartPoll
  <2> QED BY <1>0, <1>1, <2>1 DEF Written, Unwritten, Polls
<1>7. CASE reader' # "poll" /\ UNCHANGED <<tx_chan, sender, requests_sent, recv_chan>>
  BY <1>0, <1>1, <1>7 DEF Written, Unwritten, Polls
<1>8. CASE UNCHANGED <<tx_chan, sender, requests_sent, recv_chan, reader>>
  BY <1>0, <1>1, <1>8 DEF Written, Unwritten, Polls
<1> QED BY <1>2, <1>3, <1>4, <1>5, <1>6, <1>7, <1>8
        DEF Next, Main, Build, LoopHead, ProcessResponse, Sender, Reader, Device, Read, PollTimesOut,
            PutResult, ReadFails, WaitFails, Arrive, SeeEvent, vars

(* The marks that tell how far each task has come only move forward.       *)
LEMMA MarkStep ==
    ASSUME IInv, OrderInv, MarkInv, [Next]_vars PROVE MarkInv'
<1>0. /\ Len(tx_chan) \in Int /\ Len(tx_chan) >= 0 /\ recv_chan \in Int /\ recv_chan >= 0
      /\ requests_sent \in Int /\ Unwritten \in Int /\ Unwritten >= 0 /\ Written \in Int
      /\ Unwritten = Len(tx_chan) + (IF sender = "write" THEN 1 ELSE 0)
      /\ Written = requests_sent - Unwritten
      /\ tid >= requests_sent /\ tid \in Int /\ mark.written \in Int /\ mark.built \in Int
  BY Numbers DEF IInv, TypeInv, TypeOK, SentAtOnce
<1>1. CASE StartPoll
  <2>1. /\ mark'.written = Written /\ mark'.built = tid /\ recv_chan >= 1
        /\ recv_chan' = recv_chan - 1 /\ reader' = "poll"
        /\ UNCHANGED <<tx_chan, sender, requests_sent>>
    BY <1>0, <1>1 DEF StartPoll, mainVars, sendVars, Written
  <2>2. Written' = Written
    BY <2>1 DEF Written, Unwritten
  <2>3. Polls' > Unwritten
    BY <1>0, <2>1 DEF Polls
  <2> QED BY <1>0, <2>1, <2>2, <2>3 DEF MarkInv
<1>2. CASE reader = "poll" /\ reader' = "poll" /\ mark' = mark
  <2>1. mark.written <= Written /\ mark.written <= mark.built /\ requests_sent - mark.written < Polls
    BY <1>2 DEF MarkInv
  <2>2. Written <= Written' /\ Written' \in Int
    BY PollsStep
  <2>3. requests_sent' - requests_sent = Polls' - Polls /\ Polls \in Int /\ Polls' \in Int
    BY <1>2, PollsStep
  <2>4. requests_sent' \in Int
    BY <1>0 DEF Next, Main, Build, SendRequest, LoopHead, ProcessResponse, Sender, TakeRequest, AskForRead,
            WriteRequest, Reader, StartPoll, Read, PollTimesOut, PutResult, ReadFails, WaitFails, Device,
            Arrive, SeeEvent, vars, mainVars
  <2>5. mark.written <= Written'
    BY <1>0, <2>1, <2>2
  <2>6. requests_sent' - mark.written < Polls'
    BY <1>0, <2>1, <2>3, <2>4
  <2> QED BY <1>2, <2>1, <2>5, <2>6 DEF MarkInv
<1>3. CASE reader' # "poll"
  BY <1>3 DEF MarkInv
<1> QED BY <1>1, <1>2, <1>3
        DEF Next, Main, Build, SendRequest, LoopHead, ProcessResponse, Sender, TakeRequest, AskForRead,
            WriteRequest, Reader, Read, PollTimesOut, PutResult, ReadFails, WaitFails, Device, Arrive,
            SeeEvent, vars, readVars

(* What is on the wire can be counted.                                     *)
LEMMA WireFinite ==
    ASSUME IInv, OrderInv
    PROVE  IsFiniteSet(wire) /\ Cardinality(wire) \in Int /\ Cardinality(wire) >= 0
<1>1. Written - 1 \in Int /\ wire \in SUBSET (0..(Written - 1))
  BY Numbers DEF OrderInv
<1>2. IsFiniteSet(0..(Written - 1))
  BY <1>1, FS_Interval
<1>3. IsFiniteSet(wire)
  BY <1>1, <1>2, FS_Subset
<1> QED BY <1>3, FS_CardinalityType

(* Trouble stays.                                                          *)
LEMMA CalmBefore == ASSUME IInv, [Next]_vars, Calm' PROVE Calm /\ faults' = faults /\ unpolled' = unpolled
<1>1. /\ late \subseteq late' /\ (overlooked => overlooked')
      /\ \/ faults' = faults /\ unpolled' = unpolled
         \/ faults' = faults + 1
  <2>1. CASE UNCHANGED <<late, overlooked, faults, unpolled>>
    BY <2>1
  <2>2. CASE PollTimesOut
    BY <2>2 DEF PollTimesOut
  <2>3. CASE ReadFails \/ WaitFails
    BY <2>3 DEF ReadFails, WaitFails
  <2> QED BY <2>1, <2>2, <2>3
          DEF Next, Main, Build, SendRequest, LoopHead, ProcessResponse, Sender, TakeRequest, AskForRead,
              WriteRequest, Reader, StartPoll, Read, PutResult, Device, Arrive, SeeEvent, vars, ghosts
<1>2. faults' = faults /\ unpolled' = unpolled
  BY <1>1 DEF Calm, IInv, TypeInv, TypeOK
<1> QED BY <1>1, <1>2 DEF Calm

(* When a poll times out and nothing is astray, all that is still to be    *)
(* answered was written after the poll began: there is one poll more than  *)
(* answers, and one more for each answer that has already come.            *)
LEMMA TimedOut ==
    ASSUME IInv, OrderInv, MarkInv, PollTimesOut, Calm'
    PROVE  /\ Due \in Int /\ Polls \in Int /\ Due' = Due /\ Polls' = Polls - 1
           /\ Due < Polls
           /\ \A t \in mark.written..(Written - 1) : t \notin wire => Due < Polls - 1
<1>0. /\ Len(tx_chan) \in Int /\ Len(tx_chan) >= 0 /\ recv_chan \in Int /\ recv_chan >= 0
      /\ requests_sent \in Int /\ Unwritten \in Int /\ Unwritten >= 0 /\ Written \in Int
      /\ Written = requests_sent - Unwritten /\ mark.written \in Int
      /\ wire \subseteq 0..(Written - 1)
  BY Numbers DEF IInv, TypeInv, TypeOK, OrderInv
<1>1. /\ reader = "poll" /\ reader' = "put" /\ inbox = <<>> /\ Overdue = {}
      /\ UNCHANGED <<tx_chan, sender, recv_chan, wire, inbox>>
  BY DEF PollTimesOut, Calm, sendVars, deviceVars
<1>2. Len(inbox) = 0
  BY <1>1
<1>3. mark.written <= Written /\ requests_sent - mark.written < Polls
  BY <1>1 DEF MarkInv
<1> DEFINE late_ones == mark.written..(Written - 1)
<1>4. wire \in SUBSET late_ones
  <2>1. \A t \in wire : ~(t < mark.written)
    BY <1>1 DEF Overdue
  <2> QED BY <1>0, <2>1
<1>5. IsFiniteSet(late_ones) /\ Cardinality(late_ones) = Written - mark.written
  <2>1. Written - 1 \in Int
    BY <1>0
  <2>2. /\ IsFiniteSet(late_ones)
        /\ Cardinality(late_ones) = IF mark.written > Written - 1 THEN 0 ELSE (Written - 1) - mark.written + 1
    BY <1>0, <2>1, FS_Interval
  <2> HIDE DEF late_ones
  <2> QED BY <1>0, <1>3, <2>1, <2>2
<1> HIDE DEF late_ones
<1>6. Cardinality(wire) <= Written - mark.written
  BY <1>4, <1>5, FS_Subset
<1>7. ASSUME NEW t \in late_ones, t \notin wire PROVE Cardinality(wire) < Written - mark.written
  <2>1. late_ones # wire
    BY <1>7
  <2>2. Cardinality(late_ones) # Cardinality(wire)
    BY <1>4, <1>5, <2>1, FS_Subset
  <2>3. Cardinality(wire) \in Int
    BY WireFinite
  <2> QED BY <1>0, <1>5, <1>6, <2>2, <2>3
<1>8. Cardinality(wire) \in Int
  BY WireFinite
<1>9. Polls \in Int /\ Polls' = Polls - 1
  BY <1>0, <1>1 DEF Polls
<1>10. Due = Unwritten + Cardinality(wire) /\ Due' = Due
  BY <1>0, <1>1, <1>2, <1>8 DEF Due, Unwritten
<1>11. Due \in Int /\ Due < Polls
  BY <1>0, <1>3, <1>6, <1>8, <1>9, <1>10
<1>12. \A t \in late_ones : t \notin wire => Due < Polls - 1
  BY <1>0, <1>3, <1>7, <1>8, <1>9, <1>10
<1> QED BY <1>9, <1>10, <1>11, <1>12 DEF late_ones

(* What a step does to the answers and the polls to come: it takes one of  *)
(* each, or none; a request is lost; or a poll times out.                  *)
LEMMA DueStep ==
    ASSUME IInv, OrderInv, [Next]_vars, Calm'
    PROVE  /\ Due \in Int /\ Due' \in Int /\ Polls \in Int /\ Polls' \in Int
           /\ \/ Due' - Due = Polls' - Polls /\ lost' = lost /\ (Expiring' => Expiring)
              \/ WriteRequest /\ wire' = wire /\ lost' = lost + 1 /\ Due' = Due - 1 /\ Polls' = Polls
              \/ PollTimesOut
<1>0. /\ Len(tx_chan) \in Int /\ Len(inbox) \in Int /\ recv_chan \in Int /\ Cardinality(wire) \in Int
      /\ IsFiniteSet(wire) /\ requests_sent \in Int /\ lost \in Int
      /\ Unwritten = Len(tx_chan) + (IF sender = "write" THEN 1 ELSE 0)
      /\ Written = requests_sent - Unwritten
      /\ tx_chan \in Seq(Nat) /\ inbox \in Seq(Nat) /\ Unwritten \in Int
  BY Numbers, WireFinite DEF IInv, TypeInv, TypeOK
<1>1. Due \in Int /\ Polls \in Int
  BY <1>0 DEF Due, Polls
<1> USE DEF mainVars, sendVars, readVars, deviceVars, ghosts
<1>2. CASE SendRequest
  <2>1. /\ Len(tx_chan') = Len(tx_chan) + 1
        /\ UNCHANGED <<sender, reader, got, recv_chan, wire, inbox, lost>>
        /\ tx_chan' = Append(tx_chan, hand)
    BY <1>0, <1>2 DEF SendRequest
  <2>4. Unwritten' = Unwritten + 1
    BY <1>0, <2>1 DEF Unwritten
  <2>5. Cardinality(wire') = Cardinality(wire) /\ Len(inbox') = Len(inbox)
    BY <2>1
  <2>2. Due' = Due + 1
    BY <1>0, <2>4, <2>5 DEF Due
  <2>3. Polls' = Polls + 1
    <3> DEFINE s == IF sender = "take" THEN 0 ELSE 1
               r == IF reader = "poll" THEN 1 ELSE 0
    <3>1. Polls' = (Len(tx_chan) + 1) + s + recv_chan + r /\ Polls = Len(tx_chan) + s + recv_chan + r
      BY <2>1 DEF Polls
    <3>2. s \in Int /\ r \in Int
      OBVIOUS
    <3> HIDE DEF s, r
    <3> QED BY <1>0, <3>1, <3>2
  <2> QED BY <1>1, <2>1, <2>2, <2>3 DEF Expiring
<1>3. CASE TakeRequest
  <2>1. /\ Len(tx_chan') = Len(tx_chan) - 1 /\ sender = "take" /\ sender' = "write"
        /\ UNCHANGED <<reader, got, recv_chan, wire, inbox, lost>>
    BY <1>0, <1>3, HeadTail DEF TakeRequest
  <2>2. Due' = Due
    BY <1>0, <2>1 DEF Due, Unwritten
  <2>3. Polls' = Polls
    BY <1>0, <2>1 DEF Polls
  <2> QED BY <1>1, <2>1, <2>2, <2>3 DEF Expiring
<1>4. CASE WriteRequest
  <2>1. /\ sender = "write" /\ sender' = "ask"
        /\ UNCHANGED <<tx_chan, recv_chan, reader, got, inbox>>
    BY <1>4 DEF WriteRequest
  <2>2. Polls' = Polls
    BY <2>1 DEF Polls
  <2>3. Unwritten' = Unwritten - 1
    BY <1>0, <2>1 DEF Unwritten
  <2>4. CASE wire' = wire \cup {taken} /\ lost' = lost
    <3>1. taken \notin wire
      <4>1. taken = Written
        BY <1>0, <2>1 DEF OrderInv
      <4>2. wire \subseteq 0..(Written - 1) /\ Written \in Int
        BY Numbers DEF OrderInv
      <4> QED BY <4>1, <4>2
    <3>2. Cardinality(wire') = Cardinality(wire) + 1
      BY <1>0, <2>4, <3>1, FS_AddElement
    <3>3. Due' = Due
      <4>1. Len(inbox') = Len(inbox)
        BY <2>1
      <4> QED BY <1>0, <2>3, <3>2, <4>1 DEF Due
    <3> QED BY <1>1, <2>1, <2>2, <2>4, <3>3 DEF Expiring
  <2>5. CASE wire' = wire /\ lost' = lost + 1
    <3>1. Due' = Due - 1
      <4>1. Len(inbox') = Len(inbox) /\ Cardinality(wire') = Cardinality(wire)
        BY <2>1, <2>5
      <4> QED BY <1>0, <2>3, <4>1 DEF Due
    <3> QED BY <1>1, <1>4, <2>2, <2>5, <3>1
  <2> QED BY <1>4, <2>4, <2>5 DEF WriteRequest
<1>5. CASE AskForRead
  <2>1. /\ sender = "ask" /\ sender' = "take" /\ recv_chan' = recv_chan + 1
        /\ UNCHANGED <<tx_chan, reader, got, wire, inbox, lost>>
    BY <1>5 DEF AskForRead
  <2>2. Due' = Due
    BY <1>0, <2>1 DEF Due, Unwritten
  <2>3. Polls' = Polls
    BY <1>0, <2>1 DEF Polls
  <2> QED BY <1>1, <2>1, <2>2, <2>3 DEF Expiring
<1>6. CASE StartPoll
  <2>1. /\ reader = "idle" /\ reader' = "poll" /\ recv_chan' = recv_chan - 1
        /\ UNCHANGED <<tx_chan, sender, wire, inbox, lost>>
    BY <1>6 DEF StartPoll
  <2>2. Due' = Due
    BY <2>1 DEF Due, Unwritten
  <2>3. Polls' = Polls
    BY <1>0, <2>1 DEF Polls
  <2> QED BY <1>1, <2>1, <2>2, <2>3 DEF Expiring
<1>7. CASE Read
  <2>1. /\ Len(inbox') = Len(inbox) - 1 /\ reader = "poll" /\ reader' = "put" /\ got'.kind = "Answer"
        /\ UNCHANGED <<tx_chan, sender, recv_chan, wire, lost>>
    BY <1>0, <1>7, HeadTail DEF Read
  <2>2. Due' = Due - 1
    BY <1>0, <2>1, Numbers, SMTT(30) DEF Due, Unwritten
  <2>3. Polls' = Polls - 1
    BY <1>0, <2>1 DEF Polls
  <2> QED BY <1>1, <2>1, <2>2, <2>3 DEF Expiring
<1>8. CASE PollTimesOut
  <2>1. /\ reader = "poll" /\ reader' = "put"
        /\ UNCHANGED <<tx_chan, sender, recv_chan, wire, inbox>>
    BY <1>8 DEF PollTimesOut
  <2>2. Due' = Due
    BY <2>1 DEF Due, Unwritten
  <2>3. Polls' = Polls - 1
    BY <1>0, <2>1 DEF Polls
  <2> QED BY <1>1, <1>8, <2>2, <2>3
<1>9. CASE PutResult
  <2>1. /\ reader = "put" /\ reader' = "idle"
        /\ UNCHANGED <<tx_chan, sender, recv_chan, wire, inbox, lost>>
    BY <1>9 DEF PutResult
  <2>2. Due' = Due /\ Polls' = Polls
    BY <2>1 DEF Due, Unwritten, Polls
  <2> QED BY <1>1, <2>1, <2>2 DEF Expiring
<1>10. CASE Arrive
  <2>1. PICK t \in wire : wire' = wire \ {t} /\ inbox' = Append(inbox, t)
    BY <1>10 DEF Arrive
  <2>2. Cardinality(wire') = Cardinality(wire) - 1
    BY <1>0, <2>1, FS_RemoveElement
  <2>6. Len(inbox') = Len(inbox) + 1
    <3>1. t \in Nat
      BY <2>1 DEF IInv, TypeInv, TypeOK
    <3> QED BY <1>0, <2>1, <3>1
  <2>3. UNCHANGED <<tx_chan, sender, recv_chan, reader, got, lost>>
    BY <1>10 DEF Arrive
  <2>7. Unwritten' = Unwritten
    BY <2>3 DEF Unwritten
  <2>4. Due' = Due
    <3>1. Due' = Unwritten + (Cardinality(wire) - 1) + (Len(inbox) + 1)
      BY <2>2, <2>6, <2>7 DEF Due
    <3>2. Due = Unwritten + Cardinality(wire) + Len(inbox)
      BY DEF Due
    <3>3. Unwritten \in Int /\ Cardinality(wire) \in Int /\ Len(inbox) \in Int
      BY <1>0
    <3> QED BY <3>1, <3>2, <3>3
  <2>5. Polls' = Polls
    BY <2>3 DEF Polls
  <2> QED BY <1>1, <2>3, <2>4, <2>5 DEF Expiring
<1>11. CASE UNCHANGED <<tx_chan, sender, recv_chan, reader, got, wire, inbox, lost>>
  <2>1. Due' = Due /\ Polls' = Polls
    BY <1>11 DEF Due, Unwritten, Polls
  <2> QED BY <1>1, <1>11, <2>1 DEF Expiring
<1>12. CASE ReadFails \/ WaitFails
  <2>1. faults' = faults + 1 /\ faults \in Nat
    BY <1>12 DEF ReadFails, WaitFails, IInv, TypeInv, TypeOK
  <2> QED BY <2>1 DEF Calm
<1> QED BY <1>2, <1>3, <1>4, <1>5, <1>6, <1>7, <1>8, <1>9, <1>10, <1>11, <1>12
        DEF Next, Main, Build, LoopHead, ProcessResponse, Sender, Reader, Device, SeeEvent, vars

(* There are enough polls, and without a loss no request expires.          *)
LEMMA EnoughStep ==
    ASSUME IInv, OrderInv, MarkInv, EnoughPolls, [Next]_vars, Calm'
    PROVE  EnoughPolls'
<1>0. Due \in Int /\ Due' \in Int /\ Polls \in Int /\ Polls' \in Int /\ lost \in Nat
  BY DueStep DEF IInv, TypeInv, TypeOK
<1>1. CASE PollTimesOut
  <2>1. Due' = Due /\ Polls' = Polls - 1 /\ Due < Polls
    BY <1>1, TimedOut
  <2>2. lost' = lost
    BY <1>1 DEF PollTimesOut
  <2>3. lost # 0
    BY <1>0, <2>1 DEF EnoughPolls
  <2> QED BY <1>0, <2>1, <2>2, <2>3 DEF EnoughPolls
<1>2. CASE Due' - Due = Polls' - Polls /\ lost' = lost /\ (Expiring' => Expiring)
  BY <1>0, <1>2 DEF EnoughPolls
<1>3. CASE lost' = lost + 1 /\ Due' = Due - 1 /\ Polls' = Polls
  BY <1>0, <1>3 DEF EnoughPolls
<1> QED BY <1>1, <1>2, <1>3, DueStep

(* A message on its way to main closes its requests, or stays on its way.  *)
LEMMA SettledStays ==
    ASSUME IInv, [Next]_vars, NEW t \in smp_map', Settled(t)
    PROVE  Settled(t)'
<1>0. /\ res_chan \in Seq(Message) /\ Len(res_chan) \in Nat /\ got \in Message
      /\ smp_map \subseteq Nat /\ tid \in Nat
  BY DEF IInv, TypeInv, TypeOK
<1>1. CASE ProcessResponse
  <2> DEFINE msg == Head(res_chan)
  <2>1. /\ res_chan # <<>> /\ res_chan' = Tail(res_chan) /\ UNCHANGED <<reader, got>>
        /\ IF msg.kind = "Timeout" THEN ExpireOld(msg.tid) ELSE smp_map' = smp_map \ {msg.tid}
    BY <1>1 DEF ProcessResponse, readVars
  <2>2. Len(res_chan) >= 1 /\ msg = res_chan[1] /\ Len(res_chan') = Len(res_chan) - 1
    BY <1>0, <2>1, HeadTail
  <2>3. ~Settles(res_chan[1], t)
    <3>1. CASE msg.kind = "Timeout"
      <4>1. PICK cut \in msg.tid..tid : smp_map' = {u \in smp_map : u >= cut}
        BY <2>1, <3>1 DEF ExpireOld
      <4>2. msg \in Message
        BY <1>0, <2>1, HeadTail
      <4>3. msg.tid \in Nat /\ t \in Nat /\ t >= cut
        BY <1>0, <4>1, <4>2 DEF Message
      <4>4. ~(t < msg.tid)
        BY <1>0, <4>1, <4>3
      <4> QED BY <2>2, <3>1, <4>4 DEF Settles
    <3>2. CASE msg.kind # "Timeout"
      <4>1. t # msg.tid
        BY <2>1, <3>2
      <4> QED BY <2>2, <3>2, <4>1 DEF Settles
    <3> QED BY <3>1, <3>2
  <2>4. CASE reader = "put" /\ Settles(got, t)
    BY <2>1, <2>4 DEF Settled, Settles
  <2>5. CASE \E i \in 1..Len(res_chan) : Settles(res_chan[i], t)
    <3>1. PICK i \in 1..Len(res_chan) : Settles(res_chan[i], t)
      BY <2>5
    <3>2. i # 1
      BY <2>3, <3>1
    <3>3. i - 1 \in 1..Len(res_chan') /\ res_chan'[i - 1] = res_chan[i]
      BY <1>0, <2>1, <2>2, <3>1, <3>2
    <3>4. Settles(res_chan'[i - 1], t)
      BY <3>1, <3>3
    <3> QED BY <3>3, <3>4 DEF Settled, Settles
  <2> QED BY <2>4, <2>5 DEF Settled
<1>2. CASE PutResult
  <2>1. res_chan' = Append(res_chan, got)
    BY <1>2 DEF PutResult
  <2>2. Len(res_chan') = Len(res_chan) + 1 /\ res_chan'[Len(res_chan) + 1] = got
        /\ \A i \in 1..Len(res_chan) : res_chan'[i] = res_chan[i]
    BY <1>0, <2>1
  <2>3. \E i \in 1..Len(res_chan') : Settles(res_chan'[i], t)
    <3>1. CASE Settles(got, t)
      <4>1. Len(res_chan) + 1 \in 1..Len(res_chan') /\ Settles(res_chan'[Len(res_chan) + 1], t)
        BY <1>0, <2>2, <3>1
      <4> QED BY <4>1
    <3>2. CASE \E i \in 1..Len(res_chan) : Settles(res_chan[i], t)
      <4>1. PICK i \in 1..Len(res_chan) : Settles(res_chan[i], t)
        BY <3>2
      <4>2. i \in 1..Len(res_chan') /\ Settles(res_chan'[i], t)
        BY <1>0, <2>2, <4>1
      <4> QED BY <4>2
    <3> QED BY <3>1, <3>2 DEF Settled
  <2> QED BY <2>3 DEF Settled, Settles
<1>3. CASE reader # "put" /\ res_chan' = res_chan
  <2>1. \E i \in 1..Len(res_chan) : Settles(res_chan[i], t)
    BY <1>3 DEF Settled
  <2> QED BY <1>3, <2>1 DEF Settled, Settles
<1>4. CASE UNCHANGED <<reader, got, res_chan>>
  BY <1>4 DEF Settled, Settles
<1> QED BY <1>1, <1>2, <1>3, <1>4
        DEF Next, Main, Build, SendRequest, LoopHead, Sender, TakeRequest, AskForRead, WriteRequest,
            Reader, StartPoll, Read, PollTimesOut, ReadFails, WaitFails, Device, Arrive, SeeEvent,
            vars, readVars

(* An answer to come is on its way to main, or still to come, unless its   *)
(* request is lost.                                                        *)
LEMMA PendingStays ==
    ASSUME IInv, OrderInv, [Next]_vars, NEW t \in Pending
    PROVE  t \in Pending' \/ Settled(t)' \/ (WriteRequest /\ lost' = lost + 1)
<1>0. /\ Len(tx_chan) \in Int /\ Len(tx_chan) >= 0 /\ Len(inbox) \in Int /\ Len(inbox) >= 0
      /\ requests_sent \in Int /\ Written \in Int /\ Unwritten \in Int
      /\ Written = requests_sent - Unwritten
      /\ tx_chan \in Seq(Nat) /\ inbox \in Seq(Nat) /\ wire \subseteq Nat
  BY Numbers DEF IInv, TypeInv, TypeOK
<1> USE DEF mainVars, sendVars, deviceVars
<1>1. CASE Written' = Written /\ UNCHANGED <<requests_sent, wire, inbox>>
  BY <1>1 DEF Pending
<1>2. CASE SendRequest
  <2>1. /\ requests_sent' = requests_sent + 1 /\ Len(tx_chan') = Len(tx_chan) + 1
        /\ UNCHANGED <<sender, wire, inbox>>
    BY <1>0, <1>2 DEF SendRequest, IInv, TypeInv, TypeOK
  <2>2. Written' = Written
    BY <1>0, <2>1 DEF Written, Unwritten
  <2>3. Written..(requests_sent - 1) \subseteq Written'..(requests_sent' - 1)
    BY <1>0, <2>1, <2>2
  <2> QED BY <2>1, <2>3 DEF Pending
<1>3. CASE TakeRequest
  <2>1. /\ Len(tx_chan') = Len(tx_chan) - 1 /\ sender = "take" /\ sender' = "write"
        /\ UNCHANGED <<requests_sent, wire, inbox>>
    BY <1>0, <1>3, HeadTail DEF TakeRequest
  <2>2. Written' = Written
    BY <1>0, <2>1 DEF Written, Unwritten
  <2> QED BY <1>1, <2>1, <2>2
<1>4. CASE WriteRequest
  <2>1. /\ sender = "write" /\ sender' = "ask" /\ UNCHANGED <<tx_chan, requests_sent, inbox>>
        /\ (wire' = wire \cup {taken} \/ lost' = lost + 1)
    BY <1>4 DEF WriteRequest
  <2>2. Written' = Written + 1 /\ taken = Written
    BY <1>0, <2>1 DEF Written, Unwritten, OrderInv
  <2>3. CASE wire' = wire \cup {taken}
    <3>1. Written..(requests_sent - 1) \subseteq (Written'..(requests_sent' - 1)) \cup {taken}
      BY <1>0, <2>1, <2>2
    <3> QED BY <2>1, <2>3, <3>1 DEF Pending
  <2> QED BY <1>4, <2>1, <2>3
<1>5. CASE Read
  <2>1. /\ inbox # <<>> /\ inbox' = Tail(inbox) /\ reader' = "put"
        /\ got' = [kind |-> "Answer", tid |-> Head(inbox)]
        /\ UNCHANGED <<tx_chan, sender, requests_sent, wire>>
    BY <1>5 DEF Read
  <2>2. Written' = Written
    BY <2>1 DEF Written, Unwritten
  <2>3. CASE \E i \in 1..Len(inbox) : t = inbox[i]
    <3>1. PICK i \in 1..Len(inbox) : t = inbox[i]
      BY <2>3
    <3>2. CASE i = 1
      <4>1. got'.kind = "Answer" /\ got'.tid = t
        BY <1>0, <2>1, <3>1, <3>2
      <4> QED BY <2>1, <4>1 DEF Settled, Settles
    <3>3. CASE i # 1
      <4>1. i - 1 \in 1..Len(inbox') /\ inbox'[i - 1] = t
        BY <1>0, <2>1, <3>1, <3>3
      <4> QED BY <4>1 DEF Pending
    <3> QED BY <3>2, <3>3
  <2>4. CASE t \in (Written..(requests_sent - 1)) \cup wire
    BY <2>1, <2>2, <2>4 DEF Pending
  <2> QED BY <2>3, <2>4 DEF Pending
<1>6. CASE Arrive
  <2>1. PICK u \in wire : wire' = wire \ {u} /\ inbox' = Append(inbox, u)
    BY <1>6 DEF Arrive
  <2>2. UNCHANGED <<tx_chan, sender, requests_sent>>
    BY <1>6 DEF Arrive
  <2>3. Written' = Written
    BY <2>2 DEF Written, Unwritten
  <2>4. /\ Len(inbox') = Len(inbox) + 1 /\ inbox'[Len(inbox) + 1] = u
        /\ \A i \in 1..Len(inbox) : inbox'[i] = inbox[i]
    BY <1>0, <2>1
  <2>5. CASE \E i \in 1..Len(inbox) : t = inbox[i]
    <3>1. PICK i \in 1..Len(inbox) : t = inbox[i]
      BY <2>5
    <3>2. i \in 1..Len(inbox') /\ inbox'[i] = t
      BY <1>0, <2>4, <3>1
    <3> QED BY <3>2 DEF Pending
  <2>6. CASE t = u
    <3>1. Len(inbox) + 1 \in 1..Len(inbox') /\ inbox'[Len(inbox) + 1] = t
      BY <1>0, <2>4, <2>6
    <3> QED BY <3>1 DEF Pending
  <2>7. CASE t # u /\ t \in (Written..(requests_sent - 1)) \cup wire
    BY <2>1, <2>2, <2>3, <2>7 DEF Pending
  <2> QED BY <2>5, <2>6, <2>7 DEF Pending
<1>7. CASE UNCHANGED <<tx_chan, requests_sent, wire, inbox>> /\ (sender' = sender \/ (sender = "ask" /\ sender' = "take"))
  <2>1. Written' = Written
    BY <1>7 DEF Written, Unwritten
  <2> QED BY <1>1, <1>7, <2>1
<1> QED BY <1>2, <1>3, <1>4, <1>5, <1>6, <1>7
        DEF Next, Main, Build, LoopHead, ProcessResponse, Sender, AskForRead, Reader, StartPoll,
            PollTimesOut, PutResult, ReadFails, WaitFails, Device, SeeEvent, vars

(* As long as nothing has been lost or late, each request under way keeps  *)
(* something that will be read for it.                                     *)
LEMMA CoveredStep ==
    ASSUME IInv, OrderInv, MarkInv, EnoughPolls, AllCovered, [Next]_vars, Calm'
    PROVE  AllCovered'
<1>0. /\ Due \in Int /\ Due' \in Int /\ Polls \in Int /\ Polls' \in Int
      /\ requests_sent \in Int /\ Written \in Int /\ Unwritten \in Int /\ Unwritten >= 0
      /\ Written = requests_sent - Unwritten /\ smp_map \subseteq Nat
      /\ tid = requests_sent + (IF main = "send" THEN 1 ELSE 0)
      /\ mark.built \in Int /\ mark.written \in Int
  BY Numbers, DueStep, SMTT(30) DEF IInv, TypeInv, TypeOK, SentAtOnce
<1> SUFFICES ASSUME NEW t \in smp_map', t < requests_sent' PROVE Covered(t)'
  BY DEF AllCovered
<1>1. CASE t \notin smp_map
  <2>1. Build
    BY <1>1 DEF Next, Main, SendRequest, LoopHead, ProcessResponse, ExpireOld, Sender, TakeRequest,
                AskForRead, WriteRequest, Reader, StartPoll, Read, PollTimesOut, PutResult, ReadFails,
                WaitFails, Device, Arrive, SeeEvent, vars, mainVars
  <2>2. t = tid /\ main = "build" /\ requests_sent' = requests_sent
    BY <1>1, <2>1 DEF Build
  <2> QED BY <1>0, <2>2
<1>2. CASE t \in smp_map /\ ~(t < requests_sent)
  <2>1. SendRequest
    BY <1>2 DEF Next, Main, Build, LoopHead, ProcessResponse, Sender, TakeRequest,
                AskForRead, WriteRequest, Reader, StartPoll, Read, PollTimesOut, PutResult, ReadFails,
                WaitFails, Device, Arrive, SeeEvent, vars, mainVars
  <2>2. /\ requests_sent' = requests_sent + 1 /\ Len(tx_chan') = Len(tx_chan) + 1
        /\ UNCHANGED sender
    BY <2>1 DEF SendRequest, sendVars, IInv, TypeInv, TypeOK
  <2>3. Written' = Written
    BY <1>0, <2>2, Numbers DEF Written, Unwritten
  <2>4. t \in Written'..(requests_sent' - 1)
    BY <1>0, <1>2, <2>2, <2>3
  <2> QED BY <2>4 DEF Covered, Pending
<1>3. CASE t \in smp_map /\ t < requests_sent
  <2>1. Covered(t)
    BY <1>3 DEF AllCovered
  <2>2. CASE Settled(t)
    <3>1. Settled(t)'
      BY <2>2, SettledStays
    <3> QED BY <3>1 DEF Covered
  <2>3. CASE t \in Pending
    <3>1. CASE WriteRequest /\ lost' = lost + 1
      <4>1. lost' # lost /\ ~PollTimesOut
        BY <3>1 DEF WriteRequest, PollTimesOut, sendVars, IInv, TypeInv, TypeOK
      <4>2. Due' = Due - 1 /\ Polls' = Polls
        BY <4>1, DueStep
      <4> QED BY <1>0, <4>2 DEF EnoughPolls, Covered
    <3> QED BY <2>3, <3>1, PendingStays DEF Covered
  <2>4. CASE Due < Polls /\ ~Settled(t) /\ t \notin Pending
    <3>1. CASE ~PollTimesOut
      <4>1. Due' - Due = Polls' - Polls \/ (Due' = Due - 1 /\ Polls' = Polls)
        BY <3>1, DueStep
      <4> QED BY <1>0, <2>4, <4>1 DEF Covered
    <3>2. CASE PollTimesOut /\ t < mark.built
      <4>1. reader' = "put" /\ got'.kind = "Timeout" /\ t < got'.tid
        BY <3>2 DEF PollTimesOut
      <4> QED BY <4>1 DEF Covered, Settled, Settles
    <3>3. CASE PollTimesOut /\ ~(t < mark.built)
      <4>1. mark.written <= mark.built
        BY <3>3 DEF MarkInv, PollTimesOut
      <4>2. t \notin Written..(requests_sent - 1) /\ t \notin wire
        BY <2>4 DEF Pending
      <4>3. t \in mark.written..(Written - 1)
        BY <1>0, <1>3, <3>3, <4>1, <4>2
      <4>4. Due' = Due /\ Polls' = Polls - 1 /\ Due < Polls - 1
        BY <3>3, <4>2, <4>3, TimedOut
      <4> QED BY <1>0, <4>4 DEF Covered
    <3> QED BY <3>1, <3>2, <3>3
  <2> QED BY <2>1, <2>2, <2>3, <2>4 DEF Covered
<1> QED BY <1>1, <1>2, <1>3

(* Main goes to wait only when something will come, and while it waits     *)
(* nothing under way is lost without a message.                            *)
LEMMA NotForsaken ==
    ASSUME IInv, IInv', OrderInv, CalmInv, [Next]_vars, Calm, unpolled' = unpolled, main' = "recv"
    PROVE  InFlight' > 0
<1>0. /\ Len(tx_chan) \in Int /\ Len(tx_chan) >= 0 /\ Len(res_chan) \in Int /\ Len(res_chan) >= 0
      /\ recv_chan \in Int /\ recv_chan >= 0 /\ requests_sent \in Int
      /\ Len(inbox) >= 0 /\ Len(inbox) \in Int /\ Unwritten >= 0 /\ Unwritten \in Int
      /\ Written = requests_sent - Unwritten /\ Written \in Int
      /\ tid = requests_sent + (IF main = "send" THEN 1 ELSE 0) /\ smp_map \subseteq 0..(tid - 1)
      /\ Cardinality(wire) \in Int /\ Cardinality(wire) >= 0 /\ IsFiniteSet(wire)
  BY Numbers, WireFinite DEF IInv, TypeInv, TypeOK, SentAtOnce
<1>1. CASE main = "recv"
  <2>1. UNCHANGED <<requests_sent, responses_received>>
    BY <1>1 DEF Next, Main, Build, SendRequest, LoopHead, ProcessResponse, Sender, TakeRequest,
                AskForRead, WriteRequest, Reader, StartPoll, Read, PollTimesOut, PutResult, ReadFails,
                WaitFails, Device, Arrive, SeeEvent, vars, mainVars
  <2>2. requests_sent = InFlight + responses_received + unpolled
        /\ requests_sent' = InFlight' + responses_received' + unpolled'
    BY DEF IInv, EverySendPolled
  <2>3. InFlight > 0
    BY <1>1 DEF CalmInv
  <2>4. InFlight' = InFlight
    <3>1. InFlight \in Int /\ responses_received \in Int /\ unpolled \in Int
      <4>1. responses_received \in Int /\ unpolled \in Int
        BY Numbers
      <4> QED BY <1>0, <4>1 DEF InFlight
    <3>2. InFlight' \in Int
      <4>1. tx_chan' \in Seq(Nat) /\ res_chan' \in Seq(Message) /\ recv_chan' \in 0..RecvCap
        BY DEF IInv, TypeInv, TypeOK
      <4>2. Len(tx_chan') \in Int /\ Len(res_chan') \in Int /\ recv_chan' \in Int
        BY <4>1
      <4> QED BY <4>2 DEF InFlight
    <3>3. requests_sent = InFlight' + responses_received + unpolled
      BY <2>1, <2>2
    <3>4. requests_sent = InFlight + responses_received + unpolled
      BY <2>2
    <3>5. PICK n \in Int : n = InFlight'
      BY <3>2
    <3>6. n + responses_received + unpolled = InFlight + responses_received + unpolled
      BY <3>3, <3>4, <3>5
    <3>7. n = InFlight
      BY <3>1, <3>6
    <3> QED BY <3>5, <3>7
  <2> QED BY <2>3, <2>4
<1>2. CASE main # "recv"
  <2>1. LoopHead
    BY <1>2 DEF Next, Main, Build, SendRequest, ProcessResponse, Sender, TakeRequest,
                AskForRead, WriteRequest, Reader, StartPoll, Read, PollTimesOut, PutResult, ReadFails,
                WaitFails, Device, Arrive, SeeEvent, vars, mainVars
  <2>2. main = "head" /\ (tx_chan # <<>> \/ smp_map # {})
    BY <2>1 DEF LoopHead, NothingLeft
  <2>3. InFlight' = InFlight
    BY <2>1 DEF LoopHead, InFlight, sendVars, readVars
  <2>4. InFlight >= Polls /\ InFlight \in Int /\ Polls \in Int
    <3> DEFINE s == IF sender = "take" THEN 0 ELSE 1
               p == IF reader = "poll" THEN 1 ELSE 0
               r == IF reader = "idle" THEN 0 ELSE 1
    <3>1. InFlight = Len(tx_chan) + recv_chan + Len(res_chan) + s + r
      BY DEF InFlight
    <3>2. Polls = Len(tx_chan) + s + recv_chan + p
      BY DEF Polls
    <3>3. s \in Int /\ p \in Int /\ r \in Int /\ p <= r
      OBVIOUS
    <3> HIDE DEF s, p, r
    <3> QED BY <1>0, <3>1, <3>2, <3>3
  <2>5. CASE tx_chan # <<>>
    <3>1. Len(tx_chan) >= 1
      <4>1. tx_chan \in Seq(Nat)
        BY DEF IInv, TypeInv, TypeOK
      <4> QED BY <2>5, <4>1, HeadTail
    <3> QED BY <1>0, <2>3, <3>1 DEF InFlight
  <2>6. CASE smp_map # {}
    <3>1. PICK t \in smp_map : TRUE
      BY <2>6
    <3>2. t < requests_sent /\ t \in Int
      BY <1>0, <2>2, <3>1
    <3>3. Covered(t)
      BY <3>1, <3>2 DEF CalmInv, AllCovered
    <3>4. Due \in Int /\ Due >= 0 /\ Due <= Polls
      BY <1>0 DEF Due, CalmInv, EnoughPolls
    <3>5. CASE Settled(t)
      <4>1. reader = "put" \/ Len(res_chan) >= 1
        BY <1>0, <3>5 DEF Settled
      <4> QED BY <1>0, <2>3, <4>1 DEF InFlight
    <3>6. CASE t \in Pending
      <4>1. CASE t \in Written..(requests_sent - 1)
        <5>1. Unwritten >= 1
          BY <1>0, <4>1
        <5> QED BY <1>0, <2>3, <2>4, <3>4, <5>1 DEF Due
      <4>2. CASE t \in wire
        <5>1. Cardinality(wire) # 0
          BY <1>0, <4>2, FS_EmptySet
        <5>2. Cardinality(wire) >= 1
          BY <1>0, <5>1
        <5> QED BY <1>0, <2>3, <2>4, <3>4, <5>2 DEF Due
      <4>3. CASE \E i \in 1..Len(inbox) : t = inbox[i]
        <5>1. Len(inbox) >= 1
          BY <1>0, <4>3
        <5> QED BY <1>0, <2>3, <2>4, <3>4, <5>1 DEF Due
      <4> QED BY <3>6, <4>1, <4>2, <4>3 DEF Pending
    <3>7. CASE Due < Polls
      BY <2>3, <2>4, <3>4, <3>7
    <3> QED BY <3>3, <3>5, <3>6, <3>7 DEF Covered
  <2> QED BY <2>2, <2>5, <2>6
<1> QED BY <1>1, <1>2

(* Every step keeps the reason why there is no trouble without a cause.    *)
LEMMA CauseStep ==
    ASSUME IInv, IInv', CauseInv, [Next]_vars PROVE CauseInv'
<1>1. OrderInv /\ MarkInv /\ CalmInv
  BY DEF CauseInv
<1>2. OrderInv' /\ MarkInv'
  BY <1>1, OrderStep, MarkStep
<1>3. CalmInv'
  <2> SUFFICES ASSUME Calm'
               PROVE  /\ unpolled' = 0 /\ EnoughPolls' /\ AllCovered'
                      /\ main' = "recv" => InFlight' > 0
    BY DEF CalmInv
  <2>1. Calm /\ faults' = faults /\ unpolled' = unpolled
    BY CalmBefore
  <2>2. unpolled = 0 /\ EnoughPolls /\ AllCovered
    BY <1>1, <2>1 DEF CalmInv
  <2>3. EnoughPolls' /\ AllCovered'
    BY <1>1, <2>2, EnoughStep, CoveredStep
  <2>4. main' = "recv" => InFlight' > 0
    BY <1>1, <2>1, NotForsaken
  <2> QED BY <2>1, <2>2, <2>3, <2>4
<1> QED BY <1>2, <1>3 DEF CauseInv

(* At the start nothing is under way but the first request.                *)
LEMMA InitCause == Init => CauseInv
<1> SUFFICES ASSUME Init PROVE CauseInv
  OBVIOUS
<1>1. /\ Len(tx_chan) = 0 /\ Len(inbox) = 0 /\ Len(res_chan) = 0 /\ Cardinality(wire) = 0
      /\ requests_sent = 0 /\ sender = "take" /\ reader = "idle" /\ recv_chan = 0 /\ wire = {}
      /\ main = "send" /\ hand = 0 /\ smp_map = {0} /\ unpolled = 0
  BY FS_EmptySet DEF Init
<1>2. OrderInv
  BY <1>1 DEF OrderInv
<1>3. MarkInv
  BY <1>1 DEF MarkInv
<1>4. EnoughPolls
  BY <1>1 DEF EnoughPolls, Due, Polls, Unwritten, Expiring
<1>5. AllCovered
  BY <1>1 DEF AllCovered
<1> QED BY <1>1, <1>2, <1>3, <1>4, <1>5 DEF CauseInv, CalmInv

(* However many requests are under way and however the tasks are           *)
(* scheduled: main waits for a message nobody will send only after an      *)
(* answer that its poll did not wait for, or a failure of the device; and  *)
(* a request expires only after that, or the loss of a request.            *)
THEOREM TroubleHasCause == Spec => []TroubleForCause
<1>1. IInv /\ CauseInv => TroubleForCause
  <2> SUFFICES ASSUME IInv, CauseInv PROVE TroubleForCause
    OBVIOUS
  <2>0. lost \in Nat /\ faults \in Nat
    BY DEF IInv, TypeInv, TypeOK
  <2>1. CASE Calm
    <3>1. ~Forsaken
      <4> SUFFICES ASSUME Forsaken PROVE FALSE
        OBVIOUS
      <4>1. InFlight > 0 /\ InFlight = 0
        BY <2>1 DEF CauseInv, CalmInv, Forsaken
      <4> QED BY <4>1
    <3>2. Expiring => lost # 0
      BY <2>1 DEF CauseInv, CalmInv, EnoughPolls
    <3> QED BY <2>0, <3>1, <3>2 DEF TroubleForCause
  <2>2. CASE ~Calm
    BY <2>0, <2>2 DEF TroubleForCause, Calm
  <2> QED BY <2>1, <2>2
<1>2. IInv /\ IInv' /\ CauseInv /\ [Next]_vars => CauseInv'
  BY CauseStep
<1> QED BY <1>1, <1>2, InitCause, Invariance, PTL DEF Spec
=============================================================================
