------------------------ MODULE MadTransport_proofs ------------------------
(***************************************************************************)
(* Proofs about MadTransport, for every value of its constants.            *)
(***************************************************************************)
EXTENDS MadTransport, SequenceTheorems, FunctionTheorems, FiniteSetTheorems, WellFoundedInduction, TLAPS

(* The id handed out d calls before t, for d smaller than the number of    *)
(* ids in use.                                                             *)
Back(t, d) == IF t > d THEN t - d ELSE t + (TidMod - 1) - d

(* A record under way belongs to a call since the last answered one, and   *)
(* carries the id that call drew.                                          *)
Fresh(r) ==
    /\ r.req \in 1..req
    /\ answered <= r.req
    /\ r.tid = Back(expected_tid, req - r.req)

AllFresh(s) == \A i \in 1..Len(s) : Fresh(s[i])
Sorted(s) == \A i, j \in 1..Len(s) : i <= j => s[i].req <= s[j].req
Before(s, t) == \A i \in 1..Len(s), j \in 1..Len(t) : s[i].req <= t[j].req

WireInv ==
    /\ AllFresh(toClient) /\ AllFresh(inSim) /\ AllFresh(toSim)
    /\ Sorted(toClient) /\ Sorted(toSim)
    /\ Before(toClient, inSim) /\ Before(toClient, toSim) /\ Before(inSim, toSim)

TidInv ==
    /\ answered <= req /\ req - answered <= MaxStreak
    /\ req > 0 => expected_tid >= 1 /\ tid = FollowingTid(expected_tid)
    /\ pc # "idle" => req > 0

ResultInv ==
    /\ result.kind = "ok" => pc = "idle" /\ answered = req /\ result.of = req

IInv == TypeOK /\ TidInv /\ WireInv /\ ResultInv

-----------------------------------------------------------------------------
(* next_tid never returns 0, and its successor is in range and not 0.      *)
LEMMA FollowingTidRange ==
    ASSUME TransportAssumption, NEW t \in 0..(TidMod - 1)
    PROVE  /\ CurrentTid(t) \in 1..(TidMod - 1)
           /\ FollowingTid(t) \in 1..(TidMod - 1)
           /\ FollowingTid(t) = IF CurrentTid(t) = TidMod - 1 THEN 1 ELSE CurrentTid(t) + 1
<1> DEFINE c == CurrentTid(t)
<1>1. c \in 1..(TidMod - 1)
  BY DEF CurrentTid, TransportAssumption
<1>2. CASE c = TidMod - 1
  <2>1. (c + 1) % TidMod = 0
    BY <1>2 DEF TransportAssumption
  <2> QED BY <1>1, <1>2, <2>1 DEF FollowingTid, TransportAssumption
<1>3. CASE c # TidMod - 1
  <2>1. c + 1 \in 1..(TidMod - 1)
    BY <1>1, <1>3 DEF TransportAssumption
  <2>2. (c + 1) % TidMod = c + 1
    BY <2>1 DEF TransportAssumption
  <2> QED BY <1>1, <1>3, <2>1, <2>2 DEF FollowingTid, TransportAssumption
<1> QED BY <1>1, <1>2, <1>3

(* One more call: every id moves one step further back.                    *)
LEMMA BackStep ==
    ASSUME TransportAssumption, NEW t \in 1..(TidMod - 1), NEW d \in 0..(TidMod - 3)
    PROVE  Back(FollowingTid(t), d + 1) = Back(t, d)
<1>1. FollowingTid(t) = IF t = TidMod - 1 THEN 1 ELSE t + 1
  BY FollowingTidRange DEF CurrentTid, TransportAssumption
<1> QED BY <1>1 DEF Back, TransportAssumption

(* Within one round of the ids, an equal id means the same call.           *)
LEMMA BackInjective ==
    ASSUME TransportAssumption, NEW t \in 1..(TidMod - 1), NEW d \in 0..(TidMod - 2),
           Back(t, d) = t
    PROVE  d = 0
BY DEF Back, TransportAssumption

-----------------------------------------------------------------------------
(* The initial values have their types.                                    *)
LEMMA InitType == TransportAssumption /\ Init => TypeOK
<1> SUFFICES ASSUME TransportAssumption, Init PROVE TypeOK
  OBVIOUS
<1>1. NoResult \in [kind : {"none", "ok", "TimedOut", "fatal"}, of : Nat]
  BY DEF NoResult
<1>2. <<>> \in Seq(Record) /\ Len(<<>>) = 0
  OBVIOUS
<1> QED BY <1>1, <1>2 DEF TransportAssumption, Init, TypeOK

(* So have the values that the end of an attempt assigns.                  *)
LEMMA AttemptOverType ==
    ASSUME TransportAssumption, TypeOK, AttemptOver,
           mad_timeouts' \in Nat, toClient' \in Seq(Record)
    PROVE  TypeOK'
<1>1. (current_timeout * 2) % U32 \in 0..(U32 - 1)
  BY DEF TypeOK, TransportAssumption
<1>2. [kind |-> "TimedOut", of |-> req] \in [kind : {"none", "ok", "TimedOut", "fatal"}, of : Nat]
  BY DEF TypeOK
<1> QED BY <1>1, <1>2, SMTT(30) DEF AttemptOver, TypeOK, TransportAssumption

(* Every step keeps the types; one case per action.                        *)
LEMMA TypeStep == TransportAssumption /\ TypeOK /\ [Next]_vars => TypeOK'
<1> SUFFICES ASSUME TransportAssumption, TypeOK, [Next]_vars
             PROVE  TypeOK'
  OBVIOUS
<1> USE DEF TypeOK, TransportAssumption
<1>1. CASE Begin
  <2>1. CurrentTid(tid) \in 1..(TidMod - 1) /\ FollowingTid(tid) \in 1..(TidMod - 1)
    BY FollowingTidRange
  <2>2. NoResult \in [kind : {"none", "ok", "TimedOut", "fatal"}, of : Nat]
    BY DEF NoResult
  <2> QED BY <1>1, <2>1, <2>2 DEF Begin, counters, wire
<1>2. CASE Send
  <2>1. Mad \in Record
    BY DEF Mad, Record
  <2> QED BY <1>2, <2>1 DEF Send
<1>3. CASE SendFails
  BY <1>3 DEF SendFails, wire
<1>4. CASE DeadlinePassed
  <2>1. AttemptOver /\ mad_timeouts' \in Nat /\ toClient' \in Seq(Record)
    BY <1>4 DEF DeadlinePassed
  <2> QED BY <2>1, AttemptOverType
<1>5. CASE PollTimedOut
  <2>1. AttemptOver /\ mad_timeouts' \in Nat /\ toClient' \in Seq(Record)
    BY <1>5 DEF PollTimedOut
  <2> QED BY <2>1, AttemptOverType
<1>6. CASE ShortRead
  <2>1. AttemptOver /\ mad_timeouts' \in Nat /\ toClient' \in Seq(Record)
    BY <1>6 DEF ShortRead
  <2> QED BY <2>1, AttemptOverType
<1>7. CASE MatchReply
  <2>1. Head(toClient) \in Record /\ Tail(toClient) \in Seq(Record)
    BY <1>7 DEF MatchReply
  <2>2. Head(toClient).req \in Nat
    BY <2>1 DEF Record
  <2> QED BY <1>7, <2>1, <2>2 DEF MatchReply, counters
<1>8. CASE DiscardReply
  BY <1>8 DEF DiscardReply, counters
<1>9. CASE RecvError
  BY <1>9 DEF RecvError, wire
<1>10. CASE SimRead
  BY <1>10 DEF SimRead, call, counters
<1>11. CASE SimReply
  BY <1>11 DEF SimReply, call, counters
<1>12. CASE SimDrop
  BY <1>12 DEF SimDrop, call, counters
<1>13. CASE KernelTimeout
  <2>1. Head(inSim) \in Record
    BY <1>13 DEF KernelTimeout
  <2>2. HeaderOf(Head(inSim)) \in Record
    BY <2>1 DEF HeaderOf, Record
  <2> QED BY <1>13, <2>2 DEF KernelTimeout, call, counters
<1>14. CASE UNCHANGED vars
  BY <1>14 DEF vars, call, counters, wire
<1> QED
  BY <1>1, <1>2, <1>3, <1>4, <1>5, <1>6, <1>7, <1>8, <1>9, <1>10, <1>11, <1>12,
     <1>13, <1>14 DEF Next, Client, Received, Responder

(* Every variable keeps its type.                                          *)
THEOREM TypeCorrect == Spec => []TypeOK
BY TransportAssumption, InitType, TypeStep, PTL DEF Spec

-----------------------------------------------------------------------------
(* The inductive invariant IInv: the initial state, then one lemma for     *)
(* each way a step changes the wire.                                       *)
LEMMA InvInit == Init => IInv
<1> SUFFICES ASSUME Init PROVE IInv
  OBVIOUS
<1>1. TypeOK
  BY InitType, TransportAssumption
<1>2. TidInv
  BY TransportAssumption DEF Init, TidInv
<1>3. WireInv
  BY DEF Init, WireInv, AllFresh, Sorted, Before
<1>4. ResultInv
  BY DEF Init, ResultInv, NoResult
<1> QED BY <1>1, <1>2, <1>3, <1>4 DEF IInv

(* A step that leaves the call's identity and the wire alone keeps the     *)
(* wire invariant.                                                         *)
LEMMA WireUnchanged ==
    ASSUME WireInv, UNCHANGED <<req, answered, expected_tid, wire>>
    PROVE  WireInv'
BY DEF WireInv, AllFresh, Sorted, Before, Fresh, wire

(* Reading the oldest record from toClient keeps the wire invariant.       *)
LEMMA WireTail ==
    ASSUME TypeOK, WireInv, toClient # <<>>, toClient' = Tail(toClient),
           UNCHANGED <<req, answered, expected_tid, inSim, toSim>>
    PROVE  WireInv'
<1>1. Len(toClient') = Len(toClient) - 1 /\ Len(toClient) \in Nat
  BY DEF TypeOK
<1>2. \A i \in 1..Len(toClient') : toClient'[i] = toClient[i + 1] /\ i + 1 \in 1..Len(toClient)
  BY <1>1 DEF TypeOK
<1>3. AllFresh(toClient)' /\ AllFresh(inSim)' /\ AllFresh(toSim)'
  BY <1>2 DEF WireInv, AllFresh, Fresh
<1>4. Sorted(toClient)' /\ Sorted(toSim)'
  BY <1>1, <1>2 DEF WireInv, Sorted
<1>5. Before(toClient, inSim)' /\ Before(toClient, toSim)' /\ Before(inSim, toSim)'
  BY <1>2 DEF WireInv, Before
<1> QED BY <1>3, <1>4, <1>5 DEF WireInv

(* A new record of the current call goes last, and is not older than any   *)
(* other.                                                                  *)
LEMMA WireSend ==
    ASSUME TypeOK, TidInv, WireInv, pc = "send", toSim' = Append(toSim, Mad),
           UNCHANGED <<req, answered, expected_tid, inSim, toClient>>
    PROVE  WireInv'
<1> DEFINE n == Len(toSim)
<1>1. n \in Nat /\ Len(toSim') = n + 1 /\ toSim'[n + 1] = Mad
      /\ \A i \in 1..n : toSim'[i] = toSim[i]
  BY DEF TypeOK
<1>2. Fresh(Mad)
  <2>1. req \in 1..req /\ answered <= req /\ req \in Nat /\ expected_tid >= 1 /\ req - req = 0
    BY DEF TypeOK, TidInv
  <2>2. expected_tid = Back(expected_tid, 0)
    BY <2>1 DEF Back, TypeOK
  <2> QED BY <2>1, <2>2 DEF Fresh, Mad
<1>3. AllFresh(toClient)' /\ AllFresh(inSim)' /\ AllFresh(toSim)'
  BY <1>1, <1>2 DEF WireInv, AllFresh, Fresh
<1>4. \A r : Fresh(r) => r.req <= Mad.req /\ r.req \in Nat
  BY DEF Fresh, Mad, TypeOK
<1>5. Sorted(toClient)' /\ Sorted(toSim)'
  BY <1>1, <1>2, <1>4 DEF WireInv, AllFresh, Sorted
<1>6. Before(toClient, inSim)' /\ Before(toClient, toSim)' /\ Before(inSim, toSim)'
  BY <1>1, <1>2, <1>4 DEF WireInv, AllFresh, Before
<1> QED BY <1>3, <1>5, <1>6 DEF WireInv

(* The responder takes over the oldest request.                            *)
LEMMA WireRead ==
    ASSUME TypeOK, WireInv, SimRead
    PROVE  WireInv'
<1>1. /\ inSim = <<>> /\ toSim # <<>> /\ inSim' = <<Head(toSim)>> /\ toSim' = Tail(toSim)
      /\ UNCHANGED <<req, answered, expected_tid, toClient>>
  BY DEF SimRead, call
<1>2. Len(toSim) \in Nat /\ 1 \in 1..Len(toSim) /\ Len(toSim') = Len(toSim) - 1
  BY <1>1 DEF TypeOK
<1>3. \A i \in 1..Len(toSim') : toSim'[i] = toSim[i + 1] /\ i + 1 \in 1..Len(toSim)
  BY <1>1, <1>2 DEF TypeOK
<1>4. Len(inSim') = 1 /\ inSim'[1] = toSim[1]
  BY <1>1 DEF TypeOK
<1>5. AllFresh(toClient)' /\ AllFresh(inSim)' /\ AllFresh(toSim)'
  BY <1>1, <1>2, <1>3, <1>4 DEF WireInv, AllFresh, Fresh
<1>6. Sorted(toClient)' /\ Sorted(toSim)'
  BY <1>1, <1>2, <1>3 DEF WireInv, Sorted
<1>7. Before(toClient, inSim)'
  BY <1>1, <1>2, <1>4 DEF WireInv, Before
<1>8. Before(toClient, toSim)'
  BY <1>1, <1>3 DEF WireInv, Before
<1>9. Before(inSim, toSim)'
  <2>1. \A i \in 1..Len(toSim') : toSim[1].req <= toSim[i + 1].req
    BY <1>2, <1>3 DEF WireInv, Sorted
  <2> QED BY <1>3, <1>4, <2>1 DEF Before
<1> QED BY <1>5, <1>6, <1>7, <1>8, <1>9 DEF WireInv

(* What the responder or the kernel says of a request goes behind          *)
(* everything said before.                                                 *)
LEMMA WireAnswer ==
    ASSUME TypeOK, WireInv, inSim # <<>>, inSim' = <<>>, NEW r,
           r.tid = Head(inSim).tid, r.req = Head(inSim).req,
           toClient' = Append(toClient, r),
           UNCHANGED <<req, answered, expected_tid, toSim>>
    PROVE  WireInv'
<1> DEFINE n == Len(toClient)
<1>1. n \in Nat /\ Len(toClient') = n + 1 /\ toClient'[n + 1] = r
      /\ \A i \in 1..n : toClient'[i] = toClient[i]
  BY DEF TypeOK
<1>2. 1 \in 1..Len(inSim) /\ Head(inSim) = inSim[1] /\ Len(inSim') = 0
  BY DEF TypeOK
<1>3. Fresh(r)
  BY <1>2 DEF WireInv, AllFresh, Fresh
<1>4. AllFresh(toClient)' /\ AllFresh(inSim)' /\ AllFresh(toSim)'
  BY <1>1, <1>2, <1>3 DEF WireInv, AllFresh, Fresh
<1>5. \A i \in 1..n : toClient[i].req <= r.req
  BY <1>2 DEF WireInv, Before
<1>6. \A j \in 1..Len(toSim) : r.req <= toSim[j].req
  BY <1>2 DEF WireInv, Before
<1>7. r.req <= r.req
  BY <1>3 DEF Fresh, TypeOK
<1>8. Sorted(toClient)' /\ Sorted(toSim)'
  BY <1>1, <1>5, <1>7 DEF WireInv, Sorted
<1>9. Before(toClient, inSim)' /\ Before(toClient, toSim)' /\ Before(inSim, toSim)'
  BY <1>1, <1>2, <1>6 DEF WireInv, Before
<1> QED BY <1>4, <1>8, <1>9 DEF WireInv

(* A request the responder drops leaves no trace.                          *)
LEMMA WireDrop ==
    ASSUME WireInv, inSim' = <<>>, UNCHANGED <<req, answered, expected_tid, toSim, toClient>>
    PROVE  WireInv'
<1>1. Len(inSim') = 0
  OBVIOUS
<1> QED BY <1>1 DEF WireInv, AllFresh, Sorted, Before, Fresh

(* A new call: every record under way is one call older, and its id one    *)
(* step further back.                                                      *)
LEMMA WireBegin ==
    ASSUME TypeOK, TidInv, WireInv, Begin
    PROVE  WireInv'
<1>1. /\ req' = req + 1 /\ expected_tid' = CurrentTid(tid) /\ req - answered < MaxStreak
      /\ UNCHANGED <<answered, toSim, inSim, toClient>>
  BY DEF Begin, wire
<1>2. ASSUME NEW r, Fresh(r)
      PROVE  Fresh(r)'
  <2>1. r.req \in 1..req /\ answered <= r.req /\ r.tid = Back(expected_tid, req - r.req)
    BY <1>2 DEF Fresh
  <2>2. req \in Nat /\ req > 0 /\ r.req \in Nat
    BY <2>1 DEF TypeOK
  <2>3. expected_tid \in 1..(TidMod - 1) /\ tid = FollowingTid(expected_tid)
    BY <2>2 DEF TypeOK, TidInv
  <2>4. FollowingTid(expected_tid) \in 1..(TidMod - 1)
    BY <2>3, FollowingTidRange, TransportAssumption
  <2>5. expected_tid' = FollowingTid(expected_tid)
    BY <1>1, <2>3, <2>4 DEF CurrentTid, TransportAssumption
  <2>6. req - r.req \in 0..(TidMod - 3)
    <3>1. MaxStreak \in Nat /\ MaxStreak <= TidMod - 2 /\ TidMod \in Nat /\ answered \in Nat
      BY TransportAssumption DEF TransportAssumption, TypeOK
    <3>2. req - answered < MaxStreak /\ answered <= r.req /\ r.req <= req
      BY <1>1, <2>1, <2>2
    <3> QED BY <2>2, <3>1, <3>2
  <2>7. Back(FollowingTid(expected_tid), (req - r.req) + 1) = Back(expected_tid, req - r.req)
    BY <2>3, <2>6, BackStep, TransportAssumption
  <2>8. req' - r.req = (req - r.req) + 1
    BY <1>1, <2>2
  <2>9. r.tid = Back(expected_tid', req' - r.req)
    BY <2>1, <2>5, <2>7, <2>8
  <2> QED BY <1>1, <2>1, <2>2, <2>9 DEF Fresh, Back
<1>3. AllFresh(toClient)' /\ AllFresh(inSim)' /\ AllFresh(toSim)'
  BY <1>1, <1>2 DEF WireInv, AllFresh
<1>4. Sorted(toClient)' /\ Sorted(toSim)'
  BY <1>1 DEF WireInv, Sorted
<1>5. Before(toClient, inSim)' /\ Before(toClient, toSim)' /\ Before(inSim, toSim)'
  BY <1>1 DEF WireInv, Before
<1> QED BY <1>3, <1>4, <1>5 DEF WireInv

(* An equal id means a reply to the current call; by the order of the pipe *)
(* all that is behind it belongs to the current call as well.              *)
LEMMA MatchIsOwn ==
    ASSUME TypeOK, TidInv, WireInv, MatchReply
    PROVE  /\ Head(toClient).req = req
           /\ WireInv'
<1>1. /\ pc # "idle" /\ toClient # <<>> /\ Head(toClient).tid = expected_tid
      /\ toClient' = Tail(toClient) /\ answered' = req
      /\ UNCHANGED <<req, expected_tid, inSim, toSim>>
  BY DEF MatchReply, IsTidEqual, Receiving, Waiting
<1>2. Len(toClient) \in Nat /\ 1 \in 1..Len(toClient) /\ Head(toClient) = toClient[1]
      /\ Len(toClient') = Len(toClient) - 1
      /\ \A i \in 1..Len(toClient') : toClient'[i] = toClient[i + 1] /\ i + 1 \in 1..Len(toClient)
  BY <1>1 DEF TypeOK
<1> DEFINE d == req - toClient[1].req
<1>3. Fresh(toClient[1])
  BY <1>2 DEF WireInv, AllFresh
<1>4. /\ req \in Nat /\ toClient[1].req \in 1..req /\ answered <= toClient[1].req
      /\ expected_tid = Back(expected_tid, d)
  BY <1>1, <1>2, <1>3 DEF Fresh, TypeOK
<1>5. expected_tid \in 1..(TidMod - 1)
  BY <1>1 DEF TidInv, TypeOK
<1>6. d \in 0..(TidMod - 2)
  <2>1. MaxStreak \in Nat /\ MaxStreak <= TidMod - 2 /\ TidMod \in Nat
        /\ answered \in Nat /\ req - answered <= MaxStreak
    BY TransportAssumption DEF TransportAssumption, TypeOK, TidInv
  <2> QED BY <1>4, <2>1
<1>7. d = 0
  <2> HIDE DEF d
  <2> QED BY <1>4, <1>5, <1>6, BackInjective, TransportAssumption
<1>8. toClient[1].req = req
  BY <1>4, <1>7
<1>9. /\ \A i \in 1..Len(toClient) : req <= toClient[i].req
      /\ \A i \in 1..Len(inSim) : req <= inSim[i].req
      /\ \A i \in 1..Len(toSim) : req <= toSim[i].req
  BY <1>2, <1>8 DEF WireInv, Sorted, Before
<1>10. AllFresh(toClient)' /\ AllFresh(inSim)' /\ AllFresh(toSim)'
  BY <1>1, <1>2, <1>9 DEF WireInv, AllFresh, Fresh
<1>11. Sorted(toClient)' /\ Sorted(toSim)'
  BY <1>1, <1>2 DEF WireInv, Sorted
<1>12. Before(toClient, inSim)' /\ Before(toClient, toSim)' /\ Before(inSim, toSim)'
  BY <1>1, <1>2 DEF WireInv, Before
<1> QED BY <1>2, <1>8, <1>10, <1>11, <1>12 DEF WireInv

-----------------------------------------------------------------------------
(* The conjuncts of IInv that an attempt's end leaves as they are.         *)
LEMMA AttemptOverInv ==
    ASSUME TypeOK, TidInv, ResultInv, AttemptOver, pc # "idle"
    PROVE  TidInv' /\ ResultInv'
<1>1. /\ UNCHANGED <<tid, req, answered, expected_tid>>
      /\ \/ result' = result
         \/ result'.kind = "TimedOut"
  BY DEF AttemptOver
<1>2. TidInv'
  BY <1>1 DEF TidInv, FollowingTid, CurrentTid
<1>3. result.kind # "ok"
  BY DEF ResultInv
<1> QED BY <1>1, <1>2, <1>3 DEF ResultInv

(* Every step keeps the invariant: one case per action, by the lemma on    *)
(* what it does to the wire.                                               *)
LEMMA InvStep == IInv /\ [Next]_vars => IInv'
<1> SUFFICES ASSUME IInv, [Next]_vars
             PROVE  IInv'
  OBVIOUS
<1> USE DEF IInv
<1>0. TypeOK'
  BY TypeStep, TransportAssumption
<1>1. CASE Begin
  <2>1. WireInv'
    BY <1>1, WireBegin
  <2>2. expected_tid' \in 1..(TidMod - 1) /\ tid' = FollowingTid(expected_tid')
    <3>1. CurrentTid(tid) \in 1..(TidMod - 1) /\ CurrentTid(CurrentTid(tid)) = CurrentTid(tid)
      BY FollowingTidRange, TransportAssumption DEF TypeOK, CurrentTid
    <3> QED BY <1>1, <3>1 DEF Begin, FollowingTid
  <2>3. TidInv'
    <3>1. FollowingTid(expected_tid)' = FollowingTid(expected_tid')
      BY DEF FollowingTid, CurrentTid
    <3>2. /\ req' = req + 1 /\ answered' = answered /\ pc' = "send"
          /\ req \in Nat /\ answered \in Nat /\ answered <= req
          /\ req - answered < MaxStreak /\ MaxStreak \in Nat
      BY <1>1, TransportAssumption DEF Begin, TypeOK, TidInv, TransportAssumption
    <3>3. answered' <= req' /\ req' - answered' <= MaxStreak /\ req' > 0
      BY <3>2
    <3> QED BY <2>2, <3>1, <3>3 DEF TidInv
  <2>4. ResultInv'
    BY <1>1 DEF Begin, ResultInv, NoResult
  <2> QED BY <1>0, <2>1, <2>3, <2>4
<1>2. CASE Send
  <2>1. WireInv'
    BY <1>2, WireSend DEF Send
  <2>2. TidInv' /\ ResultInv'
    BY <1>2 DEF Send, TidInv, ResultInv, FollowingTid, CurrentTid
  <2> QED BY <1>0, <2>1, <2>2
<1>3. CASE SendFails
  <2>1. WireInv'
    BY <1>3, WireUnchanged DEF SendFails, wire
  <2>2. TidInv' /\ ResultInv'
    BY <1>3 DEF SendFails, TidInv, ResultInv, FollowingTid, CurrentTid
  <2> QED BY <1>0, <2>1, <2>2
<1>4. CASE DeadlinePassed
  <2>1. AttemptOver /\ pc # "idle" /\ UNCHANGED toClient
    BY <1>4 DEF DeadlinePassed, Waiting
  <2>2. WireInv'
    BY <2>1, WireUnchanged DEF AttemptOver, wire
  <2> QED BY <1>0, <2>1, <2>2, AttemptOverInv
<1>5. CASE PollTimedOut
  <2>1. AttemptOver /\ pc # "idle" /\ UNCHANGED toClient
    BY <1>5 DEF PollTimedOut, Receiving, Waiting
  <2>2. WireInv'
    BY <2>1, WireUnchanged DEF AttemptOver, wire
  <2> QED BY <1>0, <2>1, <2>2, AttemptOverInv
<1>6. CASE ShortRead
  <2>1. AttemptOver /\ pc # "idle" /\ toClient # <<>> /\ toClient' = Tail(toClient)
    BY <1>6 DEF ShortRead, Receiving, Waiting
  <2>2. WireInv'
    BY <2>1, WireTail DEF AttemptOver
  <2> QED BY <1>0, <2>1, <2>2, AttemptOverInv
<1>7. CASE MatchReply
  <2>1. WireInv' /\ Head(toClient).req = req
    BY <1>7, MatchIsOwn
  <2>2. req \in Nat /\ req > 0 /\ MaxStreak \in Nat
    BY <1>7, TransportAssumption DEF MatchReply, Receiving, Waiting, TidInv, TypeOK, TransportAssumption
  <2>3. TidInv'
    BY <1>7, <2>2 DEF MatchReply, TidInv, FollowingTid, CurrentTid
  <2>4. ResultInv'
    BY <1>7, <2>1 DEF MatchReply, ResultInv
  <2> QED BY <1>0, <2>1, <2>3, <2>4
<1>8. CASE DiscardReply
  <2>1. WireInv'
    BY <1>8, WireTail DEF DiscardReply
  <2>2. TidInv' /\ ResultInv'
    BY <1>8 DEF DiscardReply, Receiving, Waiting, TidInv, ResultInv, FollowingTid, CurrentTid
  <2> QED BY <1>0, <2>1, <2>2
<1>9. CASE RecvError
  <2>1. WireInv'
    BY <1>9, WireUnchanged DEF RecvError, wire
  <2>2. TidInv' /\ ResultInv'
    BY <1>9 DEF RecvError, Receiving, Waiting, TidInv, ResultInv, FollowingTid, CurrentTid
  <2> QED BY <1>0, <2>1, <2>2
<1>10. CASE Responder
  <2>1. TidInv' /\ ResultInv'
    BY <1>10 DEF Responder, SimRead, SimReply, SimDrop, KernelTimeout, call, TidInv, ResultInv,
                 FollowingTid, CurrentTid
  <2>2. CASE SimRead
    BY <1>0, <2>1, <2>2, WireRead
  <2>3. CASE SimReply
    BY <1>0, <2>1, <2>3, WireAnswer DEF SimReply, call
  <2>4. CASE SimDrop
    BY <1>0, <2>1, <2>4, WireDrop DEF SimDrop, call
  <2>5. CASE KernelTimeout
    <3>1. HeaderOf(Head(inSim)).tid = Head(inSim).tid /\ HeaderOf(Head(inSim)).req = Head(inSim).req
      BY DEF HeaderOf
    <3>2. WireInv'
      BY <2>5, <3>1, WireAnswer DEF KernelTimeout, call
    <3> QED BY <1>0, <2>1, <3>2
  <2> QED BY <1>10, <2>2, <2>3, <2>4, <2>5 DEF Responder
<1>11. CASE UNCHANGED vars
  <2>1. WireInv'
    BY <1>11, WireUnchanged DEF vars, call, wire
  <2>2. TidInv' /\ ResultInv'
    BY <1>11 DEF vars, call, TidInv, ResultInv, FollowingTid, CurrentTid
  <2> QED BY <1>0, <2>1, <2>2
<1> QED
  BY <1>1, <1>2, <1>3, <1>4, <1>5, <1>6, <1>7, <1>8, <1>9, <1>10, <1>11
  DEF Next, Client, Received

(* A successful call returns the reply to its own request, in sessions of  *)
(* any length and whatever the first id: it is enough that no TidMod - 1   *)
(* calls in a row go unanswered.                                           *)
THEOREM OwnReply == Spec => []AcceptedReplyIsOwn
<1>1. IInv => AcceptedReplyIsOwn
  BY DEF IInv, ResultInv, AcceptedReplyIsOwn
<1> QED BY <1>1, InvInit, InvStep, PTL DEF Spec

(* What is in a concatenation is in one of its parts.                      *)
LEMMA ConcatElement ==
    ASSUME NEW S, NEW s \in Seq(S), NEW t \in Seq(S), NEW i \in 1..Len(s \o t)
    PROVE  \/ \E k \in 1..Len(s) : (s \o t)[i] = s[k]
           \/ \E k \in 1..Len(t) : (s \o t)[i] = t[k]
<1>1. CASE i <= Len(s)
  <2>1. i \in 1..Len(s) /\ (s \o t)[i] = s[i]
    BY <1>1
  <2> QED BY <2>1
<1>2. CASE i > Len(s)
  <2>1. i - Len(s) \in 1..Len(t) /\ (s \o t)[i] = t[i - Len(s)]
    BY <1>2
  <2> QED BY <2>1
<1> QED BY <1>1, <1>2

(* After a success only copies of the call's own records are in the pipe.  *)
THEOREM StaleRepliesDrained == Spec => []DrainedOnSuccess
<1>1. IInv => DrainedOnSuccess
  <2> SUFFICES ASSUME IInv, pc = "idle", result.kind = "ok",
                      NEW i \in DOMAIN Pipe
               PROVE  Pipe[i].req = req
    BY DEF DrainedOnSuccess
  <2>1. answered = req /\ req \in Nat
    BY DEF IInv, ResultInv, TypeOK
  <2>2. \A r : Fresh(r) => r.req = req
    BY <2>1 DEF Fresh
  <2>3. \/ \E k \in 1..Len(toClient) : Pipe[i] = toClient[k]
        \/ \E k \in 1..Len(inSim) : Pipe[i] = inSim[k]
        \/ \E k \in 1..Len(toSim) : Pipe[i] = toSim[k]
    <3> DEFINE front == toClient \o inSim
    <3>1. toClient \in Seq(Record) /\ inSim \in Seq(Record) /\ toSim \in Seq(Record)
      BY DEF IInv, TypeOK
    <3>2. front \in Seq(Record) /\ Pipe = front \o toSim
      BY <3>1 DEF Pipe
    <3>3. i \in 1..Len(front \o toSim)
      BY <3>1, <3>2
    <3>4. \/ \E k \in 1..Len(front) : (front \o toSim)[i] = front[k]
          \/ \E k \in 1..Len(toSim) : (front \o toSim)[i] = toSim[k]
      <4> HIDE DEF front
      <4>1. front \in Seq(Record) /\ toSim \in Seq(Record)
        BY <3>1, <3>2
      <4> QED BY <4>1, <3>3, ConcatElement, SMTT(30)
    <3>5. \A k \in 1..Len(front) : \/ \E m \in 1..Len(toClient) : front[k] = toClient[m]
                                   \/ \E m \in 1..Len(inSim) : front[k] = inSim[m]
      BY <3>1, ConcatElement
    <3> QED BY <3>2, <3>4, <3>5
  <2> QED BY <2>2, <2>3 DEF IInv, WireInv, AllFresh
<1> QED BY <1>1, InvInit, InvStep, PTL DEF Spec

-----------------------------------------------------------------------------
(* MadTransport implements Rpc, safety: the initial state maps to the      *)
(* initial state, Begin to Invoke, the three ways a call ends to Return,   *)
(* and every other step to a stutter.                                      *)
LEMMA PromiseStep == IInv /\ [Next]_vars => [Promise!RpcNext]_(Promise!rpcVars)
<1> SUFFICES ASSUME IInv, [Next]_vars
             PROVE  Promise!RpcNext \/ UNCHANGED <<req, pc # "idle", result>>
  BY DEF Promise!rpcVars
<1> USE DEF Promise!RpcNext, Promise!Return
<1>1. CASE Begin
  BY <1>1 DEF Begin, Promise!Invoke, NoResult, Promise!NoResult
<1>2. CASE SendFails
  BY <1>2 DEF SendFails, Promise!ReturnError, Promise!Error, Promise!Errors
<1>3. CASE AttemptOver /\ pc # "idle"
  <2>1. CASE pc' = "idle"
    <3>1. result' = [kind |-> "TimedOut", of |-> req] /\ req' = req
      BY <1>3, <2>1 DEF AttemptOver
    <3> QED BY <1>3, <2>1, <3>1 DEF Promise!ReturnError, Promise!Error, Promise!Errors
  <2>2. CASE pc' # "idle"
    <3>1. result' = result /\ req' = req
      BY <1>3, <2>2 DEF AttemptOver
    <3> QED BY <1>3, <2>2, <3>1
  <2> QED BY <2>1, <2>2
<1>4. CASE MatchReply
  <2>1. Head(toClient).req = req
    BY <1>4, MatchIsOwn DEF IInv
  <2> QED BY <1>4, <2>1 DEF MatchReply, Receiving, Waiting, Promise!ReturnAnswer, Promise!Answer
<1>5. CASE Send \/ DiscardReply \/ RecvError
  <2>1. pc # "idle" /\ pc' # "idle" /\ req' = req /\ result' = result
    BY <1>5 DEF Send, DiscardReply, RecvError, Receiving, Waiting
  <2> QED BY <2>1
<1>6. CASE Responder \/ UNCHANGED vars
  <2>1. UNCHANGED <<pc, req, result>>
    BY <1>6 DEF Responder, SimRead, SimReply, SimDrop, KernelTimeout, call, vars
  <2> QED BY <2>1
<1>7. DeadlinePassed \/ PollTimedOut \/ ShortRead => AttemptOver /\ pc # "idle"
  BY DEF DeadlinePassed, PollTimedOut, ShortRead, Receiving, Waiting
<1> QED
  BY <1>1, <1>2, <1>3, <1>4, <1>5, <1>6, <1>7 DEF Next, Client, Received

(* A call returns the reply to its own request or an error, once, and the  *)
(* next one does not start before that.                                    *)
THEOREM ImplementsRpc == Spec => KeepsPromise
<1>1. Init => Promise!RpcInit
  BY DEF Init, Promise!RpcInit, NoResult, Promise!NoResult
<1> QED
  BY <1>1, InvInit, InvStep, PromiseStep, PTL
  DEF Spec, KeepsPromise, Promise!RpcSafety

-----------------------------------------------------------------------------
(* The number of records under way.  An attempt adds one and, when it      *)
(* polls before its deadline, takes one away unless toClient is empty; an  *)
(* attempt that only met a receive error may add one for good.             *)
Load == Len(toClient) + Len(inSim) + Len(toSim)
Slack == (IF mad_errors < MaxErrors THEN mad_errors ELSE MaxErrors) + (IF pc = "wait" THEN 1 ELSE 0)

LoadInv ==
    /\ current_timeout > 0
    /\ Len(toSim) <= Capacity
    /\ Load <= Capacity + 1 + Slack

(* The conditions under which the two sides never block each other: each   *)
(* attempt polls, no window is zero, and the receive errors are fewer than *)
(* the records one direction holds.                                        *)
Attentive == Prompt /\ OverflowChecks /\ 0 \notin Timeouts /\ MaxErrors < Capacity

(* The arithmetic facts about lengths that the cases below use.            *)
LEMMA LengthTypes ==
    ASSUME TypeOK
    PROVE  /\ Len(toClient) \in Nat /\ Len(inSim) \in Nat /\ Len(toSim) \in Nat
           /\ Len(inSim) <= 1 /\ Capacity \in Nat /\ MaxErrors \in Nat
           /\ mad_errors \in Nat /\ current_timeout \in Nat
BY TransportAssumption DEF TypeOK, TransportAssumption

(* The responder works on one record at a time.                            *)
LEMMA Occupied ==
    ASSUME TypeOK, inSim # <<>>
    PROVE  Len(inSim) = 1
<1>1. inSim \in Seq(Record) /\ Len(inSim) <= 1
  BY DEF TypeOK
<1>2. Len(inSim) \in Nat \ {0}
  BY <1>1, EmptySeq, Zenon
<1>3. \A n \in Nat \ {0} : n <= 1 => n = 1
  OBVIOUS
<1> QED BY <1>1, <1>2, <1>3, Zenon

(* Nothing is under way at the start.                                      *)
LEMMA LoadInit ==
    ASSUME Attentive, Init
    PROVE  LoadInv
<1>1. TypeOK
  BY InitType, TransportAssumption
<1>2. Len(toClient) = 0 /\ Len(inSim) = 0 /\ Len(toSim) = 0
      /\ mad_errors = 0 /\ pc = "idle"
  BY DEF Init
<1>3. current_timeout \in 0..(U32 - 1) /\ current_timeout # 0 /\ U32 \in Nat
  BY TransportAssumption DEF Init, Attentive, TransportAssumption
<1> QED BY <1>1, <1>2, <1>3, LengthTypes DEF LoadInv, Load, Slack, Attentive

(* An attempt ends after a poll: something has been read, there was        *)
(* nothing to read, or an error has used up some of the slack.             *)
LEMMA AttemptOverLoad ==
    ASSUME TypeOK, Attentive, LoadInv, AttemptOver,
           Len(toClient') \in Nat, Len(toClient') <= Len(toClient),
           \/ pc = "polled"
           \/ Len(toClient') < Len(toClient)
           \/ Len(toClient) = 0
    PROVE  LoadInv'
<1>1. UNCHANGED <<mad_errors, inSim, toSim>> /\ pc' # "wait"
  BY DEF AttemptOver
<1>2. current_timeout' > 0
  <2>1. CASE current_timeout * 2 >= U32
    BY <2>1 DEF AttemptOver, Attentive, LoadInv
  <2>2. CASE ~(current_timeout * 2 >= U32)
    <3>1. current_timeout' = (current_timeout * 2) % U32
      BY <2>2 DEF AttemptOver
    <3>2. (current_timeout * 2) % U32 = current_timeout * 2
      BY <2>2, LengthTypes, TransportAssumption DEF TransportAssumption
    <3> QED BY <3>1, <3>2, LengthTypes DEF LoadInv
  <2> QED BY <2>1, <2>2
<1>3. Slack' = IF mad_errors < MaxErrors THEN mad_errors ELSE MaxErrors
  BY <1>1, LengthTypes DEF Slack
<1> QED BY <1>1, <1>2, <1>3, LengthTypes, SMTT(30) DEF LoadInv, Load, Slack

(* Every step keeps the load within what the two directions hold; one case *)
(* per action.                                                             *)
LEMMA LoadStep ==
    ASSUME TypeOK, Attentive, LoadInv, [Next]_vars
    PROVE  LoadInv'
<1> USE LengthTypes
<1>1. CASE Begin
  <2>1. current_timeout' > 0
    BY <1>1, TransportAssumption DEF Begin, Attentive, TransportAssumption
  <2> QED BY <1>1, <2>1 DEF Begin, LoadInv, Load, Slack, wire, counters
<1>2. CASE Send
  <2>1. Len(toSim') = Len(toSim) + 1
    BY <1>2 DEF Send, TypeOK
  <2> QED BY <1>2, <2>1, SMTT(30) DEF Send, LoadInv, Load, Slack
<1>3. CASE SendFails
  BY <1>3 DEF SendFails, LoadInv, Load, Slack, wire
<1>4. CASE DeadlinePassed
  <2>1. AttemptOver /\ pc = "polled" /\ toClient' = toClient
    BY <1>4 DEF DeadlinePassed, Attentive, LoadInv
  <2> QED BY <2>1, AttemptOverLoad
<1>5. CASE PollTimedOut
  <2>1. AttemptOver /\ Len(toClient) = 0 /\ toClient' = toClient
    BY <1>5 DEF PollTimedOut
  <2> QED BY <2>1, AttemptOverLoad
<1>6. CASE ShortRead
  <2>1. AttemptOver /\ Len(toClient') = Len(toClient) - 1 /\ Len(toClient') \in Nat
    BY <1>6 DEF ShortRead, TypeOK
  <2> QED BY <2>1, AttemptOverLoad
<1>7. CASE MatchReply
  <2>1. Len(toClient') = Len(toClient) - 1
    BY <1>7 DEF MatchReply, TypeOK
  <2> QED BY <1>7, <2>1, SMTT(30) DEF MatchReply, LoadInv, Load, Slack, counters
<1>8. CASE DiscardReply
  <2>1. Len(toClient') = Len(toClient) - 1
    BY <1>8 DEF DiscardReply, TypeOK
  <2> QED BY <1>8, <2>1, SMTT(30) DEF DiscardReply, LoadInv, Load, Slack, counters
<1>9. CASE RecvError
  BY <1>9 DEF RecvError, LoadInv, Load, Slack, wire
<1>10. CASE SimRead
  <2>1. Len(inSim) = 0 /\ Len(inSim') = 1 /\ Len(toSim') = Len(toSim) - 1
    BY <1>10 DEF SimRead, TypeOK
  <2> QED BY <1>10, <2>1 DEF SimRead, LoadInv, Load, Slack, call, counters
<1>11. CASE SimReply \/ KernelTimeout
  <2>1. Len(inSim) = 1 /\ Len(inSim') = 0
    BY <1>11, Occupied DEF SimReply, KernelTimeout
  <2>2. Len(toClient') = Len(toClient) + 1
    BY <1>11 DEF SimReply, KernelTimeout, TypeOK
  <2> QED BY <1>11, <2>1, <2>2 DEF SimReply, KernelTimeout, LoadInv, Load, Slack, call, counters
<1>12. CASE SimDrop
  <2>1. Len(inSim') = 0
    BY <1>12 DEF SimDrop
  <2> QED BY <1>12, <2>1 DEF SimDrop, LoadInv, Load, Slack, call, counters
<1>13. CASE UNCHANGED vars
  BY <1>13 DEF vars, call, counters, wire, LoadInv, Load, Slack
<1> QED
  BY <1>1, <1>2, <1>3, <1>4, <1>5, <1>6, <1>7, <1>8, <1>9, <1>10, <1>11, <1>12, <1>13
  DEF Next, Client, Received, Responder

(* A caller whose attempts poll before their deadlines pass never ends up  *)
(* blocked in a write while the responder is blocked in another.           *)
THEOREM NoDeadlyEmbrace == Attentive => (Spec => []NoCircularWait)
<1>1. Attentive /\ TypeOK /\ LoadInv => NoCircularWait
  <2> SUFFICES ASSUME Attentive, TypeOK, LoadInv, pc = "send", inSim # <<>>,
                      Len(toSim) = Capacity, Len(toClient) = Capacity
               PROVE  FALSE
    BY DEF NoCircularWait
  <2>1. Len(inSim) = 1
    BY Occupied
  <2> QED BY <2>1, LengthTypes DEF LoadInv, Load, Slack, Attentive
<1>2. Attentive /\ Init => TypeOK /\ LoadInv
  BY LoadInit, InitType, TransportAssumption
<1>3. Attentive /\ TypeOK /\ LoadInv /\ [Next]_vars => TypeOK' /\ LoadInv'
  BY LoadStep, TypeStep, TransportAssumption
<1>4. Attentive => Attentive'
  BY DEF Attentive
<1> QED BY <1>1, <1>2, <1>3, <1>4, PTL DEF Spec

-----------------------------------------------------------------------------
(* CountersAddUp is not inductive: it needs that a call which is about to  *)
(* send for the first time has not been counted.                           *)
CountInv ==
    /\ CountersAddUp
    /\ pc = "send" /\ attempt = 0 => mads_sent < req

(* One case for each way a step moves the counters, the call or its pc.    *)
LEMMA CountStep ==
    ASSUME TypeOK, TidInv, CountInv, [Next]_vars
    PROVE  CountInv'
<1> USE DEF TypeOK, CountInv, CountersAddUp
<1>1. CASE Begin
  BY <1>1 DEF Begin, counters
<1>2. CASE Send
  BY <1>2 DEF Send
<1>3. CASE SendFails
  BY <1>3 DEF SendFails
<1>4. CASE DeadlinePassed \/ PollTimedOut \/ ShortRead
  <2>1. AttemptOver /\ pc # "send"
    BY <1>4 DEF DeadlinePassed, PollTimedOut, ShortRead, Receiving, Waiting
  <2>2. Retries \in Nat
    BY TransportAssumption DEF TransportAssumption
  <2>3. UNCHANGED <<mads_sent, mad_errors, req>>
    BY <2>1 DEF AttemptOver
  <2>4. pc' = "send" => attempt' # 0
    BY <2>1, <2>2 DEF AttemptOver
  <2> QED BY <2>1, <2>3, <2>4
<1>5. CASE MatchReply
  BY <1>5 DEF MatchReply, Receiving, Waiting, counters
<1>6. CASE DiscardReply
  BY <1>6 DEF DiscardReply, Receiving, Waiting, counters
<1>7. CASE RecvError
  BY <1>7 DEF RecvError, Receiving, Waiting
<1>8. CASE Responder
  BY <1>8 DEF Responder, SimRead, SimReply, SimDrop, KernelTimeout, call, counters
<1>9. CASE UNCHANGED vars
  BY <1>9 DEF vars, call, counters
<1> QED
  BY <1>1, <1>2, <1>3, <1>4, <1>5, <1>6, <1>7, <1>8, <1>9 DEF Next, Client, Received

(* However many attempts a call makes, it is counted once, in mads_sent or *)
(* in mad_errors.                                                          *)
THEOREM EveryCallCounted == Spec => []CountersAddUp
<1>1. Init => CountInv
  BY DEF Init, CountInv, CountersAddUp
<1>2. IInv /\ CountInv /\ [Next]_vars => CountInv'
  BY CountStep DEF IInv
<1>3. CountInv => CountersAddUp
  BY DEF CountInv
<1> QED BY <1>1, <1>2, <1>3, InvInit, InvStep, PTL DEF Spec

-----------------------------------------------------------------------------
(* Copies of a record.  What a queue holds of a call, counted by position. *)
At(s, k) == {i \in DOMAIN s : s[i].req = k}
Count(s, k) == Cardinality(At(s, k))

(* Copies in a sequence can be counted.                                    *)
LEMMA CountFinite ==
    ASSUME NEW S, NEW s \in Seq(S), NEW k
    PROVE  IsFiniteSet(At(s, k)) /\ Count(s, k) \in Nat
<1>1. DOMAIN s = 1..Len(s) /\ Len(s) \in Nat
  OBVIOUS
<1>2. IsFiniteSet(DOMAIN s)
  BY <1>1, FS_Interval
<1>3. At(s, k) \in SUBSET DOMAIN s
  BY DEF At
<1>4. IsFiniteSet(At(s, k))
  BY <1>2, <1>3, FS_Subset
<1> QED BY <1>4, FS_CardinalityType DEF Count

(* The copies in a concatenation are those in its two parts.               *)
LEMMA CountConcat ==
    ASSUME NEW S, NEW s \in Seq(S), NEW t \in Seq(S), NEW k
    PROVE  Count(s \o t, k) = Count(s, k) + Count(t, k)
<1> DEFINE n == Len(s)
           A == At(s, k)
           B == At(t, k)
           shift == [i \in B |-> i + n]
           C == {i \in DOMAIN (s \o t) : i > n /\ (s \o t)[i].req = k}
<1>1. /\ n \in Nat /\ DOMAIN s = 1..n /\ DOMAIN t = 1..Len(t) /\ Len(t) \in Nat
      /\ DOMAIN (s \o t) = 1..(n + Len(t))
      /\ \A i \in 1..n : (s \o t)[i] = s[i]
      /\ \A i \in 1..Len(t) : (s \o t)[i + n] = t[i]
  OBVIOUS
<1>2. At(s \o t, k) = A \cup C /\ A \cap C = {}
  BY <1>1 DEF At
<1>3. B \subseteq 1..Len(t)
  BY <1>1 DEF At
<1>4. shift \in [B -> C] /\ \A a, b \in B : shift[a] = shift[b] => a = b
  BY <1>1, <1>3 DEF At
<1>5. \A c \in C : \E b \in B : shift[b] = c
  <2> TAKE c \in C
  <2>1. c - n \in 1..Len(t) /\ (c - n) + n = c
    BY <1>1
  <2>2. c - n \in B
    BY <1>1, <2>1 DEF At
  <2> WITNESS c - n \in B
  <2> QED BY <2>1, <2>2
<1> HIDE DEF C, B, shift
<1>6. shift \in Bijection(B, C)
  BY <1>4, <1>5, Fun_IsBij
<1>7. ExistsBijection(B, C)
  BY <1>6, Fun_ExistsBij
<1>8. IsFiniteSet(A) /\ IsFiniteSet(B) /\ Cardinality(A) \in Nat /\ Cardinality(B) \in Nat
  BY CountFinite DEF B, Count
<1>9. IsFiniteSet(C) /\ Cardinality(C) = Cardinality(B)
  BY <1>7, <1>8, FS_Bijection
<1>10. Cardinality(A \cup C) = Cardinality(A) + Cardinality(C) - Cardinality(A \cap C)
  <2> HIDE DEF A
  <2> QED BY <1>8, <1>9, FS_Union
<1>11. Cardinality(A \cap C) = 0
  BY <1>2, FS_EmptySet
<1>12. Cardinality(A \cup C) = Cardinality(A) + Cardinality(B)
  <2> HIDE DEF A
  <2> QED BY <1>8, <1>9, <1>10, <1>11
<1> QED BY <1>2, <1>12 DEF Count, B

(* A sequence of one record.                                               *)
LEMMA CountOne ==
    ASSUME NEW r, NEW k PROVE Count(<<r>>, k) = IF r.req = k THEN 1 ELSE 0
<1>1. DOMAIN <<r>> = {1} /\ <<r>>[1] = r
  OBVIOUS
<1>2. CASE r.req = k
  <2>1. At(<<r>>, k) = {1}
    BY <1>1, <1>2 DEF At
  <2> QED BY <1>2, <2>1, FS_Singleton DEF Count
<1>3. CASE r.req # k
  <2>1. At(<<r>>, k) = {}
    BY <1>1, <1>3 DEF At
  <2> QED BY <1>3, <2>1, FS_EmptySet DEF Count
<1> QED BY <1>2, <1>3

(* Adding a record at the end, and taking one from the front.              *)
LEMMA CountAppend ==
    ASSUME NEW S, NEW s \in Seq(S), NEW r \in S, NEW k
    PROVE  Count(Append(s, r), k) = Count(s, k) + (IF r.req = k THEN 1 ELSE 0)
<1>1. Append(s, r) = s \o <<r>> /\ <<r>> \in Seq(S)
  OBVIOUS
<1>2. Count(s \o <<r>>, k) = Count(s, k) + Count(<<r>>, k)
  BY <1>1, CountConcat
<1> QED BY <1>1, <1>2, CountOne

(* Taking the first record takes one copy at most.                         *)
LEMMA CountTail ==
    ASSUME NEW S, NEW s \in Seq(S), s # <<>>, NEW k
    PROVE  Count(s, k) = (IF Head(s).req = k THEN 1 ELSE 0) + Count(Tail(s), k)
<1> DEFINE first == <<Head(s)>>
           rest == Tail(s)
<1>1. first \in Seq(S) /\ rest \in Seq(S) /\ s = first \o rest
  OBVIOUS
<1> HIDE DEF rest
<1>2. Count(first, k) = IF Head(s).req = k THEN 1 ELSE 0
  BY CountOne
<1> HIDE DEF first
<1>3. Count(first \o rest, k) = Count(first, k) + Count(rest, k)
  BY <1>1, CountConcat
<1> QED BY <1>1, <1>2, <1>3 DEF rest

(* No record, no copy.                                                     *)
LEMMA CountEmpty == \A k : Count(<<>>, k) = 0
<1>1. \A k : At(<<>>, k) = {}
  BY DEF At
<1> QED BY <1>1, FS_EmptySet DEF Count

(* The copies of a request under way are those in each of the three        *)
(* places.                                                                 *)
LEMMA CopiesSum ==
    ASSUME TypeOK, NEW k
    PROVE  /\ Copies(k) = Count(toClient, k) + Count(inSim, k) + Count(toSim, k)
           /\ Count(toClient, k) \in Nat /\ Count(inSim, k) \in Nat /\ Count(toSim, k) \in Nat
<1> DEFINE front == toClient \o inSim
<1>1. toClient \in Seq(Record) /\ inSim \in Seq(Record) /\ toSim \in Seq(Record)
  BY DEF TypeOK
<1>2. front \in Seq(Record) /\ Count(front, k) = Count(toClient, k) + Count(inSim, k)
  BY <1>1, CountConcat
<1> HIDE DEF front
<1>3. Count(front \o toSim, k) = Count(front, k) + Count(toSim, k)
  BY <1>1, <1>2, CountConcat
<1>4. Copies(k) = Count(front \o toSim, k)
  BY DEF Copies, Count, At, Pipe, front
<1> QED BY <1>1, <1>2, <1>3, <1>4, CountFinite

(* Only Send adds a copy: the responder passes records on or drops them.   *)
LEMMA CopiesStep ==
    ASSUME TypeOK, TypeOK', [Next]_vars, NEW k
    PROVE  /\ Copies(k) \in Nat /\ Copies(k)' \in Nat
           /\ \/ Copies(k)' <= Copies(k)
              \/ Send /\ Copies(k)' = Copies(k) + (IF req = k THEN 1 ELSE 0)
<1>0. /\ Copies(k) = Count(toClient, k) + Count(inSim, k) + Count(toSim, k)
      /\ Count(toClient, k) \in Nat /\ Count(inSim, k) \in Nat /\ Count(toSim, k) \in Nat
      /\ toClient \in Seq(Record) /\ inSim \in Seq(Record) /\ toSim \in Seq(Record)
      /\ toClient' \in Seq(Record) /\ inSim' \in Seq(Record) /\ toSim' \in Seq(Record)
  BY CopiesSum DEF TypeOK
<1>1. Copies(k)' = Count(toClient', k) + Count(inSim', k) + Count(toSim', k)
  <2> DEFINE front == toClient' \o inSim'
  <2>1. front \in Seq(Record) /\ Count(front, k) = Count(toClient', k) + Count(inSim', k)
    BY <1>0, CountConcat
  <2> HIDE DEF front
  <2>2. Count(front \o toSim', k) = Count(front, k) + Count(toSim', k)
    BY <1>0, <2>1, CountConcat
  <2>3. Copies(k)' = Count(front \o toSim', k)
    BY DEF Copies, Count, At, Pipe, front
  <2> QED BY <2>1, <2>2, <2>3
<1>2. Copies(k) \in Nat /\ Copies(k)' \in Nat
  <2>1. \A q \in Seq(Record) : Count(q, k) \in Nat
    BY CountFinite
  <2> QED BY <1>0, <1>1, <2>1, SMTT(30)
<1>3. CASE UNCHANGED wire
  BY <1>0, <1>2, <1>1, <1>3 DEF wire
<1>4. CASE Send
  <2>1. toSim' = Append(toSim, Mad) /\ UNCHANGED <<inSim, toClient>> /\ Mad.req = req
    BY <1>4 DEF Send, Mad
  <2>2. Mad \in Record
    BY DEF Mad, Record, TypeOK
  <2>3. Count(toSim', k) = Count(toSim, k) + (IF req = k THEN 1 ELSE 0)
    BY <1>0, <2>1, <2>2, CountAppend
  <2> QED BY <1>0, <1>2, <1>1, <1>4, <2>1, <2>3
<1>5. CASE toClient # <<>> /\ toClient' = Tail(toClient) /\ UNCHANGED <<inSim, toSim>>
  <2>1. Count(toClient, k) = (IF Head(toClient).req = k THEN 1 ELSE 0) + Count(Tail(toClient), k)
    BY <1>0, <1>5, CountTail
  <2>2. Count(Tail(toClient), k) \in Nat
    BY <1>0, <1>5, CountFinite
  <2> QED BY <1>0, <1>2, <1>1, <1>5, <2>1, <2>2, SMTT(30)
<1>6. CASE SimRead
  <2>1. /\ inSim = <<>> /\ toSim # <<>> /\ inSim' = <<Head(toSim)>> /\ toSim' = Tail(toSim)
        /\ toClient' = toClient
    BY <1>6 DEF SimRead
  <2>2. Count(toSim, k) = (IF Head(toSim).req = k THEN 1 ELSE 0) + Count(Tail(toSim), k)
    BY <1>0, <2>1, CountTail
  <2>3. Count(inSim', k) = IF Head(toSim).req = k THEN 1 ELSE 0
    BY <2>1, CountOne
  <2>4. Count(Tail(toSim), k) \in Nat /\ Count(inSim, k) = 0
    BY <1>0, <2>1, CountFinite, CountEmpty
  <2> QED BY <1>0, <1>2, <1>1, <2>1, <2>2, <2>3, <2>4
<1>7. CASE inSim # <<>> /\ inSim' = <<>> /\ UNCHANGED toSim
  <2>1. Count(inSim', k) = 0
    BY <1>7, CountEmpty
  <2>2. Count(inSim, k) = (IF Head(inSim).req = k THEN 1 ELSE 0) + Count(Tail(inSim), k)
    BY <1>0, <1>7, CountTail
  <2>3. Count(Tail(inSim), k) \in Nat
    <3>1. Tail(inSim) \in Seq(Record)
      BY <1>0, <1>7
    <3> QED BY <3>1, CountFinite
  <2>4. CASE UNCHANGED toClient
    BY <1>0, <1>2, <1>1, <1>7, <2>1, <2>4
  <2>5. CASE \E r \in Record : r.req = Head(inSim).req /\ toClient' = Append(toClient, r)
    <3>1. PICK r \in Record : r.req = Head(inSim).req /\ toClient' = Append(toClient, r)
      BY <2>5
    <3>2. Count(toClient', k) = Count(toClient, k) + (IF Head(inSim).req = k THEN 1 ELSE 0)
      BY <1>0, <3>1, CountAppend
    <3> QED BY <1>0, <1>2, <1>1, <1>7, <2>1, <2>2, <2>3, <3>2, SMTT(30)
  <2>6. UNCHANGED toClient \/ \E r \in Record : r.req = Head(inSim).req /\ toClient' = Append(toClient, r)
    <3>1. SimReply \/ SimDrop \/ KernelTimeout \/ UNCHANGED toClient
      <4>1. inSim' # inSim
        BY <1>7
      <4> QED BY <4>1 DEF Next, Client, Responder, Received, Begin, Send, SendFails, DeadlinePassed,
                          PollTimedOut, ShortRead, MatchReply, DiscardReply, RecvError, AttemptOver,
                          SimRead, vars, wire
    <3>2. Head(inSim) \in Record
      BY <1>0, <1>7
    <3>3. HeaderOf(Head(inSim)) \in Record /\ HeaderOf(Head(inSim)).req = Head(inSim).req
      BY <3>2 DEF HeaderOf, Record
    <3> QED BY <3>1, <3>2, <3>3 DEF SimReply, SimDrop, KernelTimeout
  <2> QED BY <2>4, <2>5, <2>6
<1> QED BY <1>3, <1>4, <1>5, <1>6, <1>7, <1>2
        DEF Next, Client, Responder, Received, Begin, SendFails, DeadlinePassed, PollTimedOut,
            ShortRead, MatchReply, DiscardReply, RecvError, AttemptOver, SimReply, SimDrop,
            KernelTimeout, vars, wire

(* Of a call that is still to come nothing is under way.                   *)
LEMMA NoneYet ==
    ASSUME IInv PROVE Copies(req + 1) = 0
<1>1. TypeOK /\ AllFresh(toClient) /\ AllFresh(inSim) /\ AllFresh(toSim) /\ req \in Nat
  BY DEF IInv, WireInv, TypeOK
<1>2. ASSUME NEW s \in Seq(Record), AllFresh(s) PROVE Count(s, req + 1) = 0
  <2>1. At(s, req + 1) = {}
    BY <1>1, <1>2 DEF At, AllFresh, Fresh
  <2> QED BY <2>1, FS_EmptySet DEF Count
<1>3. Count(toClient, req + 1) = 0 /\ Count(inSim, req + 1) = 0 /\ Count(toSim, req + 1) = 0
  BY <1>1, <1>2 DEF TypeOK
<1> QED BY <1>1, <1>3, CopiesSum

(* The invariant of the budget: RetryBudget for every call there ever was. *)
Budget == IF pc = "send" THEN attempt ELSE attempt + 1
BudgetInv ==
    /\ \A k \in 1..req : Copies(k) <= Retries + 1
    /\ pc # "idle" => Copies(req) <= Budget

(* Only a write adds a copy, and it spends one of the tries that the       *)
(* request has left.                                                       *)
LEMMA BudgetStep ==
    ASSUME IInv, IInv', BudgetInv, [Next]_vars PROVE BudgetInv'
<1>1. /\ TypeOK /\ TypeOK' /\ req \in Nat /\ attempt \in 0..Retries /\ Retries \in Nat
      /\ (pc # "idle" => req \in 1..req)
  BY TransportAssumption DEF IInv, TypeOK, TidInv, TransportAssumption
<1>2. \A k : Copies(k) \in Nat
  BY <1>1, CopiesStep
<1>3. \A k : Copies(k)' \in Nat
  BY <1>1, CopiesStep
<1>4. \A k : \/ Copies(k)' <= Copies(k)
             \/ Send /\ Copies(k)' = Copies(k) + (IF req = k THEN 1 ELSE 0)
  BY <1>1, CopiesStep
<1>5. attempt \in Nat /\ attempt' \in Nat
  <2>1. (attempt \in 0..Retries)'
    BY <1>1 DEF TypeOK
  <2> QED BY <1>1, <2>1
<1>6. Budget \in Int /\ Budget' \in Int
  BY <1>5 DEF Budget
<1> HIDE DEF Copies
<1>7. CASE Begin
  <2>1. req' = req + 1 /\ pc' = "send" /\ attempt' = 0 /\ ~Send
    BY <1>7 DEF Begin, Send
  <2>2. Copies(req + 1) = 0
    BY NoneYet
  <2>3. Copies(req)' = Copies(req + 1)
    BY <1>7, <2>1 DEF Begin, wire, Copies, Pipe
  <2>4. \A k \in 1..req' : Copies(k)' <= Retries + 1
    <3> TAKE k \in 1..req'
    <3>1. CASE k \in 1..req
      BY <1>1, <1>2, <1>3, <1>4, <2>1, <3>1 DEF BudgetInv
    <3>2. CASE k = req + 1
      <4>1. Copies(k)' <= Copies(k) /\ Copies(k) = 0
        BY <1>4, <2>1, <2>2, <3>2
      <4> QED BY <1>1, <1>2, <1>3, <4>1
    <3> QED BY <1>1, <2>1, <3>1, <3>2
  <2> QED BY <1>1, <2>1, <2>2, <2>3, <2>4 DEF BudgetInv, Budget
<1>8. CASE Send
  <2>1. pc = "send" /\ pc' = "wait" /\ req' = req /\ attempt' = attempt /\ req \in 1..req
    BY <1>1, <1>8 DEF Send
  <2>2. Copies(req) <= attempt
    BY <1>1, <1>2, <2>1 DEF BudgetInv, Budget
  <2>3. \A k \in 1..req : Copies(k)' <= Retries + 1
    <3> TAKE k \in 1..req
    <3>1. CASE k = req
      BY <1>1, <1>2, <1>3, <1>4, <2>2, <3>1
    <3>2. CASE k # req
      <4>1. Copies(k)' <= Copies(k) /\ Copies(k) <= Retries + 1
        BY <1>2, <1>4, <3>2 DEF BudgetInv
      <4> QED BY <1>1, <1>2, <1>3, <4>1
    <3> QED BY <3>1, <3>2
  <2>4. Copies(req)' <= attempt + 1
    <3>1. PICK k : k = req
      OBVIOUS
    <3>2. Copies(req)' = Copies(k)'
      BY <2>1, <3>1 DEF Copies
    <3>3. Copies(k)' <= attempt + 1
      BY <1>1, <1>2, <1>3, <1>4, <2>2, <3>1
    <3> QED BY <3>2, <3>3
  <2> QED BY <2>1, <2>3, <2>4 DEF BudgetInv, Budget
<1>9. CASE ~Begin /\ ~Send
  <2>1. req' = req /\ (pc' # "idle" => pc # "idle" /\ Budget <= Budget')
    <3>1. CASE AttemptOver /\ pc \in {"wait", "polled"}
      BY <1>1, <3>1 DEF AttemptOver, Budget
    <3>2. CASE UNCHANGED call
      BY <1>1, <3>2 DEF call, Budget
    <3>3. CASE req' = req /\ pc' = "idle"
      BY <3>3
    <3>4. CASE pc \in {"wait", "polled"} /\ pc' = "polled" /\ attempt' = attempt /\ req' = req
      BY <1>1, <3>4 DEF Budget
    <3> QED BY <1>9, <3>1, <3>2, <3>3, <3>4
            DEF Next, Client, Responder, Received, SendFails, DeadlinePassed, PollTimedOut, ShortRead,
                MatchReply, DiscardReply, RecvError, Receiving, Waiting, SimRead, SimReply, SimDrop,
                KernelTimeout, vars
  <2>2. \A k : Copies(k)' <= Copies(k)
    BY <1>4, <1>9
  <2>3. \A k \in 1..req : Copies(k)' <= Retries + 1
    <3> TAKE k \in 1..req
    <3>1. Copies(k) <= Retries + 1
      BY DEF BudgetInv
    <3> QED BY <1>1, <1>2, <1>3, <2>2, <3>1
  <2>4. Copies(req)' <= Copies(req)
    <3>1. PICK k : k = req
      OBVIOUS
    <3>2. Copies(req)' = Copies(k)'
      BY <2>1, <3>1 DEF Copies
    <3> QED BY <2>2, <3>1, <3>2
  <2>5. ASSUME pc' # "idle" PROVE Copies(req)' <= Budget'
    <3>1. Copies(req) <= Budget /\ Budget <= Budget'
      BY <2>1, <2>5 DEF BudgetInv
    <3>3. Copies(req) \in Nat /\ Copies(req)' \in Nat
      <4>1. PICK k : k = req
        OBVIOUS
      <4>2. Copies(req)' = Copies(k)'
        BY <2>1, <4>1 DEF Copies
      <4> QED BY <1>2, <1>3, <4>2
    <3> QED BY <1>6, <2>4, <3>1, <3>3
  <2> QED BY <2>1, <2>3, <2>5 DEF BudgetInv
<1> QED BY <1>7, <1>8, <1>9

(* A call never puts more than Retries + 1 records on the wire, and no     *)
(* record is duplicated on the way: RetryBudget for every number of        *)
(* retries, and for every call of the session, not only the current one.   *)
THEOREM RetriesBounded == Spec => []RetryBudget
<1>1. Init => BudgetInv
  <2>1. Init => req = 0 /\ pc = "idle"
    BY DEF Init
  <2> QED BY <2>1 DEF BudgetInv
<1>2. IInv /\ IInv' /\ BudgetInv /\ [Next]_vars => BudgetInv'
  BY BudgetStep
<1>3. TypeOK /\ BudgetInv => RetryBudget
  <2> SUFFICES ASSUME TypeOK, BudgetInv PROVE RetryBudget
    OBVIOUS
  <2>0. attempt \in Nat
    BY TransportAssumption DEF TypeOK, TransportAssumption
  <2>1. Budget = attempt + (IF pc = "send" THEN 0 ELSE 1)
    BY <2>0 DEF Budget
  <2> QED BY <2>1 DEF BudgetInv, RetryBudget
<1> QED BY <1>1, <1>2, <1>3, InvInit, InvStep, PTL DEF Spec, IInv

-----------------------------------------------------------------------------
(* Induction, for a set.  Every non-empty set of numbers has a least one.  *)
LEMMA LeastNumber ==
    ASSUME NEW T \in SUBSET Nat, T # {}
    PROVE  \E m \in T : \A k \in T : m <= k
<1> DEFINE R == {ss \in Nat \X Nat : ss[1] < ss[2]}
<1>1. IsWellFoundedOn(R, Nat)
  BY NatLessThanWellFounded DEF OpToRel
<1>2. PICK m \in T : \A k \in T : ~(<<k, m>> \in R)
  <2> HIDE DEF R
  <2> QED BY <1>1, WFMin
<1>3. \A k \in T : ~(k < m)
  BY <1>2
<1> QED BY <1>3

(* What holds at m and goes from a number to the next holds up to n.       *)
LEMMA UpTo ==
    ASSUME NEW m \in Nat, NEW n \in Nat, NEW S, m \in S,
           \A i \in m..(n - 1) : i \in S => i + 1 \in S
    PROVE  m..n \subseteq S
<1> DEFINE T == (m..n) \ S
<1>1. SUFFICES ASSUME T # {} PROVE FALSE
  OBVIOUS
<1>2. PICK k \in T : \A i \in T : k <= i
  <2>1. T \in SUBSET Nat
    OBVIOUS
  <2> HIDE DEF T
  <2> QED BY <1>1, <2>1, LeastNumber
<1>3. k # m /\ k - 1 \in m..(n - 1)
  BY <1>2
<1>4. k - 1 \in S
  BY <1>2, <1>3
<1> QED BY <1>2, <1>3, <1>4

(* The windows of a call up to the one of attempt n.                       *)
Doubling(w, t, n) == w = [i \in 0..n |-> IF i = 0 THEN t ELSE 2 * w[i - 1]]

(* The recursive definition of Windows has a solution.                     *)
LEMMA WindowsExist == \A t : \E w : Doubling(w, t, Retries)
<1> SUFFICES ASSUME NEW t PROVE \E w : Doubling(w, t, Retries)
  OBVIOUS
<1> DEFINE S == {n \in Nat : \E w : Doubling(w, t, n)}
<1>1. Retries \in Nat
  BY TransportAssumption DEF TransportAssumption
<1>2. 0 \in S
  <2>1. Doubling([i \in 0..0 |-> t], t, 0)
    BY DEF Doubling
  <2> QED BY <2>1
<1>3. ASSUME NEW n \in 0..(Retries - 1), n \in S PROVE n + 1 \in S
  <2>1. PICK w : Doubling(w, t, n)
    BY <1>3
  <2> DEFINE v == [i \in 0..(n + 1) |-> IF i = 0 THEN t ELSE 2 * w[i - 1]]
  <2>2. \A i \in 0..n : w[i] = IF i = 0 THEN t ELSE 2 * w[i - 1]
    BY <2>1 DEF Doubling
  <2>3. \A i \in 0..n : v[i] = w[i]
    BY <2>2, <1>1
  <2>4. \A i \in 0..(n + 1) : i # 0 => v[i - 1] = w[i - 1]
    <3>1. \A i \in 0..(n + 1) : i # 0 => i - 1 \in 0..n
      BY <1>1
    <3> HIDE DEF v
    <3> QED BY <2>3, <3>1
  <2>5. Doubling(v, t, n + 1)
    BY <2>4 DEF Doubling
  <2> QED BY <2>5, <1>1
<1>4. 0..Retries \subseteq S
  <2> HIDE DEF S
  <2> QED BY <1>1, <1>2, <1>3, UpTo
<1> QED BY <1>1, <1>4

(* The first window is the timeout, each next one is twice as long, and    *)
(* the last one is the longest.                                            *)
LEMMA WindowFacts ==
    ASSUME NEW t \in Nat
    PROVE  /\ Windows(t)[0] = t
           /\ \A i \in 0..(Retries - 1) : Windows(t)[i + 1] = 2 * Windows(t)[i]
           /\ \A i \in 0..Retries : Windows(t)[i] \in Nat /\ Windows(t)[i] <= Windows(t)[Retries]
<1> DEFINE w == Windows(t)
<1>1. Retries \in Nat
  BY TransportAssumption DEF TransportAssumption
<1>2. Doubling(w, t, Retries)
  <2> DEFINE v == CHOOSE v : Doubling(v, t, Retries)
  <2>1. Doubling(v, t, Retries)
    BY WindowsExist
  <2>2. w = v
    BY DEF Windows, Doubling
  <2> QED BY <2>1, <2>2
<1> HIDE DEF w
<1>3. w[0] = t /\ \A i \in 1..Retries : w[i] = 2 * w[i - 1]
  BY <1>1, <1>2 DEF Doubling
<1>4. \A i \in 0..(Retries - 1) : w[i + 1] = 2 * w[i]
  <2> TAKE i \in 0..(Retries - 1)
  <2>1. i + 1 \in 1..Retries /\ (i + 1) - 1 = i
    BY <1>1
  <2> QED BY <1>3, <2>1
<1>5. \A i \in 0..Retries : w[i] \in Nat
  <2> DEFINE S == {i \in 0..Retries : w[i] \in Nat}
  <2>1. 0 \in S
    BY <1>1, <1>3
  <2>2. \A i \in 0..(Retries - 1) : i \in S => i + 1 \in S
    BY <1>1, <1>4
  <2> HIDE DEF S
  <2>3. 0..Retries \subseteq S
    BY <1>1, <2>1, <2>2, UpTo
  <2> QED BY <2>3 DEF S
<1>6. \A i \in 0..Retries : w[i] <= w[Retries]
  <2> TAKE i \in 0..Retries
  <2> DEFINE S == {j \in 0..Retries : w[i] <= w[j]}
  <2>1. i \in S
    BY <1>5
  <2>2. ASSUME NEW j \in i..(Retries - 1), j \in S PROVE j + 1 \in S
    <3>1. w[i] <= w[j] /\ w[j + 1] = 2 * w[j] /\ w[i] \in Nat /\ w[j] \in Nat
      BY <1>1, <1>4, <1>5, <2>2
    <3> QED BY <1>1, <3>1
  <2> HIDE DEF S
  <2>3. i \in Nat
    BY <1>1
  <2>4. i..Retries \subseteq S
    BY <1>1, <2>1, <2>2, <2>3, UpTo
  <2> QED BY <1>1, <2>4 DEF S
<1> QED BY <1>3, <1>4, <1>5, <1>6 DEF w

(* PanicIsLate is not inductive: what makes it true is that the window of  *)
(* an attempt is the one of Windows, for the timeout the call began with,  *)
(* wrapped by nothing so far.                                              *)
Fits == \A t \in Timeouts : Windows(t)[Retries] < U32
WindowInv ==
    /\ pc \in {"send", "wait", "polled"} => \E t \in Timeouts : current_timeout = Windows(t)[attempt]
    /\ pc = "panic" => attempt = Retries

(* The end of an attempt is the only place where a window changes.         *)
LEMMA AttemptOverWindow ==
    ASSUME Fits, TypeOK, WindowInv, pc \in {"wait", "polled"}, AttemptOver
    PROVE  WindowInv'
<1>1. /\ Retries \in Nat /\ U32 \in Nat /\ Timeouts \subseteq Nat
      /\ attempt \in 0..Retries
  BY TransportAssumption DEF TransportAssumption, TypeOK
<1>2. PICK t \in Timeouts : current_timeout = Windows(t)[attempt]
  BY DEF WindowInv
<1>3. t \in Nat
  BY <1>1
<1> DEFINE w == Windows(t)
<1>4. /\ \A i \in 0..(Retries - 1) : w[i + 1] = 2 * w[i]
      /\ \A i \in 0..Retries : w[i] \in Nat /\ w[i] <= w[Retries]
  BY <1>3, WindowFacts
<1>5. w[Retries] < U32 /\ w[Retries] \in Nat
  BY <1>1, <1>4 DEF Fits
<1> HIDE DEF w
<1>6. CASE attempt = Retries
  <2>1. pc' = "idle" \/ (pc' = "panic" /\ attempt' = attempt)
    BY <1>1, <1>6 DEF AttemptOver
  <2> QED BY <1>6, <2>1 DEF WindowInv
<1>7. CASE attempt # Retries
  <2>1. attempt \in 0..(Retries - 1) /\ attempt + 1 \in 0..Retries
    BY <1>1, <1>7
  <2>2. w[attempt + 1] = 2 * w[attempt] /\ w[attempt + 1] < U32 /\ w[attempt + 1] \in Nat
    BY <1>1, <1>4, <1>5, <2>1
  <2>3. current_timeout = w[attempt]
    BY <1>2 DEF w
  <2>4. w[attempt] \in Nat
    BY <1>1, <1>4
  <2>5. current_timeout * 2 = w[attempt + 1] /\ ~(current_timeout * 2 >= U32)
    BY <1>1, <2>2, <2>3, <2>4
  <2>6. w[attempt + 1] % U32 = w[attempt + 1]
    BY <1>1, <2>2
  <2>7. pc' = "send" /\ attempt' = attempt + 1 /\ current_timeout' = w[attempt + 1]
    BY <1>1, <1>7, <2>1, <2>5, <2>6 DEF AttemptOver
  <2> QED BY <2>7 DEF WindowInv, w
<1> QED BY <1>6, <1>7

(* The deadline moves with the retries, by a window twice as long each     *)
(* time.                                                                   *)
LEMMA WindowStep ==
    ASSUME Fits, TypeOK, WindowInv, [Next]_vars PROVE WindowInv'
<1>1. CASE AttemptOver /\ pc \in {"wait", "polled"}
  BY <1>1, AttemptOverWindow
<1>2. CASE Begin
  <2>1. pc' = "send" /\ attempt' = 0 /\ current_timeout' \in Timeouts
    BY <1>2 DEF Begin
  <2>2. current_timeout' \in Nat
    BY <2>1, TransportAssumption DEF TransportAssumption
  <2>3. Windows(current_timeout')[0] = current_timeout'
    BY <2>2, WindowFacts
  <2> QED BY <2>1, <2>3 DEF WindowInv
<1>3. CASE UNCHANGED <<attempt, current_timeout>> /\ pc \in {"send", "wait", "polled"} /\ pc' # "panic"
  BY <1>3 DEF WindowInv
<1>4. CASE UNCHANGED call
  BY <1>4 DEF WindowInv, call
<1> QED
  BY <1>1, <1>2, <1>3, <1>4
  DEF Next, Client, Responder, Received, Send, SendFails, DeadlinePassed, PollTimedOut, ShortRead,
      MatchReply, DiscardReply, RecvError, Receiving, Waiting, SimRead, SimReply, SimDrop,
      KernelTimeout, vars

(* While the windows of all attempts fit into a u32, the doubling panics   *)
(* only at the end of the last attempt, for every u32, number of retries   *)
(* and timeout.                                                            *)
THEOREM OverflowIsLate == Spec => []PanicIsLate
<1>1. Fits /\ Init => WindowInv
  BY DEF Init, WindowInv
<1>2. Fits /\ TypeOK /\ WindowInv /\ [Next]_vars => WindowInv'
  BY WindowStep
<1>3. (Fits => WindowInv) => PanicIsLate
  BY DEF Fits, WindowInv, PanicIsLate
<1>4. Fits => Fits'
  BY DEF Fits, Windows
<1>5. Fits' => Fits
  BY DEF Fits, Windows
<1> QED BY <1>1, <1>2, <1>3, <1>4, <1>5, InvInit, InvStep, PTL DEF Spec, IInv
=============================================================================
