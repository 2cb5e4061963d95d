-------------------------- MODULE PerfSession_proofs -------------------------
(***************************************************************************)
(* Proofs about a session that reads counters, for every value of its      *)
(* constants: first the choice of the device files (DevPaths), then the    *)
(* queries on the file that open_port returned (PerfQuery), and last the   *)
(* session that is made of both.                                           *)
(*                                                                         *)
(* Device files: their choice does not depend on the order of a directory, *)
(* and separates SMPs from other MADs, for every directory with unique     *)
(* names.  The invariant behind it: while the loop runs, each slot holds   *)
(* the least of the candidates among the entries it has come to.           *)
(*                                                                         *)
(* Queries: every record under way is of a query that has been sent and is *)
(* newer than anything received, and the records are in order.  Those that *)
(* nobody has read are counted, against the errors that left them there.   *)
(***************************************************************************)
EXTENDS PerfSession, SequenceTheorems, TLAPS

BestSoFar ==
    at = "scan" => \A slot \in Slot : IsLeastOf(best[slot], Candidates(slot, dir \ todo))

DevInv ==
    /\ dir \in Directories /\ todo \subseteq dir
    /\ DOMAIN file = Opener
    /\ BestSoFar
    /\ ChoiceIsLeast
    /\ SeparatePorts

(* The candidates for one slot are told apart by their numbers.            *)
LEMMA NumbersTellApart ==
    ASSUME NEW d \in Directories, NEW e \in d, NEW f \in d, NEW slot \in Slot,
           slot \in Slots(e), slot \in Slots(f), e.idx = f.idx
    PROVE  e = f
<1>1. e \in Entry /\ f \in Entry
  BY DirectoriesAssumption
<1>2. e.kind = f.kind
  BY <1>1 DEF Slots, Slot, Entry
<1> QED BY <1>2, DirectoriesAssumption

(* Offering a candidate to the least so far gives the least of all.        *)
LEMMA LowerIsLeast ==
    ASSUME NEW d \in Directories, NEW S \in SUBSET d, NEW e \in d, NEW slot \in Slot,
           slot \in Slots(e), NEW b, IsLeastOf(b, Candidates(slot, S))
    PROVE  IsLeastOf(Lower(b, e), Candidates(slot, S \union {e}))
<1> DEFINE C == Candidates(slot, S)
           D == Candidates(slot, S \union {e})
<1>1. D = C \union {e}
  BY DEF Candidates
<1>2. \A f \in D : f \in d /\ slot \in Slots(f) /\ f.idx \in Nat
  BY DirectoriesAssumption DEF Candidates, Entry
<1>3. \A l \in b : l \in C /\ \A f \in C : l = f \/ l.idx < f.idx
  BY DEF IsLeastOf
<1>4. b = {} => C = {}
  BY DEF IsLeastOf
<1> HIDE DEF C, D
<1>5. CASE \A l \in b : e.idx < l.idx
  <2>1. Lower(b, e) = {e}
    BY <1>5 DEF Lower
  <2>2. ASSUME NEW f \in C PROVE e.idx < f.idx
    <3>1. PICK l \in b : TRUE
      BY <1>4
    <3>2. e.idx < l.idx /\ (l = f \/ l.idx < f.idx)
      BY <1>3, <1>5
    <3> QED BY <3>2, <1>1, <1>2, <1>3
  <2> QED BY <2>1, <2>2, <1>1 DEF IsLeastOf, D
<1>6. CASE \E l \in b : ~(e.idx < l.idx)
  <2>1. Lower(b, e) = b
    BY <1>6 DEF Lower
  <2>2. PICK l \in b : ~(e.idx < l.idx)
    BY <1>6
  <2>3. ASSUME NEW k \in b PROVE k = l
    BY <1>1, <1>2, <1>3
  <2>4. l = e \/ l.idx < e.idx
    <3>1. l \in D /\ e \in D
      BY <1>1, <1>3
    <3>2. l.idx = e.idx => l = e
      BY <3>1, <1>2, NumbersTellApart
    <3> QED BY <2>2, <3>1, <3>2, <1>2
  <2> QED BY <2>1, <2>3, <2>4, <1>1, <1>3 DEF IsLeastOf, D
<1> QED BY <1>5, <1>6

(* Option::or of the least gives the least of the preferred candidates.    *)
LEMMA OrIsLeast ==
    ASSUME NEW a, NEW b, NEW A, NEW B, IsLeastOf(a, A), IsLeastOf(b, B)
    PROVE  IsLeastOf(Or(a, b), Or(A, B))
BY DEF IsLeastOf, Or

(* Before the first entry there is no candidate.                           *)
LEMMA DevInitially == DevInit => DevInv
<1> SUFFICES ASSUME DevInit PROVE DevInv
  OBVIOUS
<1>1. dir \in Directories /\ todo \subseteq dir /\ DOMAIN file = Opener
  BY DEF DevInit
<1>2. BestSoFar
  BY DEF DevInit, BestSoFar, IsLeastOf, Candidates, Nothing
<1>3. ChoiceIsLeast
  BY DEF DevInit, ChoiceIsLeast
<1>4. SeparatePorts
  BY DEF DevInit, SeparatePorts, Opener
<1> QED BY <1>1, <1>2, <1>3, <1>4 DEF DevInv

(* An entry is offered to each slot that it is a candidate for.            *)
LEMMA VisitKeepsBest == DevInv /\ Visit => BestSoFar'
<1> SUFFICES ASSUME DevInv, at = "scan", NEW e \in todo, todo' = todo \ {e},
                    best' = [slot \in Slot |-> IF slot \in Slots(e) THEN Lower(best[slot], e)
                                                                    ELSE best[slot]],
                    dir' = dir,
                    NEW slot \in Slot
             PROVE  IsLeastOf(best'[slot], Candidates(slot, dir' \ todo'))
  BY DEF Visit, BestSoFar
<1>1. e \in dir /\ dir \in Directories /\ dir' \ todo' = (dir \ todo) \union {e}
  BY DEF DevInv
<1>2. IsLeastOf(best[slot], Candidates(slot, dir \ todo))
  BY DEF DevInv, BestSoFar
<1>3. CASE slot \in Slots(e)
  BY <1>1, <1>2, <1>3, LowerIsLeast
<1>4. CASE slot \notin Slots(e)
  <2>1. Candidates(slot, dir' \ todo') = Candidates(slot, dir \ todo)
    BY <1>1, <1>4 DEF Candidates
  <2> QED BY <1>2, <1>4, <2>1
<1> QED BY <1>3, <1>4

(* What is chosen at the end of the directory is the least.                *)
LEMMA SelectIsLeast == DevInv /\ Select => ChoiceIsLeast'
<1> SUFFICES ASSUME DevInv, Select PROVE ChoiceIsLeast'
  OBVIOUS
<1>1. at = "scan" /\ dir \ todo = dir /\ dir' = dir
  BY DEF Select, Known
<1>2. \A slot \in Slot : IsLeastOf(best[slot], Candidates(slot, dir))
  BY <1>1 DEF DevInv, BestSoFar
<1>3. /\ IsLeastOf(best["own"], Candidates("own", dir))
      /\ IsLeastOf(best["any"], Candidates("any", dir))
      /\ IsLeastOf(best["smi"], Candidates("smi", dir))
      /\ IsLeastOf(best["issm"], Candidates("issm", dir))
  BY <1>2 DEF Slot
<1>4. IsLeastOf(Or(best["own"], best["any"]), Or(Candidates("own", dir), Candidates("any", dir)))
  BY <1>3, OrIsLeast
<1>5. dev_paths' = {[umad |-> Or(best["own"], best["any"]), smi |-> best["smi"],
                     issm |-> best["issm"]]}
  BY DEF Select, Known
<1> QED BY <1>1, <1>3, <1>4, <1>5 DEF ChoiceIsLeast

(* What an opener opens is the first of two choices that there is.         *)
LEMMA OpensSeparately ==
    ASSUME DevInv, OpenSmpPort \/ OpenPort
    PROVE  SeparatePorts' /\ DOMAIN file' = Opener
<1> USE DEF Opener
<1>1. DOMAIN file' = Opener /\ dir' = dir
  BY DEF DevInv, OpenSmpPort, OpenPort, Open
<1>2. SUFFICES ASSUME Candidates("own", dir) # {}, Candidates("smi", dir) # {}
               PROVE  /\ file'["smp"] \subseteq Candidates("smi", dir)
                      /\ file'["perf"] \subseteq Candidates("own", dir)
  BY <1>1 DEF SeparatePorts
<1>3. \A p \in dev_paths : /\ Or(p.umad, p.smi) \subseteq Candidates("own", dir)
                           /\ Or(p.smi, p.umad) \subseteq Candidates("smi", dir)
  BY <1>2 DEF DevInv, ChoiceIsLeast, IsLeastOf, Or
<1>4. /\ file["smp"] \subseteq Candidates("smi", dir)
      /\ file["perf"] \subseteq Candidates("own", dir)
  BY <1>2 DEF DevInv, SeparatePorts
<1>5. CASE OpenSmpPort
  <2>1. \/ file' = file
        \/ file' = [file EXCEPT !["smp"] = UNION {Or(p.smi, p.umad) : p \in dev_paths}]
    BY <1>5 DEF OpenSmpPort, Open
  <2>2. UNION {Or(p.smi, p.umad) : p \in dev_paths} \subseteq Candidates("smi", dir)
    BY <1>3
  <2> QED BY <2>1, <2>2, <1>4 DEF DevInv
<1>6. CASE OpenPort
  <2>1. \/ file' = file
        \/ file' = [file EXCEPT !["perf"] = UNION {Or(p.umad, p.smi) : p \in dev_paths}]
    BY <1>6 DEF OpenPort, Open
  <2>2. UNION {Or(p.umad, p.smi) : p \in dev_paths} \subseteq Candidates("own", dir)
    BY <1>3
  <2> QED BY <2>1, <2>2, <1>4 DEF DevInv
<1> QED BY <1>1, <1>5, <1>6

(* Every step keeps the invariant.                                         *)
LEMMA DevInductive == DevInv /\ [DevNext]_dev_vars => DevInv'
<1> SUFFICES ASSUME DevInv, [DevNext]_dev_vars PROVE DevInv'
  OBVIOUS
<1>1. CASE Visit
  <2>1. todo' \subseteq dir' /\ dir' = dir /\ file' = file /\ dev_paths' = dev_paths
    BY <1>1 DEF Visit, DevInv
  <2> QED BY <1>1, <2>1, VisitKeepsBest DEF DevInv, ChoiceIsLeast, SeparatePorts
<1>2. CASE ReadDirFails
  BY <1>2 DEF ReadDirFails, Known, DevInv, BestSoFar, ChoiceIsLeast, SeparatePorts
<1>3. CASE Select
  <2>1. dir' = dir /\ file' = file /\ todo' = {} /\ at' = "known"
    BY <1>3 DEF Select, Known
  <2> QED BY <1>3, <2>1, SelectIsLeast DEF DevInv, BestSoFar, SeparatePorts
<1>4. CASE GetCaFails
  BY <1>4 DEF GetCaFails, DevInv, BestSoFar, ChoiceIsLeast, SeparatePorts
<1>5. CASE OpenSmpPort \/ OpenPort
  <2>1. UNCHANGED <<dir, todo, best, at, dev_paths>>
    BY <1>5 DEF OpenSmpPort, OpenPort, Open
  <2> QED BY <1>5, <2>1, OpensSeparately DEF DevInv, BestSoFar, ChoiceIsLeast
<1>6. CASE UNCHANGED dev_vars
  BY <1>6 DEF dev_vars, DevInv, BestSoFar, ChoiceIsLeast, SeparatePorts
<1> QED BY <1>1, <1>2, <1>3, <1>4, <1>5, <1>6 DEF DevNext

(* For each kind of device the least is chosen, whatever the order in      *)
(* which get_ca_dev_paths meets the entries, and whatever they are.        *)
THEOREM OrderDoesNotMatter == DevSpec => []ChoiceIsLeast
<1>1. DevInv => ChoiceIsLeast
  BY DEF DevInv
<1> QED BY <1>1, DevInitially, DevInductive, PTL DEF DevSpec

(* An adapter that has both kinds of device never serves open_smp_port and *)
(* open_port with the same one.                                            *)
THEOREM PortsAreSeparate == DevSpec => []SeparatePorts
<1>1. DevInv => SeparatePorts
  BY DEF DevInv
<1> QED BY <1>1, DevInitially, DevInductive, PTL DEF DevSpec

-----------------------------------------------------------------------------
(* What is under way belongs to a query that has been sent and is newer    *)
(* than anything received.                                                 *)
Newest == IF pc = "send" THEN req - 1 ELSE req
Unread(s) == \A i \in 1..Len(s) : answered < s[i].req /\ s[i].req <= Newest

Increasing(s) == \A i, j \in 1..Len(s) : i < j => s[i].req < s[j].req
Before(s, t) == \A i \in 1..Len(s), j \in 1..Len(t) : s[i].req < t[j].req

WireInv ==
    /\ Unread(toClient) /\ Unread(inSim) /\ Unread(toSim)
    /\ Increasing(toClient) /\ Increasing(toSim)
    /\ Before(toClient, inSim) /\ Before(toClient, toSim) /\ Before(inSim, toSim)

(* A query that has returned has received a record, and there is no other  *)
(* with its serial, or it is one of the unread.                            *)
Returned == IF pc = "idle" THEN req ELSE req - 1

LagInv ==
    /\ unread <= Returned /\ Returned <= answered + unread
    /\ pc # "idle" => req > 0
    /\ pc = "send" => answered < req
    /\ result.kind = "ok" => pc = "idle" /\ result.of = answered

(* What is under way is bounded: a query adds one record, and takes one,   *)
(* or finds nothing to take, or ends with an error of recv.                *)
Load == Len(toClient) + Len(inSim) + Len(toSim)
LoadInv == Load <= Capacity + 1 + overlooked + (IF pc = "wait" THEN 1 ELSE 0)

IInv == TypeOK /\ WireInv /\ LagInv /\ LoadInv

-----------------------------------------------------------------------------
(* The state in which a session starts.                                    *)
LEMMA InitInv == Init => IInv
<1> SUFFICES ASSUME Init PROVE IInv
  OBVIOUS
<1>1. NoResult \in [kind : {"none", "ok", "TimedOut", "error"}, about : Asked, of : 0..req]
  BY DEF NoResult, Init
<1>2. toSim = <<>> /\ inSim = <<>> /\ toClient = <<>>
  BY DEF Init
<1>3. TypeOK
  BY <1>1, <1>2, QueryAssumption DEF Init, TypeOK, QueryAssumption
<1>4. WireInv
  BY <1>2 DEF WireInv, Unread, Increasing, Before
<1>5. LagInv
  BY DEF Init, LagInv, Returned, NoResult
<1>6. LoadInv
  BY <1>2, QueryAssumption DEF Init, LoadInv, Load
<1> QED BY <1>3, <1>4, <1>5, <1>6 DEF IInv

-----------------------------------------------------------------------------
(* The responder hands a record on with its serial, whatever it makes of   *)
(* the kind.                                                               *)
LEMMA AnswerRecord ==
    ASSUME NEW r \in Record, NEW k \in {"mad", "bad", "short"}
    PROVE  /\ [r EXCEPT !.kind = k] \in Record
           /\ [r EXCEPT !.kind = k].req = r.req
BY DEF Record

(* What a query starts with is a result of its type.                       *)
LEMMA NoResultType ==
    ASSUME NEW a \in Asked, NEW n \in Nat
    PROVE  [kind |-> "none", about |-> a, of |-> 0] \in
              [kind : {"none", "ok", "TimedOut", "error"}, about : Asked, of : 0..n]
OBVIOUS

(* The arithmetic of the window stays within a u32.                        *)
LEMMA WindowType ==
    ASSUME NEW t \in TimeoutMs, NEW r \in RetryCounts
    PROVE  TotalTimeout(t, r) \in 0..(U32 - 1)
<1>1. U32 \in Nat \ {0} /\ t \in Nat /\ r \in Nat
  BY QueryAssumption
<1>2. \A n \in Nat : Saturated(n) \in Nat /\ Saturated(n) \in 0..(U32 - 1)
  BY <1>1 DEF Saturated
<1>3. Saturated(r + 1) \in Nat
  BY <1>1, <1>2
<1>4. t * Saturated(r + 1) \in Nat
  BY <1>1, <1>3
<1>5. Saturated(t * Saturated(r + 1)) + 50 \in Nat
  BY <1>2, <1>4
<1> QED BY <1>2, <1>5 DEF TotalTimeout

(* The types are kept, given the rest of the invariant: it is what bounds  *)
(* the serial of a received record and the number of unread queries.       *)
LEMMA TypeStep ==
    ASSUME IInv, [Next]_vars
    PROVE  TypeOK'
<1> USE QueryAssumption DEF TypeOK
<1>0. TypeOK /\ LagInv /\ WireInv
  BY DEF IInv
<1>1. CASE Query
  <2>1. /\ req < MaxQueries /\ req' = req + 1 /\ asked' \in Asked /\ pc' = "send"
        /\ result' = [NoResult EXCEPT !.about = asked']
        /\ UNCHANGED <<unread, overlooked, answered, toSim, inSim, toClient>>
    BY <1>1 DEF Query
  <2>2. window' \in 0..(U32 - 1)
    BY <1>1, WindowType DEF Query
  <2>3. result' = [kind |-> "none", about |-> asked', of |-> 0]
    BY <2>1 DEF NoResult
  <2>4. asked' \in Asked /\ req' \in Nat
    BY <1>0, <2>1
  <2>5. result' \in [kind : {"none", "ok", "TimedOut", "error"}, about : Asked, of : 0..req']
    <3>1. [kind |-> "none", about |-> asked', of |-> 0] \in
             [kind : {"none", "ok", "TimedOut", "error"}, about : Asked, of : 0..req']
      BY <2>4, NoResultType
    <3> QED BY <2>3, <3>1, Zenon
  <2>6. req' \in 0..MaxQueries /\ answered' \in 0..req' /\ unread' \in 0..req'
    <3>1. /\ MaxQueries \in Nat /\ req \in Nat /\ req < MaxQueries
          /\ answered \in 0..req /\ unread \in 0..req
      BY <1>0, <2>1 DEF QueryAssumption
    <3> QED BY <3>1, <2>1
  <2> QED BY <1>0, <2>1, <2>2, <2>5, <2>6
<1>2. CASE Send
  <2>1. Request \in Record
    BY <1>0 DEF Request, Record
  <2> QED BY <1>0, <1>2, <2>1 DEF Send, QueryAssumption
<1>3. CASE SendFails
  <2>1. unread + 1 <= req
    BY <1>0, <1>3 DEF SendFails, LagInv, Returned
  <2> QED BY <1>0, <1>3, <2>1 DEF SendFails, Return
<1>4. CASE PollTimedOut
  <2>1. unread + 1 <= req
    BY <1>0, <1>4 DEF PollTimedOut, LagInv, Returned
  <2> QED BY <1>0, <1>4, <2>1 DEF PollTimedOut, Return
<1>e. CASE OutOfRange \/ RecvFails
  <2>1. unread + 1 <= req
    BY <1>0, <1>e DEF OutOfRange, RecvFails, RecvError, LagInv, Returned
  <2>2. /\ pc' = "idle" /\ result' = [kind |-> "error", about |-> asked, of |-> req]
        /\ unread' = unread + 1 /\ overlooked' = overlooked + 1
        /\ UNCHANGED <<req, asked, window, answered, toSim, inSim, toClient>>
    BY <1>e DEF OutOfRange, RecvFails, RecvError, Return
  <2> QED BY <1>0, <2>1, <2>2
<1>5. CASE Receive
  <2> DEFINE record == Head(toClient)
  <2>1. toClient[1] = record /\ 1 \in 1..Len(toClient) /\ record \in Record
    BY <1>0, <1>5 DEF Receive
  <2>2. record.req \in 0..req /\ record.about \in Asked
    BY <1>0, <1>5, <2>1 DEF Receive, WireInv, Unread, Newest, Record
  <2>3. Tail(toClient) \in Seq(Record) /\ Len(Tail(toClient)) <= Capacity
    BY <1>0, <1>5 DEF Receive, QueryAssumption
  <2>4. result' \in [kind : {"none", "ok", "TimedOut", "error"}, about : Asked, of : 0..req]
    BY <1>0, <1>5, <2>2 DEF Receive, Return
  <2>5. /\ pc' = "idle" /\ answered' = record.req /\ toClient' = Tail(toClient)
        /\ UNCHANGED <<req, asked, window, unread, overlooked, toSim, inSim>>
    BY <1>5 DEF Receive, Return
  <2> QED BY <1>0, <2>2, <2>3, <2>4, <2>5
<1>6. CASE SimRead
  BY <1>0, <1>6 DEF SimRead, query, QueryAssumption
<1>7. ASSUME NEW k \in {"mad", "bad", "short"}, Answer(k) PROVE TypeOK'
  <2>1. Head(inSim) \in Record
    BY <1>0, <1>7 DEF Answer
  <2>2. [Head(inSim) EXCEPT !.kind = k] \in Record
    BY <2>1, AnswerRecord
  <2> QED BY <1>0, <1>7, <2>2 DEF Answer, query, QueryAssumption
<1>8. CASE SimSilent
  BY <1>0, <1>8 DEF SimSilent, query
<1>9. CASE UNCHANGED vars
  BY <1>0, <1>9 DEF vars, query
<1> QED BY <1>1, <1>2, <1>3, <1>4, <1>e, <1>5, <1>6, <1>7, <1>8, <1>9
        DEF Next, Client, Respond, SimAnswer, DeviceRefuses, KernelTimeout

-----------------------------------------------------------------------------
(* The order of the records survives when one is taken from the front,     *)
(* handed on or added at the end.                                          *)
LEMMA OrderOfTail ==
    ASSUME NEW s \in Seq(Record), s # <<>>, Increasing(s)
    PROVE  /\ Increasing(Tail(s))
           /\ \A i \in 1..Len(Tail(s)) : Head(s).req < Tail(s)[i].req
           /\ \A i \in 1..Len(Tail(s)) : Tail(s)[i] = s[i + 1]
<1>1. /\ Len(s) \in Nat \ {0} /\ Len(Tail(s)) = Len(s) - 1 /\ Head(s) = s[1]
      /\ \A i \in 1..Len(Tail(s)) : Tail(s)[i] = s[i + 1]
  OBVIOUS
<1> QED BY <1>1 DEF Increasing

(* A newer record at the end.                                              *)
LEMMA OrderOfAppend ==
    ASSUME NEW s \in Seq(Record), Increasing(s), NEW r \in Record,
           \A i \in 1..Len(s) : s[i].req < r.req
    PROVE  /\ Increasing(Append(s, r))
           /\ Len(Append(s, r)) = Len(s) + 1
           /\ \A i \in 1..Len(s) : Append(s, r)[i] = s[i]
           /\ Append(s, r)[Len(s) + 1] = r
<1>1. /\ Len(s) \in Nat /\ Len(Append(s, r)) = Len(s) + 1
      /\ \A i \in 1..Len(s) : Append(s, r)[i] = s[i]
      /\ Append(s, r)[Len(s) + 1] = r
  OBVIOUS
<1> QED BY <1>1 DEF Increasing

(* A serial is a number.                                                   *)
LEMMA SerialType ==
    ASSUME NEW s \in Seq(Record), NEW i \in 1..Len(s)
    PROVE  s[i].req \in Nat
<1>1. s[i] \in Record
  OBVIOUS
<1> QED BY <1>1 DEF Record

(* What is under way while a query is about to send is of an earlier one.  *)
LEMMA UnreadBound ==
    ASSUME NEW s \in Seq(Record), NEW n \in Nat, Newest = n - 1, Unread(s)
    PROVE  \A i \in 1..Len(s) : answered < s[i].req /\ s[i].req <= n
<1> SUFFICES ASSUME NEW i \in 1..Len(s)
             PROVE  answered < s[i].req /\ s[i].req <= n
  OBVIOUS
<1>1. s[i].req \in Nat
  BY SerialType
<1>2. answered < s[i].req /\ s[i].req <= n - 1
  BY DEF Unread
<1> QED BY <1>1, <1>2

(* A step that moves no record only has to leave room for the newest one.  *)
LEMMA WireStays ==
    ASSUME IInv, UNCHANGED <<answered, toSim, inSim, toClient>>,
           Newest \in Int, Newest' \in Int, Newest <= Newest'
    PROVE  WireInv'
<1>1. \A s \in {toSim, inSim, toClient} : \A i \in 1..Len(s) : s[i].req \in Nat
  BY SerialType DEF IInv, TypeOK
<1>2. WireInv
  BY DEF IInv
<1>3. Unread(toClient)' /\ Unread(inSim)' /\ Unread(toSim)'
  BY <1>1, <1>2 DEF WireInv, Unread
<1> QED BY <1>2, <1>3 DEF WireInv, Increasing, Before

(* A record moves one place at a time, and only forward: one step per      *)
(* action, for what it moves.                                              *)
LEMMA WireStep ==
    ASSUME IInv, [Next]_vars
    PROVE  WireInv'
<1>0. /\ WireInv /\ LagInv
      /\ req \in Nat /\ answered \in Nat
      /\ toSim \in Seq(Record) /\ inSim \in Seq(Record) /\ toClient \in Seq(Record)
      /\ Len(inSim) <= 1
  BY DEF IInv, TypeOK
<1>r. \A s \in {toSim, inSim, toClient} : \A i \in 1..Len(s) : s[i].req \in Nat
  BY SerialType DEF IInv, TypeOK
<1>1. CASE Query
  BY <1>0, <1>1, WireStays DEF Query, Newest
<1>2. CASE Send
  <2> DEFINE r == Request
  <2>1. r \in Record /\ r.req = req
    BY DEF Request, Record, IInv, TypeOK
  <2>2. \A s \in {toSim, inSim, toClient} : \A i \in 1..Len(s) : s[i].req < r.req
    BY <1>0, <1>2, <1>r, <2>1 DEF Send, WireInv, Unread, Newest
  <2>3. /\ Increasing(toSim') /\ Len(toSim') = Len(toSim) + 1
        /\ \A i \in 1..Len(toSim) : toSim'[i] = toSim[i]
        /\ toSim'[Len(toSim) + 1] = r
    BY <1>0, <1>2, <2>1, <2>2, OrderOfAppend DEF Send, WireInv
  <2>4. /\ answered < req /\ Newest' = req /\ Newest = req - 1
        /\ UNCHANGED <<req, answered, inSim, toClient>>
    BY <1>0, <1>2 DEF Send, Newest, LagInv
  <2>a. \A i \in 1..Len(toSim') : i \in 1..Len(toSim) \/ i = Len(toSim) + 1
    BY <1>0, <2>3
  <2>5. Unread(toClient)' /\ Unread(inSim)' /\ Unread(toSim)'
    <3>1. \A s \in {toSim, inSim, toClient} : \A i \in 1..Len(s) :
             answered < s[i].req /\ s[i].req <= req
      BY <1>0, <2>4, UnreadBound DEF WireInv
    <3>2. Unread(toClient)' /\ Unread(inSim)'
      BY <2>4, <3>1 DEF Unread
    <3>3. \A i \in 1..Len(toSim') : answered < toSim'[i].req /\ toSim'[i].req <= req
      <4>1. \A i \in 1..Len(toSim) : answered < toSim'[i].req /\ toSim'[i].req <= req
        BY <2>3, <3>1
      <4>2. toSim'[Len(toSim) + 1].req = req /\ answered < req /\ req \in Nat
        BY <1>0, <2>1, <2>3, <2>4
      <4> QED BY <2>a, <4>1, <4>2
    <3> QED BY <2>4, <3>2, <3>3 DEF Unread
  <2>6. Before(toClient, toSim)' /\ Before(inSim, toSim)'
    BY <1>0, <2>a, <2>1, <2>2, <2>3, <2>4 DEF WireInv, Before
  <2> QED BY <1>0, <2>3, <2>4, <2>5, <2>6 DEF WireInv, Increasing, Before
<1>3. CASE SendFails \/ OutOfRange \/ RecvFails \/ PollTimedOut
  BY <1>0, <1>3, WireStays
     DEF SendFails, OutOfRange, RecvFails, RecvError, PollTimedOut, Return, Newest
<1>5. CASE Receive
  <2> DEFINE r == Head(toClient)
  <2>1. /\ toClient # <<>> /\ r = toClient[1] /\ 1 \in 1..Len(toClient) /\ r \in Record
        /\ toClient' = Tail(toClient) /\ answered' = r.req /\ Newest' = req /\ Newest = req
        /\ UNCHANGED <<req, inSim, toSim>>
    BY <1>0, <1>5 DEF Receive, Return, Newest
  <2>2. /\ Increasing(toClient') /\ Len(toClient') = Len(toClient) - 1
        /\ \A i \in 1..Len(toClient') : r.req < toClient'[i].req
        /\ \A i \in 1..Len(toClient') : toClient'[i] = toClient[i + 1]
    <3>1. Increasing(toClient) /\ toClient \in Seq(Record) /\ toClient # <<>>
      BY <1>0, <2>1 DEF WireInv
    <3>2. Len(Tail(toClient)) = Len(toClient) - 1
      BY <3>1
    <3> QED BY <2>1, <3>1, <3>2, OrderOfTail
  <2>3. Unread(toClient)' /\ Unread(inSim)' /\ Unread(toSim)'
    BY <1>0, <1>r, <2>1, <2>2 DEF WireInv, Unread, Before
  <2>4. Before(toClient, inSim)' /\ Before(toClient, toSim)'
    BY <1>0, <1>r, <2>1, <2>2 DEF WireInv, Before
  <2> QED BY <1>0, <2>1, <2>2, <2>3, <2>4 DEF WireInv, Increasing, Before
<1>6. CASE SimRead
  <2> DEFINE r == Head(toSim)
  <2>1. /\ toSim # <<>> /\ r = toSim[1] /\ 1 \in 1..Len(toSim) /\ r \in Record
        /\ toSim' = Tail(toSim) /\ Len(inSim') = 1 /\ inSim'[1] = r /\ inSim = <<>>
        /\ UNCHANGED <<req, answered, toClient>> /\ Newest' = Newest
    BY <1>0, <1>6 DEF SimRead, query, Newest
  <2>2. /\ Increasing(toSim') /\ Len(toSim') = Len(toSim) - 1
        /\ \A i \in 1..Len(toSim') : r.req < toSim'[i].req
        /\ \A i \in 1..Len(toSim') : toSim'[i] = toSim[i + 1]
    BY <1>0, <2>1, OrderOfTail DEF WireInv
  <2>3. Unread(toClient)' /\ Unread(inSim)' /\ Unread(toSim)'
    BY <1>0, <1>r, <2>1, <2>2 DEF WireInv, Unread
  <2>4. Before(toClient, inSim)' /\ Before(toClient, toSim)' /\ Before(inSim, toSim)'
    BY <1>0, <1>r, <2>1, <2>2 DEF WireInv, Before
  <2> QED BY <1>0, <2>1, <2>2, <2>3, <2>4 DEF WireInv, Increasing
<1>7. ASSUME NEW k \in {"mad", "bad", "short"}, Answer(k) PROVE WireInv'
  <2> DEFINE r == [Head(inSim) EXCEPT !.kind = k]
  <2>1. inSim # <<>> /\ Head(inSim) = inSim[1] /\ 1 \in 1..Len(inSim) /\ Head(inSim) \in Record
    BY <1>0, <1>7 DEF Answer
  <2>2. r \in Record /\ r.req = inSim[1].req
    BY <2>1, AnswerRecord
  <2>3. /\ toClient' = Append(toClient, r) /\ inSim' = <<>> /\ Newest' = Newest
        /\ UNCHANGED <<req, answered, toSim>>
    BY <1>7 DEF Answer, query, Newest
  <2>4. \A i \in 1..Len(toClient) : toClient[i].req < r.req
    BY <1>0, <2>1, <2>2 DEF WireInv, Before
  <2>5. /\ Increasing(toClient') /\ Len(toClient') = Len(toClient) + 1
        /\ \A i \in 1..Len(toClient) : toClient'[i] = toClient[i]
        /\ toClient'[Len(toClient) + 1] = r
    BY <1>0, <2>2, <2>3, <2>4, OrderOfAppend DEF WireInv
  <2>6. Unread(toClient)' /\ Unread(inSim)' /\ Unread(toSim)'
    BY <1>0, <2>1, <2>2, <2>3, <2>5 DEF WireInv, Unread
  <2>7. Before(toClient, toSim)'
    BY <1>0, <2>1, <2>2, <2>3, <2>5 DEF WireInv, Before
  <2>8. Before(toClient, inSim)' /\ Before(inSim, toSim)'
    BY <2>3 DEF Before
  <2> QED BY <1>0, <2>3, <2>5, <2>6, <2>7, <2>8 DEF WireInv, Increasing
<1>8. CASE SimSilent
  BY <1>0, <1>8 DEF SimSilent, query, WireInv, Unread, Newest, Increasing, Before
<1>9. CASE UNCHANGED vars
  BY <1>0, <1>9 DEF vars, query, WireInv, Unread, Newest, Increasing, Before
<1> QED BY <1>1, <1>2, <1>3, <1>5, <1>6, <1>7, <1>8, <1>9
        DEF Next, Client, Respond, SimAnswer, DeviceRefuses, KernelTimeout

(* Only the client moves the account of queries.                           *)
LEMMA LagStep ==
    ASSUME IInv, [Next]_vars
    PROVE  LagInv'
<1>0. /\ WireInv /\ LagInv
      /\ req \in Nat /\ answered \in 0..req /\ unread \in Nat
      /\ toClient \in Seq(Record)
      /\ pc \in {"idle", "send", "wait"}
  BY DEF IInv, TypeOK
<1>1. CASE Query
  BY <1>0, <1>1 DEF Query, LagInv, Returned, NoResult
<1>2. CASE Send
  BY <1>0, <1>2 DEF Send, LagInv, Returned
<1>3. CASE SendFails \/ OutOfRange \/ RecvFails \/ PollTimedOut
  BY <1>0, <1>3
     DEF SendFails, OutOfRange, RecvFails, RecvError, PollTimedOut, Return, LagInv, Returned
<1>4. CASE Receive
  <2> DEFINE r == Head(toClient)
  <2>1. r = toClient[1] /\ 1 \in 1..Len(toClient) /\ r \in Record
    BY <1>0, <1>4 DEF Receive
  <2>2. answered < r.req /\ r.req \in Nat
    BY <1>0, <2>1 DEF WireInv, Unread, Record
  <2>3. /\ pc = "wait" /\ pc' = "idle" /\ answered' = r.req
        /\ result'.kind = "ok" => result'.of = r.req
        /\ UNCHANGED <<req, unread>>
    BY <1>4 DEF Receive, Return
  <2> QED BY <1>0, <2>1, <2>2, <2>3 DEF LagInv, Returned
<1>5. CASE UNCHANGED query
  BY <1>0, <1>5 DEF query, LagInv, Returned
<1> QED BY <1>1, <1>2, <1>3, <1>4, <1>5
        DEF Next, Client, SimRead, Respond, SimAnswer, DeviceRefuses, KernelTimeout,
            Answer, SimSilent, vars

-----------------------------------------------------------------------------
(* A record is added by Send alone, and moved or taken by all others.  Of  *)
(* the ways in which a query ends, a time-out of poll has found toClient   *)
(* empty, so that little is left, and each error is counted.               *)
LEMMA LoadStep ==
    ASSUME IInv, [Next]_vars
    PROVE  LoadInv'
<1>0. /\ LoadInv /\ QueryAssumption
      /\ toSim \in Seq(Record) /\ inSim \in Seq(Record) /\ toClient \in Seq(Record)
      /\ Len(toSim) <= Capacity /\ Len(inSim) <= 1
      /\ overlooked \in Nat /\ Capacity \in Nat
  BY QueryAssumption DEF IInv, TypeOK, QueryAssumption
<1> USE DEF LoadInv, Load
<1>1. CASE Query
  BY <1>0, <1>1 DEF Query
<1>2. CASE Send
  BY <1>0, <1>2 DEF Send
<1>3. CASE SendFails
  BY <1>0, <1>3 DEF SendFails, Return
<1>4. CASE PollTimedOut
  <2>1. Len(toClient) = 0
    BY <1>4 DEF PollTimedOut
  <2> QED BY <1>0, <1>4, <2>1 DEF PollTimedOut, Return
<1>5. CASE OutOfRange \/ RecvFails
  BY <1>0, <1>5 DEF OutOfRange, RecvFails, RecvError, Return
<1>6. CASE Receive
  <2>1. Len(toClient') = Len(toClient) - 1
    BY <1>0, <1>6 DEF Receive
  <2>2. pc = "wait" /\ pc' = "idle" /\ UNCHANGED <<overlooked, inSim, toSim>>
    BY <1>6 DEF Receive, Return
  <2> QED BY <1>0, <2>1, <2>2
<1>7. CASE SimRead
  <2>1. Len(toSim') = Len(toSim) - 1 /\ Len(inSim') = 1 /\ Len(inSim) = 0
    BY <1>0, <1>7 DEF SimRead
  <2> QED BY <1>0, <1>7, <2>1 DEF SimRead, query
<1>8. ASSUME NEW k \in {"mad", "bad", "short"}, Answer(k) PROVE LoadInv'
  <2>1. /\ Len(toClient') = Len(toClient) + 1 /\ Len(inSim') = 0
        /\ Len(inSim) \in Nat \ {0}
    BY <1>0, <1>8 DEF Answer
  <2> QED BY <1>0, <1>8, <2>1 DEF Answer, query
<1>9. CASE SimSilent
  <2>1. Len(inSim') = 0
    BY <1>9 DEF SimSilent
  <2> QED BY <1>0, <1>9, <2>1 DEF SimSilent, query
<1>10. CASE UNCHANGED vars
  BY <1>0, <1>10 DEF vars, query
<1> QED BY <1>1, <1>2, <1>3, <1>4, <1>5, <1>6, <1>7, <1>8, <1>9, <1>10
        DEF Next, Client, Respond, SimAnswer, DeviceRefuses, KernelTimeout

-----------------------------------------------------------------------------
(* The invariant that the theorems rest on.                                *)
LEMMA Invariant == Spec => []IInv
<1>1. IInv /\ [Next]_vars => IInv'
  BY TypeStep, WireStep, LagStep, LoadStep DEF IInv
<1> QED BY InitInv, <1>1, PTL DEF Spec

(* The variables keep their types: no direction of the file ever holds     *)
(* more than it has room for, and no received serial is of the future.     *)
THEOREM TypeCorrect == Spec => []TypeOK
<1>1. IInv => TypeOK
  BY DEF IInv
<1> QED BY <1>1, Invariant, PTL

(* The account bounds the lag.                                             *)
LEMMA LagOfInv == IInv => LagIsBounded
BY DEF IInv, TypeOK, LagInv, Returned, LagIsBounded

(* An answer is late by no more queries than have returned without having  *)
(* read anything, however many are asked and however they are answered.    *)
THEOREM LagBounded == Spec => []LagIsBounded
BY LagOfInv, Invariant, PTL

(* Both directions full and an answer in hand are more than the time-outs  *)
(* of poll leave behind.                                                   *)
LEMMA BlockOfInv == IInv => EmbraceTakesErrors
<1> SUFFICES ASSUME IInv, Embrace PROVE overlooked >= Capacity
  BY DEF EmbraceTakesErrors
<1>1. Len(toSim) = Capacity /\ Len(toClient) = Capacity /\ pc = "send" /\ inSim # <<>>
  BY DEF Embrace
<1>2. LoadInv /\ inSim \in Seq(Record) /\ overlooked \in Nat /\ Capacity \in Nat
  BY QueryAssumption DEF IInv, TypeOK
<1>3. Len(inSim) \in Nat \ {0}
  BY <1>1, <1>2
<1> QED BY <1>1, <1>2, <1>3 DEF LoadInv, Load

(* A query and the responder wait for each other only after as many errors *)
(* of recv as one direction of the file has room for, for all capacities   *)
(* and however many polls time out.                                        *)
THEOREM BlockTakesErrors == Spec => []EmbraceTakesErrors
BY BlockOfInv, Invariant, PTL

(* The order in each of the three places, and between them, is the order   *)
(* of all the records.                                                     *)
LEMMA OrderOfInv == IInv => InOrder
<1> SUFFICES ASSUME IInv PROVE InOrder
  OBVIOUS
<1>0. /\ WireInv
      /\ toSim \in Seq(Record) /\ inSim \in Seq(Record) /\ toClient \in Seq(Record)
      /\ Len(inSim) <= 1 /\ answered \in Nat /\ req \in Nat
  BY DEF IInv, TypeOK
<1> DEFINE pipe == toClient \o inSim \o toSim
           a == Len(toClient)
           b == a + Len(inSim)
<1>1. /\ DOMAIN pipe = 1..(b + Len(toSim))
      /\ a \in Nat /\ b \in Nat /\ a <= b /\ Len(toSim) \in Nat
      /\ \A i \in DOMAIN pipe :
            pipe[i] = IF i <= a THEN toClient[i]
                      ELSE IF i <= b THEN inSim[i - a] ELSE toSim[i - b]
  BY <1>0
<1>2. \A i \in DOMAIN pipe : pipe[i].req > answered
  BY <1>0, <1>1 DEF WireInv, Unread
<1>3. ASSUME NEW i \in DOMAIN pipe, NEW j \in DOMAIN pipe, i < j
      PROVE  pipe[i].req < pipe[j].req
  <2> HIDE DEF pipe
  <2>1. i \in 1..(b + Len(toSim)) /\ j \in 1..(b + Len(toSim))
    BY <1>1, <1>3
  <2>2. CASE j <= a
    BY <1>0, <1>1, <1>3, <2>1, <2>2 DEF WireInv, Increasing
  <2>3. CASE i > b
    <3>1. /\ i - b \in 1..Len(toSim) /\ j - b \in 1..Len(toSim) /\ i - b < j - b
          /\ pipe[i] = toSim[i - b] /\ pipe[j] = toSim[j - b]
      BY <1>1, <1>3, <2>1, <2>3
    <3> QED BY <1>0, <3>1 DEF WireInv, Increasing
  <2>4. CASE i <= a /\ a < j
    BY <1>0, <1>1, <1>3, <2>1, <2>4, SMTT(30) DEF WireInv, Before
  <2>5. CASE a < i /\ i <= b
    <3>1. /\ i - a \in 1..Len(inSim) /\ pipe[i] = inSim[i - a]
      BY <1>1, <1>3, <2>1, <2>5
    <3>2. j > b
      BY <1>0, <1>1, <1>3, <2>1, <2>5
    <3>3. j - b \in 1..Len(toSim) /\ pipe[j] = toSim[j - b]
      BY <1>1, <2>1, <3>2
    <3> QED BY <1>0, <3>1, <3>3 DEF WireInv, Before
  <2> QED BY <1>1, <2>1, <2>2, <2>3, <2>4, <2>5
<1> QED BY <1>2, <1>3 DEF InOrder

(* Answers stay in the order of their queries, and none is given twice.    *)
THEOREM AnswersInOrder == Spec => []InOrder
BY OrderOfInv, Invariant, PTL

-----------------------------------------------------------------------------
(* A step of the session is a step of its one half and of the other, or    *)
(* leaves it alone; so each half keeps the invariant it has by itself,     *)
(* although ports are opened between the queries of the other.             *)
LEMMA SessionInvariant == SessionSpec => [](DevInv /\ IInv)
<1>1. SessionInit => DevInv /\ IInv
  BY DevInitially, InitInv DEF SessionInit
<1>2. DevInv /\ IInv /\ [SessionNext]_session => DevInv' /\ IInv'
  <2>1. [SessionNext]_session => [Next]_vars /\ [DevNext]_dev_vars
    BY DEF SessionNext, GetPorts, AskCounters, session
  <2>2. IInv /\ [Next]_vars => IInv'
    BY TypeStep, WireStep, LagStep, LoadStep DEF IInv
  <2> QED BY <2>1, <2>2, DevInductive
<1> QED BY <1>1, <1>2, PTL DEF SessionSpec

(* In a session the least device of each kind is chosen, in whatever order *)
(* the entries come and whatever is asked meanwhile.                       *)
THEOREM SessionOrderDoesNotMatter == SessionSpec => []ChoiceIsLeast
<1>1. DevInv => ChoiceIsLeast
  BY DEF DevInv
<1> QED BY <1>1, SessionInvariant, PTL

(* In a session SMPs and counters never share a device, if there are two.  *)
THEOREM SessionPortsAreSeparate == SessionSpec => []SeparatePorts
<1>1. DevInv => SeparatePorts
  BY DEF DevInv
<1> QED BY <1>1, SessionInvariant, PTL

(* In a session an answer is late by no more queries than have returned    *)
(* without having read anything.                                           *)
THEOREM SessionLagBounded == SessionSpec => []LagIsBounded
BY LagOfInv, SessionInvariant, PTL

(* In a session answers stay in the order of their queries.                *)
THEOREM SessionAnswersInOrder == SessionSpec => []InOrder
BY OrderOfInv, SessionInvariant, PTL
=============================================================================
