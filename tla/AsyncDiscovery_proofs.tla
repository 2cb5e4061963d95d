------------------------ MODULE AsyncDiscovery_proofs -----------------------
(***************************************************************************)
(* Proofs about the crawl of the asynchronous example, for every fabric    *)
(* and every order of the answers: what it records is true, it keeps the   *)
(* promise of Outstanding, it asks no more than the fabric calls for, and  *)
(* it misses nothing unless a request expires.                             *)
(*                                                                         *)
(* A link is recorded from a request alone: from the node that sent it and *)
(* the last hop of its route.  So the invariant is about the requests: the *)
(* route of each leads where its sender says, and has room for a hop more. *)
(***************************************************************************)
EXTENDS AsyncDiscovery, DirectedRoute_proofs

(* A request as the crawl keeps it.                                        *)
Request ==
    [tid : Nat, attr : {"NodeInfo", "NodeDesc", "PortInfo"}, path : [Index -> 0..255],
     port : 0..255, guid : Node \cup {Nobody}]

(* The route of a request is one that the crawl can have made: the         *)
(* simulator answers along it, and it is no longer than the nodes that it  *)
(* may have passed.                                                        *)
Leads(path, hops) ==
    /\ IsRoute(path) /\ path[0] = 0
    /\ GetHopCount(path) <= hops
    /\ Arrival(cabling, path) # Nowhere

(* The nodes a route can pass: switches, and the node that it starts at.   *)
Passed == visited \cap (Switches \cup {Root})

(* A NodeInfo is asked of the agent's own node, across a cable of a node   *)
(* that a route can pass, or, through a port 0, of that node itself.       *)
AsksBeyond(r) ==
    /\ Leads(r.path, Cardinality(Passed))
    /\ \/ r.guid = Nobody /\ r.path = StartPath
       \/ r.guid \in Passed /\ AskedBy(r) \in DOMAIN cabling
          /\ Arrival(cabling, r.path) = cabling[AskedBy(r)]
       \/ r.guid \in Passed /\ FollowsPortZero(r.guid)
          /\ Arrival(cabling, r.path)[1] = r.guid
          /\ AskedBy(r)[1] = r.guid

(* The other attributes are asked of a node that is known, along the route *)
(* by which it answered first.                                             *)
AsksNode(r) ==
    /\ r.guid \in visited
    /\ Leads(r.path, Cardinality(Passed \ {r.guid}))
    /\ Arrival(cabling, r.path)[1] = r.guid
    /\ r.port \in 0..NPorts[r.guid]
    /\ r.attr = "PortInfo" => r.port \in FirstPort(r.guid)..NPorts[r.guid]

Sound(r) == IF r.attr = "NodeInfo" THEN AsksBeyond(r) ELSE AsksNode(r)

CrawlInv ==
    /\ root_port \in RootPorts /\ cabling \in Cablings
    /\ visited \subseteq Node /\ DOMAIN ports = visited
    /\ tid \in Nat /\ smp_map \in Seq(Request)
    /\ \A i \in DOMAIN smp_map : Sound(smp_map[i])

(* Requests are kept in the order of their ids.                            *)
TrackInv ==
    /\ \A i \in DOMAIN smp_map : smp_map[i].tid < tid
    /\ \A i, j \in DOMAIN smp_map : i < j => smp_map[i].tid < smp_map[j].tid
    /\ over \in BOOLEAN /\ (over => smp_map = <<>>)

-----------------------------------------------------------------------------
(* What build_and_store_smp makes of the list: what was in it without the  *)
(* request answered, then the new requests with the next ids.              *)
LEMMA RequestList ==
    ASSUME tid \in Nat, smp_map \in Seq(Request), NEW answered,
           NEW asked \in Seq(Request), Requests(answered, asked)
    PROVE  /\ tid' \in Nat /\ tid' = tid + Len(asked)
           /\ smp_map' \in Seq(Request)
           /\ \E f : LET kept == {i \in DOMAIN smp_map : smp_map[i] # answered}
                         m == Len(smp_map') - Len(asked)
                     IN  /\ m \in Nat /\ DOMAIN f = 1..m /\ Enumerates(f, kept)
                         /\ \A k \in 1..m : f[k] \in DOMAIN smp_map /\ smp_map'[k] = smp_map[f[k]]
                         /\ \A k \in 1..Len(asked) :
                               smp_map'[m + k] = [asked[k] EXCEPT !.tid = tid + k - 1]
<1> DEFINE kept == {i \in DOMAIN smp_map : smp_map[i] # answered}
           old == Kept(smp_map, kept)
           new == [i \in DOMAIN asked |-> [asked[i] EXCEPT !.tid = tid + i - 1]]
<1>1. smp_map' = old \o new /\ tid' = tid + Len(asked)
  BY DEF Requests, Filter
<1>2. PICK f \in [DOMAIN old -> DOMAIN smp_map] :
          Enumerates(f, kept) /\ \A k \in DOMAIN old : old[k] = smp_map[f[k]]
  <2> kept \in SUBSET DOMAIN smp_map
    OBVIOUS
  <2> HIDE DEF kept
  <2> QED BY KeptInOrder
<1>3. old \in Seq(Request)
  <2> kept \in SUBSET DOMAIN smp_map
    OBVIOUS
  <2> HIDE DEF kept
  <2> QED BY KeptInOrder
<1>4. new \in Seq(Request) /\ Len(new) = Len(asked)
  <2>1. ASSUME NEW i \in DOMAIN asked PROVE [asked[i] EXCEPT !.tid = tid + i - 1] \in Request
    <3>1. asked[i] \in Request /\ i \in Nat /\ i >= 1
      OBVIOUS
    <3>2. tid + i - 1 \in Nat
      BY <3>1
    <3> QED BY <3>1, <3>2 DEF Request
  <2>2. DOMAIN new = 1..Len(asked) /\ Len(asked) \in Nat
    OBVIOUS
  <2>3. new \in [1..Len(asked) -> Request]
    BY <2>1, <2>2
  <2> QED BY <2>2, <2>3
<1> HIDE DEF old, kept
<1>5. /\ smp_map' \in Seq(Request) /\ Len(smp_map') = Len(old) + Len(new)
      /\ \A k \in 1..Len(old) : smp_map'[k] = old[k]
      /\ \A k \in 1..Len(new) : smp_map'[Len(old) + k] = new[k]
  <2> HIDE DEF new
  <2> QED BY <1>1, <1>3, <1>4
<1>6. /\ Len(old) \in Nat /\ Len(asked) \in Nat /\ DOMAIN old = 1..Len(old)
      /\ Len(smp_map') - Len(asked) = Len(old) /\ DOMAIN asked = 1..Len(asked)
  <2> HIDE DEF new
  <2> QED BY <1>3, <1>4, <1>5
<1>7. tid' \in Nat
  BY <1>1, <1>6
<1>8. \A k \in 1..Len(asked) : smp_map'[Len(old) + k] = [asked[k] EXCEPT !.tid = tid + k - 1]
  BY <1>4, <1>5, <1>6
<1>9. \A k \in 1..Len(old) : f[k] \in DOMAIN smp_map /\ smp_map'[k] = smp_map[f[k]]
  BY <1>2, <1>5, <1>6
<1> HIDE DEF new
<1> QED BY <1>1, <1>2, <1>5, <1>6, <1>7, <1>8, <1>9 DEF kept

(* The ids stay in order, and the set of open ids loses the one answered   *)
(* and gains the new ones.                                                 *)
LEMMA RequestIds ==
    ASSUME TrackInv, tid \in Nat, smp_map \in Seq(Request), NEW i \in DOMAIN smp_map,
           NEW asked \in Seq(Request), Requests(smp_map[i], asked)
    PROVE  /\ \A k \in DOMAIN smp_map' : smp_map'[k].tid < tid'
           /\ \A k, l \in DOMAIN smp_map' : k < l => smp_map'[k].tid < smp_map'[l].tid
           /\ {smp_map'[k].tid : k \in DOMAIN smp_map'} =
                 ({smp_map[k].tid : k \in DOMAIN smp_map} \ {smp_map[i].tid})
                 \cup (tid..(tid' - 1))
<1> DEFINE kept == {k \in DOMAIN smp_map : smp_map[k] # smp_map[i]}
           m == Len(smp_map') - Len(asked)
<1>1. /\ tid' \in Nat /\ tid' = tid + Len(asked) /\ smp_map' \in Seq(Request)
      /\ Len(asked) \in Nat
  BY RequestList
<1>2. PICK f : /\ m \in Nat /\ DOMAIN f = 1..m /\ Enumerates(f, kept)
               /\ \A k \in 1..m : f[k] \in DOMAIN smp_map /\ smp_map'[k] = smp_map[f[k]]
               /\ \A k \in 1..Len(asked) :
                     smp_map'[m + k] = [asked[k] EXCEPT !.tid = tid + k - 1]
  BY RequestList
<1>3. DOMAIN smp_map' = 1..(m + Len(asked)) /\ m \in Nat
  BY <1>1, <1>2
<1>4. \A k \in DOMAIN smp_map : smp_map[k].tid \in Nat /\ smp_map[k].tid < tid /\ k \in Nat
  <2>1. \A k \in DOMAIN smp_map : smp_map[k] \in Request /\ k \in Nat
    OBVIOUS
  <2> QED BY <2>1 DEF Request, TrackInv
<1>5. kept = DOMAIN smp_map \ {i}
  <2>1. \A k \in DOMAIN smp_map \ {i} : smp_map[k] # smp_map[i]
    BY <1>4 DEF TrackInv
  <2> QED BY <2>1
<1> HIDE DEF m, kept
<1>6. \A k \in 1..m : /\ smp_map'[k].tid = smp_map[f[k]].tid /\ f[k] \in kept
                      /\ smp_map'[k].tid \in Nat /\ smp_map'[k].tid < tid
  BY <1>2, <1>4 DEF Enumerates
<1>7. \A k \in 1..Len(asked) : smp_map'[m + k].tid = tid + k - 1
  <2> SUFFICES ASSUME NEW k \in 1..Len(asked) PROVE smp_map'[m + k].tid = tid + k - 1
    OBVIOUS
  <2>1. asked[k] \in Request
    OBVIOUS
  <2>2. PICK n : n = tid + k - 1
    OBVIOUS
  <2>3. smp_map'[m + k] = [asked[k] EXCEPT !.tid = n]
    BY <1>2, <2>2
  <2>4. \A r \in Request : [r EXCEPT !.tid = n].tid = n
    BY DEF Request
  <2>5. smp_map'[m + k].tid = n
    BY <2>1, <2>3, <2>4
  <2> QED BY <2>2, <2>5
<1>8. \A k \in DOMAIN smp_map' : k \notin 1..m =>
          k - m \in 1..Len(asked) /\ m + (k - m) = k
  BY <1>1, <1>3
<1>9. \A k \in DOMAIN smp_map' : k \notin 1..m => smp_map'[k].tid = tid + (k - m) - 1
  BY <1>7, <1>8
<1>10. \A k \in DOMAIN smp_map' : smp_map'[k].tid < tid'
  <2> SUFFICES ASSUME NEW k \in DOMAIN smp_map' PROVE smp_map'[k].tid < tid'
    OBVIOUS
  <2>1. CASE k \in 1..m
    <3>1. smp_map'[k].tid \in Nat /\ smp_map'[k].tid < tid
      BY <1>6, <2>1
    <3> QED BY <3>1, <1>1
  <2>2. CASE k \notin 1..m
    <3>1. k - m \in 1..Len(asked) /\ smp_map'[k].tid = tid + (k - m) - 1
      BY <1>8, <1>9, <2>2
    <3> QED BY <3>1, <1>1
  <2> QED BY <2>1, <2>2
<1>11. ASSUME NEW k \in DOMAIN smp_map', NEW l \in DOMAIN smp_map', k < l
       PROVE smp_map'[k].tid < smp_map'[l].tid
  <2>0. k \in Nat /\ l \in Nat
    BY <1>1, <1>3
  <2>1. CASE l \in 1..m
    <3>1. k \in 1..m
      BY <1>3, <1>11, <2>0, <2>1
    <3>2. f[k] < f[l] /\ f[k] \in DOMAIN smp_map /\ f[l] \in DOMAIN smp_map
      BY <1>2, <1>11, <2>1, <3>1 DEF Enumerates
    <3> QED BY <1>6, <2>1, <3>1, <3>2 DEF TrackInv
  <2>2. CASE l \notin 1..m /\ k \in 1..m
    <3>1. smp_map'[l].tid = tid + (l - m) - 1 /\ l - m >= 1
      BY <1>8, <1>9, <2>2
    <3>2. smp_map'[k].tid < tid /\ smp_map'[k].tid \in Nat
      BY <1>6, <2>2
    <3> QED BY <3>1, <3>2, <1>3, <2>0
  <2>3. CASE l \notin 1..m /\ k \notin 1..m
    BY <1>9, <2>0, <2>3, <1>3, <1>11
  <2> QED BY <2>1, <2>2, <2>3
<1>12. ASSUME NEW t
       PROVE (\E k \in DOMAIN smp_map' : smp_map'[k].tid = t) <=>
             \/ t \in tid..(tid' - 1)
             \/ \E k \in DOMAIN smp_map : smp_map[k].tid = t /\ t # smp_map[i].tid
  <2>1. ASSUME NEW k \in DOMAIN smp_map', smp_map'[k].tid = t, k \notin 1..m
        PROVE  t \in tid..(tid' - 1)
    <3>1. t = tid + (k - m) - 1 /\ k - m \in 1..Len(asked)
      BY <1>8, <1>9, <2>1
    <3> QED BY <3>1, <1>1
  <2>2. ASSUME NEW k \in DOMAIN smp_map', smp_map'[k].tid = t, k \in 1..m
        PROVE  \E l \in DOMAIN smp_map : smp_map[l].tid = t /\ t # smp_map[i].tid
    <3>1. f[k] \in DOMAIN smp_map /\ f[k] # i /\ smp_map[f[k]].tid = t
      BY <1>5, <1>6, <2>2
    <3>2. smp_map[f[k]].tid # smp_map[i].tid
      BY <3>1, <1>4 DEF TrackInv
    <3> QED BY <3>1, <3>2
  <2>3. ASSUME t \in tid..(tid' - 1)
        PROVE  \E k \in DOMAIN smp_map' : smp_map'[k].tid = t
    <3>1. t - tid + 1 \in 1..Len(asked) /\ tid + (t - tid + 1) - 1 = t
      BY <2>3, <1>1
    <3>2. m + (t - tid + 1) \in DOMAIN smp_map'
      BY <3>1, <1>1, <1>3
    <3> QED BY <3>1, <3>2, <1>7
  <2>4. ASSUME NEW l \in DOMAIN smp_map, smp_map[l].tid = t, t # smp_map[i].tid
        PROVE  \E k \in DOMAIN smp_map' : smp_map'[k].tid = t
    <3>1. l \in kept
      BY <1>5, <2>4
    <3>2. PICK k \in 1..m : f[k] = l
      BY <1>2, <3>1 DEF Enumerates
    <3>3. k \in DOMAIN smp_map'
      BY <3>2, <1>1, <1>3
    <3> QED BY <1>6, <2>4, <3>2, <3>3
  <2> QED BY <2>1, <2>2, <2>3, <2>4
<1> QED BY <1>10, <1>11, <1>12

-----------------------------------------------------------------------------
(* A request that is answered has come to a port of a node.                *)
LEMMA ArrivesAtPort ==
    ASSUME root_port \in RootPorts, cabling \in Cablings,
           NEW path, Arrival(cabling, path) # Nowhere
    PROVE  /\ Arrival(cabling, path) \in Ports \cup (Switches \X {0})
           /\ Arrival(cabling, path)[1] \in Node
<1>1. IsCabling(cabling) /\ root_port \in RootPorts
  BY CrawlAssumption
<1>2. \A p \in DOMAIN cabling : cabling[p] \in Ports
  BY <1>1 DEF IsCabling, IsWiring
<1>3. root_port \in Ports \cup (Switches \X {0})
  BY <1>1, RouteAssumption
<1>4. Arrival(cabling, path) \in Ports \cup (Switches \X {0})
  BY <1>2, <1>3, ArrivalType
<1>5. \A p \in Ports \cup (Switches \X {0}) : p[1] \in Node
  BY RouteAssumption DEF Ports, PortsOf
<1> QED BY <1>4, <1>5

(* The nodes known are finitely many, and no more than there are.          *)
LEMMA KnownNodes ==
    ASSUME NEW S \in SUBSET Node
    PROVE  /\ IsFiniteSet(S) /\ Cardinality(S) \in Nat /\ Cardinality(Node) \in Nat
           /\ Cardinality(S) <= Cardinality(Node)
           /\ \A T \in SUBSET S : Cardinality(T) \in Nat /\ Cardinality(T) <= Cardinality(S)
           /\ \A n \in Node \ S : Cardinality(S \cup {n}) = Cardinality(S) + 1
<1>1. IsFiniteSet(Node)
  BY RouteAssumption
<1>2. IsFiniteSet(S) /\ Cardinality(S) <= Cardinality(Node)
  BY <1>1, FS_Subset
<1>3. Cardinality(S) \in Nat /\ Cardinality(Node) \in Nat
  BY <1>1, <1>2, FS_CardinalityType
<1>4. \A T \in SUBSET S : IsFiniteSet(T) /\ Cardinality(T) <= Cardinality(S)
  BY <1>2, FS_Subset
<1>5. \A T \in SUBSET S : Cardinality(T) \in Nat
  BY <1>4, FS_CardinalityType
<1>6. \A n \in Node \ S : Cardinality(S \cup {n}) = Cardinality(S) + 1
  BY <1>2, FS_AddElement
<1> QED BY <1>2, <1>3, <1>4, <1>5, <1>6

(* A route leads where it led as long as no cable is touched.              *)
LEMMA SameArrival ==
    ASSUME UNCHANGED <<root_port, cabling>>, NEW path
    PROVE  Arrival(cabling, path)' = Arrival(cabling, path)
BY DEF Arrival, Hop

(* What is sound of a request stays so when more nodes become known, and   *)
(* does not depend on its id.                                              *)
LEMMA SoundStays ==
    ASSUME visited \subseteq visited', visited' \subseteq Node,
           UNCHANGED <<root_port, cabling>>,
           NEW r \in Request, Sound(r), NEW s,
           s.attr = r.attr, s.path = r.path, s.port = r.port, s.guid = r.guid
    PROVE  Sound(s)'
<1> DEFINE c == Cardinality(Passed)
           d == Cardinality(Passed)'
           e == Cardinality(Passed \ {r.guid})
           f == Cardinality(Passed \ {r.guid})'
<1>1. c \in Nat /\ d \in Nat /\ c <= d /\ e \in Nat /\ f \in Nat /\ e <= f
  <2>1. Passed \subseteq Passed' /\ Passed' \subseteq Node
    BY DEF Passed, Root
  <2>2. \A S \in SUBSET Node : \A T \in SUBSET S :
           Cardinality(T) \in Nat /\ Cardinality(S) \in Nat /\ Cardinality(T) <= Cardinality(S)
    BY KnownNodes
  <2>3. PICK P : P = Passed'
    OBVIOUS
  <2>4. P \in SUBSET Node /\ Passed \in SUBSET P
        /\ P \ {r.guid} \in SUBSET Node /\ Passed \ {r.guid} \in SUBSET (P \ {r.guid})
    BY <2>1, <2>3
  <2>5. Cardinality(P) = d /\ Cardinality(P \ {r.guid}) = f
    BY <2>3
  <2> QED BY <2>2, <2>4, <2>5
<1>2. \A path : Arrival(cabling, path)' = Arrival(cabling, path)
  BY SameArrival
<1>3. FollowsPortZero(r.guid)' = FollowsPortZero(r.guid)
  BY DEF FollowsPortZero, IsUp, InfoPort
<1>4. IsRoute(r.path) => GetHopCount(r.path) \in Nat
  BY HopCount, IndexFacts DEF Index
<1> HIDE DEF c, d, e, f
<1>5. CASE r.attr = "NodeInfo"
  <2>1. /\ IsRoute(r.path) /\ r.path[0] = 0 /\ GetHopCount(r.path) <= c
        /\ Arrival(cabling, r.path) # Nowhere
    BY <1>5 DEF Sound, AsksBeyond, Leads, c
  <2>2. GetHopCount(s.path) <= d
    BY <2>1, <1>1, <1>4
  <2>3. /\ AskedBy(s)' = AskedBy(r)
        /\ Arrival(cabling, s.path)' = Arrival(cabling, r.path)
    BY <1>2 DEF AskedBy
  <2>4. Leads(s.path, Cardinality(Passed))'
    BY <2>1, <2>2, <2>3 DEF Leads, d
  <2>5. \/ r.guid = Nobody /\ r.path = StartPath
        \/ r.guid \in Passed' /\ AskedBy(r) \in DOMAIN cabling
           /\ Arrival(cabling, r.path) = cabling[AskedBy(r)]
        \/ r.guid \in Passed' /\ FollowsPortZero(r.guid)
           /\ Arrival(cabling, r.path)[1] = r.guid
           /\ AskedBy(r)[1] = r.guid
    <3>1. Passed \subseteq Passed'
      BY DEF Passed, Root
    <3> QED BY <3>1, <1>5 DEF Sound, AsksBeyond
  <2>6. FollowsPortZero(s.guid)' = FollowsPortZero(r.guid)
    BY <1>3
  <2>7. AsksBeyond(s)'
    BY <2>3, <2>4, <2>5, <2>6 DEF AsksBeyond
  <2> QED BY <2>7, <1>5 DEF Sound
<1>6. CASE r.attr # "NodeInfo"
  <2>1. /\ IsRoute(r.path) /\ r.path[0] = 0 /\ GetHopCount(r.path) <= e
        /\ Arrival(cabling, r.path) # Nowhere
    BY <1>6 DEF Sound, AsksNode, Leads, e
  <2>2. GetHopCount(s.path) <= f
    BY <2>1, <1>1, <1>4
  <2>3. Arrival(cabling, s.path)' = Arrival(cabling, r.path)
    BY <1>2
  <2>4. Leads(s.path, Cardinality(Passed \ {s.guid}))'
    BY <2>1, <2>2, <2>3 DEF Leads, f
  <2>5. /\ r.guid \in visited /\ Arrival(cabling, r.path)[1] = r.guid
        /\ r.port \in 0..NPorts[r.guid]
        /\ r.attr = "PortInfo" => r.port \in FirstPort(r.guid)..NPorts[r.guid]
    BY <1>6 DEF Sound, AsksNode
  <2>6. AsksNode(s)'
    BY <2>3, <2>4, <2>5 DEF AsksNode, FirstPort
  <2> QED BY <2>6, <1>6 DEF Sound
<1> QED BY <1>5, <1>6

(* A step that asks sound requests keeps the list sound.                   *)
LEMMA ListStaysSound ==
    ASSUME CrawlInv, visited \subseteq visited', visited' \subseteq Node,
           UNCHANGED <<root_port, cabling>>, NEW answered,
           NEW asked \in Seq(Request), Requests(answered, asked),
           \A k \in 1..Len(asked) : Sound(asked[k])'
    PROVE  /\ tid' \in Nat /\ smp_map' \in Seq(Request)
           /\ (\A i \in DOMAIN smp_map : Sound(smp_map[i]))'
<1>0. tid \in Nat /\ smp_map \in Seq(Request) /\ \A i \in DOMAIN smp_map : Sound(smp_map[i])
  BY DEF CrawlInv
<1> DEFINE m == Len(smp_map') - Len(asked)
<1>1. tid' \in Nat /\ smp_map' \in Seq(Request)
  BY <1>0, RequestList
<1>2. PICK f : /\ m \in Nat /\ DOMAIN f = 1..m
               /\ Enumerates(f, {i \in DOMAIN smp_map : smp_map[i] # answered})
               /\ \A k \in 1..m : f[k] \in DOMAIN smp_map /\ smp_map'[k] = smp_map[f[k]]
               /\ \A k \in 1..Len(asked) :
                     smp_map'[m + k] = [asked[k] EXCEPT !.tid = tid + k - 1]
  BY <1>0, RequestList, ZenonT(30)
<1>3. SUFFICES ASSUME NEW i \in DOMAIN smp_map', NEW r, r = smp_map'[i] PROVE Sound(r)'
  BY <1>1
<1>4. i \in 1..(m + Len(asked)) /\ Len(asked) \in Nat
  BY <1>1, <1>2
<1> HIDE DEF m
<1>5. CASE i <= m
  <2>1. f[i] \in DOMAIN smp_map /\ r = smp_map[f[i]]
    BY <1>2, <1>3, <1>4, <1>5
  <2>2. r \in Request /\ Sound(r)
    BY <2>1, <1>0
  <2> QED BY <2>2, SoundStays
<1>6. CASE ~(i <= m)
  <2>1. PICK k \in 1..Len(asked) : i = m + k
    <3>1. i - m \in 1..Len(asked) /\ i = m + (i - m)
      BY <1>2, <1>4, <1>6
    <3> QED BY <3>1
  <2>2. PICK q : q = asked[k]
    OBVIOUS
  <2>3. q \in Request /\ Sound(q)'
    BY <2>2
  <2>4. PICK n : n = tid + k - 1
    OBVIOUS
  <2>5. r = [q EXCEPT !.tid = n]
    BY <1>2, <1>3, <2>1, <2>2, <2>4
  <2>6. r.attr = q.attr /\ r.path = q.path /\ r.port = q.port /\ r.guid = q.guid
    BY <2>3, <2>5 DEF Request
  <2> QED BY <2>3, <2>6 DEF Sound, AsksBeyond, AsksNode, Leads, AskedBy
<1> QED BY <1>5, <1>6

-----------------------------------------------------------------------------
(* A node that answers for the first time is asked for its description and *)
(* its ports, along the route it answered by.                              *)
FollowUp(node, path) ==
    <<Ask("NodeDesc", path, 0, node)>>
    \o [i \in 1..(NPorts[node] - FirstPort(node) + 1) |->
           Ask("PortInfo", path, FirstPort(node) + i - 1, node)]

(* The description and every port of the node are asked for, each once, by *)
(* requests that name the node and its route.                              *)
LEMMA FollowUpAsks ==
    ASSUME NEW node \in Node, NEW path \in [Index -> 0..255]
    PROVE  /\ FollowUp(node, path) \in Seq(Request)
           /\ \A k \in 1..Len(FollowUp(node, path)) :
                 \A r : r = FollowUp(node, path)[k] =>
                     /\ r.attr \in {"NodeDesc", "PortInfo"}
                     /\ r.path = path /\ r.guid = node /\ r.port \in 0..NPorts[node]
                     /\ r.attr = "PortInfo" => r.port \in FirstPort(node)..NPorts[node]
                     /\ r.attr = "PortInfo" => r.port = FirstPort(node) + k - 2
           /\ Len(FollowUp(node, path)) = NPorts[node] - FirstPort(node) + 2
<1> DEFINE n == NPorts[node]
           first == FirstPort(node)
           infos == [i \in 1..(n - first + 1) |-> Ask("PortInfo", path, first + i - 1, node)]
           Good(r) == /\ r \in Request
                      /\ r.attr \in {"NodeDesc", "PortInfo"}
                      /\ r.path = path /\ r.guid = node /\ r.port \in 0..n
                      /\ r.attr = "PortInfo" => r.port \in first..n
<1>1. n \in 1..255 /\ first \in 0..1
  BY RouteAssumption DEF FirstPort
<1>2. FollowUp(node, path) = <<Ask("NodeDesc", path, 0, node)>> \o infos
  BY DEF FollowUp
<1> HIDE DEF n, first
<1>3. n - first + 1 \in Nat
  BY <1>1
<1>4. Good(Ask("NodeDesc", path, 0, node))
  BY <1>1 DEF Ask, Request
<1>5. ASSUME NEW i \in 1..(n - first + 1) PROVE Good(infos[i])
  <2>1. PICK p : p = first + i - 1
    OBVIOUS
  <2>2. p \in first..n /\ p \in 0..n /\ p \in 0..255
    BY <1>1, <1>3, <2>1
  <2>3. infos[i] = Ask("PortInfo", path, p, node)
    BY <2>1
  <2>4. Ask("PortInfo", path, p, node) \in Request
    BY <2>2 DEF Ask, Request
  <2> QED BY <2>2, <2>3, <2>4 DEF Ask
<1>5p. \A i \in 1..(n - first + 1) : infos[i].port = first + i - 1
  BY DEF Ask
<1>6. infos \in Seq(Request) /\ Len(infos) = n - first + 1
  <2>1. infos \in [1..(n - first + 1) -> Request]
    BY <1>5
  <2> HIDE DEF infos
  <2> QED BY <2>1, <1>3
<1>7. <<Ask("NodeDesc", path, 0, node)>> \in Seq(Request)
  BY <1>4
<1> HIDE DEF infos
<1>8. /\ FollowUp(node, path) \in Seq(Request)
      /\ Len(FollowUp(node, path)) = 1 + Len(infos)
      /\ FollowUp(node, path)[1] = Ask("NodeDesc", path, 0, node)
      /\ \A k \in 1..Len(FollowUp(node, path)) :
            k # 1 => k - 1 \in 1..Len(infos) /\ FollowUp(node, path)[k] = infos[k - 1]
  BY <1>2, <1>3, <1>6, <1>7
<1>9. ASSUME NEW k \in 1..Len(FollowUp(node, path)) PROVE Good(FollowUp(node, path)[k])
  <2>1. CASE k = 1
    BY <2>1, <1>4, <1>8
  <2>2. CASE k # 1
    <3>1. Good(infos[k - 1])
      BY <2>2, <1>5, <1>6, <1>8
    <3> QED BY <3>1, <2>2, <1>8
  <2> QED BY <2>1, <2>2
<1>10. ASSUME NEW k \in 1..Len(FollowUp(node, path)),
              FollowUp(node, path)[k].attr = "PortInfo"
       PROVE  FollowUp(node, path)[k].port = first + k - 2
  <2>1. k # 1
    BY <1>8, <1>10 DEF Ask
  <2>2. k - 1 \in 1..Len(infos) /\ FollowUp(node, path)[k] = infos[k - 1]
    BY <1>8, <2>1
  <2>3. infos[k - 1].port = first + (k - 1) - 1
    BY <1>5p, <1>6, <2>2
  <2> QED BY <1>1, <2>2, <2>3
<1>11. Len(FollowUp(node, path)) = n - first + 2
  BY <1>1, <1>6, <1>8
<1> QED BY <1>8, <1>9, <1>10, <1>11 DEF n, first

(* Making a port that a node has already changes nothing.                  *)
LEMMA WithPortFacts ==
    ASSUME NEW known, NEW p
    PROVE  /\ DOMAIN WithPort(known, p) = DOMAIN known \cup {p[1]}
           /\ \A n \in DOMAIN known : n # p[1] => WithPort(known, p)[n] = known[n]
           /\ p[1] \in DOMAIN known => WithPort(known, p)[p[1]] = known[p[1]] \cup {p[2]}
<1> DEFINE value == (IF p[1] \in DOMAIN known THEN known[p[1]] ELSE {}) \cup {p[2]}
<1>1. WithPort(known, p) = Put(known, p[1], value)
  BY DEF WithPort
<1>2. p[1] \in DOMAIN known => value = known[p[1]] \cup {p[2]}
  OBVIOUS
<1> HIDE DEF value
<1>3. /\ DOMAIN Put(known, p[1], value) = DOMAIN known \cup {p[1]}
      /\ Put(known, p[1], value)[p[1]] = value
      /\ \A k \in DOMAIN known \ {p[1]} : Put(known, p[1], value)[k] = known[k]
  BY DEF Put
<1> QED BY <1>1, <1>2, <1>3

(* The ports of a node that is not looked at through its port 0.           *)
Ordered(known) ==
    \A n \in DOMAIN known : FollowsPortZero(n) \/ known[n] = FirstPort(n)..NPorts[n]

(* Making a port that the node numbers, or one of a node that is looked at *)
(* through its port 0, keeps the ports in order.                           *)
LEMMA OwnPort ==
    ASSUME NEW known, Ordered(known), NEW p, p[1] \in DOMAIN known,
           FollowsPortZero(p[1]) \/ p[2] \in FirstPort(p[1])..NPorts[p[1]]
    PROVE  Ordered(WithPort(known, p)) /\ DOMAIN WithPort(known, p) = DOMAIN known
<1>1. DOMAIN WithPort(known, p) = DOMAIN known
  <2>1. DOMAIN WithPort(known, p) = DOMAIN known \cup {p[1]}
    BY WithPortFacts
  <2> QED BY <2>1
<1>2. ASSUME NEW n \in DOMAIN known
      PROVE  FollowsPortZero(n) \/ WithPort(known, p)[n] = FirstPort(n)..NPorts[n]
  <2>1. CASE n # p[1]
    <3>1. \A k \in DOMAIN known : k # p[1] => WithPort(known, p)[k] = known[k]
      BY WithPortFacts, ZenonT(90)
    <3>3. WithPort(known, p)[n] = known[n]
      BY <2>1, <3>1
    <3>2. FollowsPortZero(n) \/ known[n] = FirstPort(n)..NPorts[n]
      BY DEF Ordered
    <3> QED BY <3>2, <3>3
  <2>2. CASE n = p[1]
    <3>1. WithPort(known, p)[n] = known[n] \cup {p[2]}
      BY <2>2, WithPortFacts
    <3>2. CASE FollowsPortZero(n)
      BY <3>2
    <3>3. CASE ~FollowsPortZero(n)
      <4>1. known[n] = FirstPort(n)..NPorts[n] /\ p[2] \in FirstPort(n)..NPorts[n]
        BY <3>3, <2>2 DEF Ordered
      <4> QED BY <4>1, <3>1
    <3> QED BY <3>2, <3>3
  <2> QED BY <2>1, <2>2
<1> QED BY <1>1, <1>2 DEF Ordered

(* A port that exists is one its node numbers.                             *)
LEMMA PortIsOwn ==
    ASSUME NEW p \in Ports \cup (Switches \X {0})
    PROVE  p[2] \in FirstPort(p[1])..NPorts[p[1]]
<1>1. CASE p \in Ports
  <2>1. p[1] \in Node /\ p[2] \in 1..NPorts[p[1]]
    BY <1>1 DEF Ports, PortsOf
  <2>2. NPorts[p[1]] \in 1..255 /\ FirstPort(p[1]) \in 0..1
    BY <2>1, RouteAssumption DEF FirstPort
  <2> QED BY <2>1, <2>2
<1>2. CASE p \in Switches \X {0}
  <2>1. p[1] \in Node /\ FirstPort(p[1]) = 0 /\ p[2] = 0
    BY <1>2, RouteAssumption DEF FirstPort
  <2>2. NPorts[p[1]] \in 1..255
    BY <2>1, RouteAssumption
  <2> QED BY <2>1, <2>2
<1> QED BY <1>1, <1>2

-----------------------------------------------------------------------------
(* The links recorded.                                                     *)
TrueOrOwn(links) ==
    \A p \in DOMAIN links :
        \/ p \in DOMAIN cabling /\ links[p] = cabling[p]
        \/ FollowsPortZero(p[1]) /\ links[p][1] = p[1]

(* The property is about the links and the ports, one part each.           *)
LEMMA GoodGraph == CrawlInv => (LinksTrueOrOwn <=> TrueOrOwn(remote) /\ Ordered(ports))
BY DEF CrawlInv, LinksTrueOrOwn, TrueOrOwn, Ordered

(* A cable may be recorded, and a link of a node with itself where port 0  *)
(* leads to the node.                                                      *)
LEMMA LinkIsTrue ==
    ASSUME TrueOrOwn(remote), IsCabling(cabling), NEW p, NEW q,
           \/ p \in DOMAIN cabling /\ q = cabling[p]
           \/ FollowsPortZero(p[1]) /\ q[1] = p[1]
    PROVE  TrueOrOwn(LinkPorts(p, q))
<1>1. /\ DOMAIN LinkPorts(p, q) = DOMAIN remote \cup {p, q}
      /\ LinkPorts(p, q)[p] = q
      /\ q # p => LinkPorts(p, q)[q] = p
      /\ \A x \in DOMAIN remote \ {p, q} : LinkPorts(p, q)[x] = remote[x]
  BY DEF LinkPorts, Put
<1>2. p \in DOMAIN cabling /\ q = cabling[p] => q \in DOMAIN cabling /\ cabling[q] = p
  BY DEF IsCabling, IsWiring
<1> QED BY <1>1, <1>2 DEF TrueOrOwn

(* What is asked for in the answer to a request that led to a node.        *)
LEMMA FollowUpSound ==
    ASSUME CrawlInv, NEW r \in Request, AsksBeyond(r),
           NEW node, node = Arrival(cabling, r.path)[1], node \notin visited,
           visited' = visited \cup {node}, UNCHANGED <<root_port, cabling>>
    PROVE  /\ FollowUp(node, r.path) \in Seq(Request)
           /\ \A k \in 1..Len(FollowUp(node, r.path)) : Sound(FollowUp(node, r.path)[k])'
<1> DEFINE c == Cardinality(Passed)
<1>1. /\ IsRoute(r.path) /\ r.path[0] = 0 /\ GetHopCount(r.path) <= c
      /\ Arrival(cabling, r.path) # Nowhere
  BY DEF AsksBeyond, Leads, c
<1>2. node \in Node
  BY <1>1, ArrivesAtPort DEF CrawlInv
<1>3. r.path \in [Index -> 0..255]
  BY <1>1 DEF IsRoute
<1>4. (Passed \ {node})' = Passed
  BY DEF Passed, Root
<1>5. GetHopCount(r.path) \in Nat
  BY <1>1, HopCount, IndexFacts DEF Index
<1> HIDE DEF c
<1>p. PICK path \in [Index -> 0..255] : path = r.path
  BY <1>3
<1>f. /\ FollowUp(node, path) \in Seq(Request)
      /\ \A k \in 1..Len(FollowUp(node, path)) :
            \A q : q = FollowUp(node, path)[k] =>
                /\ q.attr \in {"NodeDesc", "PortInfo"}
                /\ q.path = path /\ q.guid = node /\ q.port \in 0..NPorts[node]
                /\ q.attr = "PortInfo" => q.port \in FirstPort(node)..NPorts[node]
  BY <1>2, FollowUpAsks
<1>6. ASSUME NEW k \in 1..Len(FollowUp(node, r.path)), NEW s, s = FollowUp(node, r.path)[k]
      PROVE  Sound(s)'
  <2>1. /\ s.attr \in {"NodeDesc", "PortInfo"}
        /\ s.path = r.path /\ s.guid = node /\ s.port \in 0..NPorts[node]
        /\ s.attr = "PortInfo" => s.port \in FirstPort(node)..NPorts[node]
    BY <1>p, <1>f, <1>6
  <2>2. Arrival(cabling, s.path)' = Arrival(cabling, r.path)
    BY <2>1, SameArrival
  <2>3. Cardinality(Passed \ {s.guid})' = c
    BY <1>4, <2>1 DEF c
  <2>4. GetHopCount(s.path) <= c
    BY <1>1, <2>1
  <2>5. Leads(s.path, Cardinality(Passed \ {s.guid}))'
    BY <1>1, <2>1, <2>2, <2>3, <2>4 DEF Leads
  <2>6. AsksNode(s)'
    BY <2>1, <2>2, <2>5 DEF AsksNode, FirstPort
  <2> QED BY <2>6, <2>1 DEF Sound
<1> QED BY <1>p, <1>f, <1>6

(* A NodeInfo: the node that led to the one that answers is linked with it *)
(* by the cable between them, and a node that is new is followed.          *)
LEMMA NodeInfoStep ==
    ASSUME CrawlInv, TrueOrOwn(remote), Ordered(ports),
           NEW i \in DOMAIN smp_map, smp_map[i].attr = "NodeInfo",
           RecvNodeInfo(smp_map[i]), UNCHANGED <<root_port, cabling>>
    PROVE  CrawlInv' /\ TrueOrOwn(remote)' /\ Ordered(ports)'
<1>0. PICK r \in Request : r = smp_map[i]
  BY DEF CrawlInv
<1> DEFINE at == Arrival(cabling, r.path)
<1>n. PICK node : node = at[1]
  OBVIOUS
<1> DEFINE given == Put(ports, node, PortsGiven(node))
<1>a. PICK asked : asked = IF IsNew(node) THEN FollowUp(node, r.path) ELSE <<>>
  OBVIOUS
<1>1. AsksBeyond(r)
  BY <1>0 DEF CrawlInv, Sound
<1>2. /\ IF r.guid = Nobody
         THEN ports' = given /\ UNCHANGED remote
         ELSE /\ ports' = WithPort(WithPort(given, AskedBy(r)), at)
              /\ remote' = LinkPorts(AskedBy(r), at)
      /\ visited' = visited \cup {node}
      /\ Requests(r, asked)
      /\ UNCHANGED <<desc, info>>
  BY <1>0, <1>n, <1>a DEF RecvNodeInfo, FollowUp
<1>3. at # Nowhere /\ at \in Ports \cup (Switches \X {0}) /\ node \in Node
  BY <1>1, <1>n, ArrivesAtPort DEF AsksBeyond, Leads, CrawlInv
<1>4. visited \subseteq visited' /\ visited' \subseteq Node
  BY <1>2, <1>3 DEF CrawlInv
<1>5. asked \in Seq(Request) /\ \A k \in 1..Len(asked) : Sound(asked[k])'
  <2>1. CASE IsNew(node)
    <3>1. node \notin visited /\ asked = FollowUp(node, r.path)
      BY <1>a, <2>1 DEF IsNew
    <3>2. node = Arrival(cabling, r.path)[1]
      BY <1>n
    <3>3. /\ FollowUp(node, r.path) \in Seq(Request)
          /\ \A k \in 1..Len(FollowUp(node, r.path)) : Sound(FollowUp(node, r.path)[k])'
      BY <1>1, <1>2, <3>1, <3>2, FollowUpSound
    <3> QED BY <3>1, <3>3
  <2>2. CASE ~IsNew(node)
    BY <1>a, <2>2
  <2> QED BY <2>1, <2>2
<1>6. tid' \in Nat /\ smp_map' \in Seq(Request)
      /\ (\A k \in DOMAIN smp_map : Sound(smp_map[k]))'
  BY <1>2, <1>4, <1>5, ListStaysSound
<1>7. DOMAIN given = visited \cup {node} /\ Ordered(given)
  <2>1. PortsGiven(node) = FirstPort(node)..NPorts[node] \/ FollowsPortZero(node)
    BY DEF PortsGiven, Ordered
  <2>2. /\ DOMAIN given = DOMAIN ports \cup {node} /\ given[node] = PortsGiven(node)
        /\ \A k \in DOMAIN ports : k # node => given[k] = ports[k]
    BY DEF Put
  <2> HIDE DEF given
  <2> QED BY <2>1, <2>2 DEF Ordered, CrawlInv
<1>8. r.guid # Nobody =>
        /\ r.guid \in visited
        /\ \/ AskedBy(r) \in DOMAIN cabling /\ at = cabling[AskedBy(r)]
           \/ FollowsPortZero(r.guid) /\ at[1] = r.guid
        /\ AskedBy(r)[1] = r.guid
  BY <1>1 DEF AsksBeyond, AskedBy, Passed
<1>9. IsCabling(cabling)
  BY CrawlAssumption DEF CrawlInv
<1> HIDE DEF at, given
<1>10. DOMAIN ports' = visited' /\ Ordered(ports')
  <2>1. CASE r.guid = Nobody
    BY <2>1, <1>2, <1>7
  <2>2. CASE r.guid # Nobody
    <3>1. AskedBy(r)[1] \in DOMAIN given
      BY <1>7, <1>8, <2>2
    <3>2. FollowsPortZero(AskedBy(r)[1])
          \/ AskedBy(r)[2] \in FirstPort(AskedBy(r)[1])..NPorts[AskedBy(r)[1]]
      <4>1. CASE AskedBy(r) \in DOMAIN cabling
        <5>1. AskedBy(r) \in Ports
          BY <1>9, <4>1 DEF IsCabling, IsWiring
        <5> QED BY <5>1, PortIsOwn
      <4>2. CASE FollowsPortZero(r.guid)
        BY <4>2, <1>8, <2>2
      <4> QED BY <4>1, <4>2, <1>8, <2>2
    <3>3. PICK more : more = WithPort(given, AskedBy(r))
      OBVIOUS
    <3>4. Ordered(more) /\ DOMAIN more = DOMAIN given
      BY <1>7, <3>1, <3>2, <3>3, OwnPort
    <3>5. at[1] \in DOMAIN more
      BY <3>4, <1>7, <1>n
    <3>6. FollowsPortZero(at[1]) \/ at[2] \in FirstPort(at[1])..NPorts[at[1]]
      BY <1>3, PortIsOwn
    <3>7. Ordered(WithPort(more, at)) /\ DOMAIN WithPort(more, at) = DOMAIN more
      BY <3>4, <3>5, <3>6, OwnPort
    <3> QED BY <1>2, <1>7, <2>2, <3>3, <3>4, <3>7
  <2> QED BY <2>1, <2>2
<1>11. TrueOrOwn(remote')
  <2>1. CASE r.guid = Nobody
    BY <2>1, <1>2
  <2>2. CASE r.guid # Nobody
    <3>1. \/ AskedBy(r) \in DOMAIN cabling /\ at = cabling[AskedBy(r)]
          \/ FollowsPortZero(AskedBy(r)[1]) /\ at[1] = AskedBy(r)[1]
      BY <1>8, <2>2
    <3>2. TrueOrOwn(LinkPorts(AskedBy(r), at))
      BY <1>9, <3>1, LinkIsTrue
    <3> QED BY <1>2, <2>2, <3>2
  <2> QED BY <2>1, <2>2
<1>12. TrueOrOwn(remote)' /\ Ordered(ports)'
  BY <1>10, <1>11 DEF TrueOrOwn, Ordered, FollowsPortZero, IsUp, InfoPort, FirstPort
<1>13. CrawlInv'
  BY <1>4, <1>6, <1>10 DEF CrawlInv
<1> QED BY <1>12, <1>13

(* A NodeDesc only closes its request.                                     *)
LEMMA NodeDescStep ==
    ASSUME CrawlInv, TrueOrOwn(remote), Ordered(ports),
           NEW r, RecvNodeDesc(r), UNCHANGED <<root_port, cabling>>
    PROVE  CrawlInv' /\ TrueOrOwn(remote)' /\ Ordered(ports)'
<1>0. PICK asked : asked = <<>>
  OBVIOUS
<1>1. /\ Requests(r, asked) /\ UNCHANGED <<visited, ports, info, remote>>
  BY <1>0 DEF RecvNodeDesc
<1>2. asked \in Seq(Request) /\ Len(asked) = 0 /\ \A k \in 1..Len(asked) : Sound(asked[k])'
  BY <1>0
<1>3. visited \subseteq visited' /\ visited' \subseteq Node
  BY <1>1 DEF CrawlInv
<1>4. tid' \in Nat /\ smp_map' \in Seq(Request)
      /\ (\A k \in DOMAIN smp_map : Sound(smp_map[k]))'
  BY <1>1, <1>2, <1>3, ListStaysSound
<1>5. CrawlInv'
  BY <1>1, <1>4 DEF CrawlInv
<1> QED BY <1>1, <1>5 DEF TrueOrOwn, Ordered, FollowsPortZero, IsUp, InfoPort, FirstPort

(* Routes have room for every switch: a fabric has fewer than 63 of them.  *)
RoutesHaveRoom == Cardinality(Switches) + 1 < PathLen

(* The NodeInfo asked for across a port that is up: one hop more, across   *)
(* the cable of that port; or, for port 0, no hop more.                    *)
LEMMA OnwardSound ==
    ASSUME CrawlInv, RoutesHaveRoom, NEW r \in Request, AsksNode(r),
           r.attr = "PortInfo", ~IsEndpoint(r), IsUp(InfoPort(r.guid, r.port)),
           UNCHANGED <<root_port, cabling, visited>>,
           NEW s, s = Ask("NodeInfo", Onward(r), 0, r.guid)
    PROVE  /\ s \in Request /\ Sound(s)'
           /\ r.port # 0 => LET p == <<r.guid, r.port>>
                           IN  AskedBy(s) = p /\ Arrival(cabling, s.path) = cabling[p]
<1> DEFINE h == GetHopCount(r.path)
           c == Cardinality(Passed)
           e == Cardinality(Passed \ {r.guid})
<1>1. /\ IsRoute(r.path) /\ r.path[0] = 0 /\ h <= e
      /\ Arrival(cabling, r.path) # Nowhere
      /\ r.guid \in visited /\ Arrival(cabling, r.path)[1] = r.guid
      /\ r.port \in FirstPort(r.guid)..NPorts[r.guid] /\ r.port \in 0..NPorts[r.guid]
  BY DEF AsksNode, Leads
<1>2. r.guid \in Node /\ NPorts[r.guid] \in 1..255
  BY <1>1, RouteAssumption, ZenonT(30) DEF CrawlInv
<1>3. c \in Nat /\ e \in Nat /\ c = e + 1 /\ c <= Cardinality(Switches) + 1
      /\ Cardinality(Switches) \in Nat /\ r.guid \in Passed
  <2>1. r.guid \in Passed
    <3>1. r.guid \in Switches \/ r.path = StartPath
      BY DEF IsEndpoint
    <3>2. r.path = StartPath => r.guid = Root
      BY <1>1, StartRoute DEF Root
    <3> QED BY <1>1, <3>1, <3>2 DEF Passed
  <2>2. Passed \in SUBSET Node /\ Switches \in SUBSET Node
    BY RouteAssumption DEF CrawlInv, Passed
  <2>3. PICK S : S = Passed \ {r.guid}
    OBVIOUS
  <2>4. S \in SUBSET Node /\ r.guid \in Node \ S /\ S \cup {r.guid} = Passed
    BY <2>1, <2>2, <2>3
  <2>5. e = Cardinality(S) /\ e \in Nat /\ c = e + 1
    BY <2>3, <2>4, KnownNodes
  <2>6. IsFiniteSet(Switches) /\ Cardinality(Switches) \in Nat
    BY <2>2, KnownNodes
  <2>7. /\ IsFiniteSet(Switches \cup {Root})
        /\ Cardinality(Switches \cup {Root}) \in {Cardinality(Switches), Cardinality(Switches) + 1}
    BY <2>6, FS_AddElement
  <2>8. c <= Cardinality(Switches \cup {Root})
    BY <2>7, FS_Subset DEF Passed
  <2> QED BY <2>1, <2>5, <2>6, <2>7, <2>8
<1>4. h \in 0..(PathLen - 1) /\ \A i \in 1..(PathLen - 1) : r.path[i] # 0 <=> i <= h
  BY <1>1, HopCount
<1>5. PathLen \in Nat /\ h \in Nat /\ h + 1 < PathLen /\ h + 1 <= c
  BY <1>1, <1>3, <1>4, RouteAssumption DEF RoutesHaveRoom
<1>6. h + 1 \in Index /\ r.path \in [Index -> 0..255]
  BY <1>1, <1>5, SMTT(30) DEF Index, IsRoute
<1>7. /\ s.attr = "NodeInfo" /\ s.guid = r.guid /\ s.port = 0 /\ s.tid = 0
      /\ s.path = [r.path EXCEPT ![h + 1] = r.port]
  BY DEF Ask, Onward
<1>8. s \in Request
  <2>1. r.port \in 0..255
    BY <1>1, <1>2
  <2>2. [r.path EXCEPT ![h + 1] = r.port] \in [Index -> 0..255]
    BY <2>1, <1>6
  <2>3. PICK path \in [Index -> 0..255] : path = Onward(r)
    BY <2>2 DEF Onward
  <2> QED BY <2>3, <1>2 DEF Ask, Request
<1> HIDE DEF h, c, e
<1>9. CASE r.port = 0
  <2>1. r.guid \in Switches /\ FollowsPortZero(r.guid)
    <3>1. FirstPort(r.guid) = 0
      BY <1>1, <1>2, <1>9 DEF FirstPort
    <3> QED BY <3>1, <1>9 DEF FirstPort, FollowsPortZero
  <2>2. s.path = r.path
    <3>1. r.path[h + 1] = 0
      BY <1>4, <1>5
    <3> QED BY <3>1, <1>6, <1>7, <1>9
  <2>3. Arrival(cabling, s.path)' = Arrival(cabling, r.path)
    BY <2>2, SameArrival
  <2>4. GetHopCount(s.path) <= c
    BY <1>1, <1>3, <1>5, <2>2 DEF h
  <2>p. Passed' = Passed
    BY DEF Passed, Root
  <2>5. Leads(s.path, Cardinality(Passed))'
    BY <1>1, <2>2, <2>3, <2>4, <2>p DEF Leads, c
  <2>6. FollowsPortZero(s.guid)'
    BY <2>1, <1>7 DEF FollowsPortZero, IsUp, InfoPort
  <2>7. AskedBy(s)'[1] = s.guid
    BY DEF AskedBy
  <2>8. AsksBeyond(s)'
    <3>1. s.guid \in Passed' /\ Arrival(cabling, s.path)'[1] = s.guid
      BY <1>1, <1>3, <1>7, <2>p, <2>3
    <3> QED BY <3>1, <2>5, <2>6, <2>7 DEF AsksBeyond
  <2> QED BY <1>7, <1>8, <1>9, <2>8 DEF Sound
<1>10. CASE r.port # 0
  <2>1. r.port \in 1..255 /\ <<r.guid, r.port>> \in DOMAIN cabling
    BY <1>1, <1>2, <1>10 DEF IsUp, InfoPort
  <2>2. PICK number \in 1..255 : number = r.port
    BY <2>1
  <2>3. PICK path : path = r.path
    OBVIOUS
  <2>4. IsRoute(path) /\ GetHopCount(path) + 1 < PathLen
    BY <1>1, <1>5, <2>3 DEF h
  <2>5. LET longer == [path EXCEPT ![GetHopCount(path) + 1] = number]
        IN  /\ IsRoute(longer)
            /\ \A cable : Arrival(cable, longer) = Across(cable, Arrival(cable, path), number)
    BY <2>4, OneHopMore
  <2>6. IsRoute(s.path) /\ Arrival(cabling, s.path) = cabling[<<r.guid, r.port>>]
    <3>1. s.path = [path EXCEPT ![GetHopCount(path) + 1] = number]
      BY <1>7, <2>2, <2>3 DEF h
    <3>2. Arrival(cabling, s.path) = Across(cabling, Arrival(cabling, path), number)
      BY <2>5, <3>1
    <3>3. Arrival(cabling, path) # Nowhere /\ Arrival(cabling, path)[1] = r.guid
      BY <1>1, <2>3
    <3> QED BY <2>1, <2>2, <2>5, <3>1, <3>2, <3>3 DEF Across
  <2>7. GetHopCount(s.path) = h + 1 /\ s.path[h + 1] = r.port
    <3>1. /\ GetHopCount(s.path) \in 0..(PathLen - 1)
          /\ \A i \in 1..(PathLen - 1) : s.path[i] # 0 <=> i <= GetHopCount(s.path)
      BY <2>6, HopCount
    <3>2. s.path[h + 1] = r.port /\ \A i \in Index : i # h + 1 => s.path[i] = r.path[i]
      BY <1>6, <1>7
    <3>3. PICK g : g = GetHopCount(s.path)
      OBVIOUS
    <3>4. h + 1 <= g
      BY <3>1, <3>2, <3>3, <1>5, <1>10
    <3>5. ~(h + 2 <= g)
      <4>1. SUFFICES ASSUME h + 2 <= g PROVE FALSE
        OBVIOUS
      <4>2. h + 2 \in 1..(PathLen - 1) /\ h + 2 \in Index
        BY <4>1, <3>1, <3>3, <1>5 DEF Index
      <4>3. s.path[h + 2] # 0 /\ r.path[h + 2] = 0
        BY <4>1, <4>2, <3>1, <3>3, <1>4, <1>5
      <4> QED BY <4>2, <4>3, <3>2, <1>5
    <3> QED BY <3>1, <3>2, <3>3, <3>4, <3>5, <1>5
  <2>8. s.path[0] = 0
    BY <1>1, <1>5, <1>6, <1>7 DEF Index
  <2>9. Arrival(cabling, s.path)' = Arrival(cabling, s.path)
    BY SameArrival
  <2>10. cabling[<<r.guid, r.port>>] # Nowhere
    <3>1. cabling[<<r.guid, r.port>>] \in Ports
      BY <2>1, CrawlAssumption DEF CrawlInv, IsCabling, IsWiring
    <3>2. \A a, b : <<a, b>> # Nowhere
      BY DEF Nowhere
    <3>3. \A p \in Ports : p = <<p[1], p[2]>>
      BY DEF Ports, PortsOf
    <3> QED BY <3>1, <3>2, <3>3
  <2>p. Passed' = Passed
    BY DEF Passed, Root
  <2>11. Leads(s.path, Cardinality(Passed))'
    BY <1>5, <2>6, <2>7, <2>8, <2>9, <2>10, <2>p DEF Leads, c
  <2>12. AskedBy(s)' = <<r.guid, r.port>>
    BY <1>7, <2>7 DEF AskedBy
  <2>13. AsksBeyond(s)'
    BY <1>3, <1>7, <2>p, <2>1, <2>6, <2>9, <2>11, <2>12 DEF AsksBeyond
  <2>14. AskedBy(s) = <<r.guid, r.port>>
    BY <1>7, <2>7 DEF AskedBy
  <2> QED BY <1>7, <1>8, <2>6, <2>13, <2>14 DEF Sound
<1> QED BY <1>9, <1>10

(* A PortInfo: its port is recorded at the node, and followed if it is up. *)
LEMMA PortInfoStep ==
    ASSUME CrawlInv, TrueOrOwn(remote), Ordered(ports), RoutesHaveRoom,
           NEW i \in DOMAIN smp_map, smp_map[i].attr = "PortInfo",
           RecvPortInfo(smp_map[i]), UNCHANGED <<root_port, cabling>>
    PROVE  CrawlInv' /\ TrueOrOwn(remote)' /\ Ordered(ports)'
<1>0. PICK r \in Request : r = smp_map[i]
  BY DEF CrawlInv
<1>1. AsksNode(r) /\ r.attr = "PortInfo" /\ r.guid \in visited
      /\ r.port \in FirstPort(r.guid)..NPorts[r.guid]
  BY <1>0 DEF CrawlInv, Sound, AsksNode
<1>2. visited' = visited /\ remote' = remote
  BY DEF RecvPortInfo
<1>3. r.guid \in Node /\ visited \subseteq Node /\ NPorts[r.guid] \in 1..255
  BY <1>1, RouteAssumption DEF CrawlInv
<1>4. PICK asked : asked \in Seq(Request) /\ Requests(r, asked)
                   /\ \A k \in 1..Len(asked) : Sound(asked[k])'
  <2>1. ASSUME Requests(r, <<>>)
        PROVE  \E asked \in Seq(Request) : /\ Requests(r, asked)
                                           /\ \A k \in 1..Len(asked) : Sound(asked[k])'
    <3>1. PICK none : none = <<>>
      OBVIOUS
    <3>2. none \in Seq(Request) /\ Requests(r, none) /\ 1..Len(none) = {}
      BY <3>1, <2>1
    <3>3. \A k \in 1..Len(none) : Sound(none[k])'
      BY <3>2
    <3> QED BY <3>2, <3>3
  <2>2. ASSUME ~IsEndpoint(r), IsUp(InfoPort(r.guid, r.port)),
               Requests(r, <<Ask("NodeInfo", Onward(r), 0, r.guid)>>)
        PROVE  \E asked \in Seq(Request) : /\ Requests(r, asked)
                                           /\ \A k \in 1..Len(asked) : Sound(asked[k])'
    <3>1. PICK s : s = Ask("NodeInfo", Onward(r), 0, r.guid)
      OBVIOUS
    <3>2. s \in Request /\ Sound(s)'
      BY <1>1, <1>2, <2>2, <3>1, OnwardSound
    <3>3. PICK asked : asked = <<s>>
      OBVIOUS
    <3>4. asked \in Seq(Request) /\ Len(asked) = 1 /\ asked[1] = s
      BY <3>2, <3>3
    <3>5. Requests(r, asked)
      BY <2>2, <3>1, <3>3
    <3>6. \A k \in 1..Len(asked) : k = 1
      BY <3>4
    <3> QED BY <3>2, <3>4, <3>5, <3>6
  <2>3. \/ Requests(r, <<>>)
        \/ /\ ~IsEndpoint(r) /\ IsUp(InfoPort(r.guid, r.port))
           /\ Requests(r, <<Ask("NodeInfo", Onward(r), 0, r.guid)>>)
    BY <1>0 DEF RecvPortInfo
  <2> QED BY <2>1, <2>2, <2>3
<1>5. tid' \in Nat /\ smp_map' \in Seq(Request)
      /\ (\A k \in DOMAIN smp_map : Sound(smp_map[k]))'
  BY <1>2, <1>3, <1>4, ListStaysSound
<1>6. DOMAIN ports' = visited' /\ Ordered(ports')
  <2>1. ports' = ports \/ ports' = WithPort(ports, RecordedPort(r))
    BY <1>0 DEF RecvPortInfo
  <2>2. /\ RecordedPort(r)[1] = r.guid
        /\ RecordedPort(r)[2] \in FirstPort(r.guid)..NPorts[r.guid]
    <3>1. r.guid \notin Switches => FirstPort(r.guid) = 1
      BY DEF FirstPort
    <3>2. CASE r.guid \in Switches
      BY <3>2, <1>1 DEF RecordedPort
    <3>3. CASE r.guid \notin Switches
      <4>1. RecordedPort(r)[1] = r.guid /\ RecordedPort(r)[2] = 1
        BY <3>3 DEF RecordedPort
      <4> QED BY <4>1, <3>1, <3>3, <1>3
    <3> QED BY <3>2, <3>3
  <2>3. PICK p : p = RecordedPort(r)
    OBVIOUS
  <2>4. p[1] \in DOMAIN ports
    BY <1>1, <2>2, <2>3 DEF CrawlInv
  <2>5. Ordered(WithPort(ports, p)) /\ DOMAIN WithPort(ports, p) = DOMAIN ports
    BY <2>2, <2>3, <2>4, OwnPort
  <2> QED BY <1>2, <2>1, <2>3, <2>5 DEF CrawlInv
<1>7. CrawlInv'
  BY <1>2, <1>5, <1>6 DEF CrawlInv
<1> QED BY <1>2, <1>6, <1>7
        DEF TrueOrOwn, Ordered, FollowsPortZero, IsUp, InfoPort, FirstPort

-----------------------------------------------------------------------------
(* The first request.                                                      *)
LEMMA InitCrawl == Init => CrawlInv /\ TrackInv /\ TrueOrOwn(remote) /\ Ordered(ports)
<1> SUFFICES ASSUME Init PROVE CrawlInv /\ TrackInv /\ TrueOrOwn(remote) /\ Ordered(ports)
  OBVIOUS
<1>1. PICK r : r = Ask("NodeInfo", StartPath, 0, Nobody)
  OBVIOUS
<1>2. /\ smp_map = <<r>> /\ tid = 1 /\ over = FALSE
      /\ visited = {} /\ ports = <<>> /\ remote = <<>>
      /\ root_port \in RootPorts /\ cabling \in Cablings
  BY <1>1 DEF Init
<1>3. IsRoute(StartPath) /\ Arrival(cabling, StartPath) = root_port
  BY StartRoute
<1>4. StartPath[0] = 0 /\ \A i \in 1..(PathLen - 1) : StartPath[i] = 0
  BY IndexFacts DEF StartPath, Index
<1>5. /\ r.attr = "NodeInfo" /\ r.path = StartPath /\ r.port = 0
      /\ r.guid = Nobody /\ r.tid = 0 /\ r \in Request
  <2>1. StartPath \in [Index -> 0..255]
    BY <1>3 DEF IsRoute
  <2> QED BY <1>1, <2>1 DEF Ask, Request
<1>6. GetHopCount(StartPath) <= Cardinality(Passed)
  <2>1. /\ GetHopCount(StartPath) \in 0..(PathLen - 1)
        /\ \A i \in 1..(PathLen - 1) : StartPath[i] # 0 <=> i <= GetHopCount(StartPath)
    BY <1>3, HopCount
  <2>2. ~(1 <= GetHopCount(StartPath))
    BY <1>4, <2>1, RouteAssumption
  <2>3. Passed = {} /\ Cardinality(Passed) = 0
    BY <1>2, FS_EmptySet DEF Passed
  <2> QED BY <2>1, <2>2, <2>3, RouteAssumption
<1>7. root_port # Nowhere
  <2>1. root_port \in Ports \cup (Switches \X {0})
    BY <1>2, RouteAssumption
  <2> QED BY <2>1 DEF Ports, PortsOf, Nowhere
<1>8. Sound(r)
  BY <1>3, <1>4, <1>5, <1>6, <1>7 DEF Sound, AsksBeyond, Leads
<1>9. smp_map \in Seq(Request) /\ DOMAIN smp_map = {1} /\ smp_map[1] = r
  BY <1>2, <1>5
<1>10. CrawlInv
  <2>1. DOMAIN ports = {}
    BY <1>2
  <2> QED BY <1>2, <1>8, <1>9, <2>1 DEF CrawlInv
<1>11. TrackInv
  <2>1. \A i \in DOMAIN smp_map : i = 1 /\ smp_map[i].tid = 0
    BY <1>5, <1>9
  <2>2. \A i \in DOMAIN smp_map : smp_map[i].tid < tid
    BY <1>2, <2>1
  <2>3. \A i, j \in DOMAIN smp_map : i < j => smp_map[i].tid < smp_map[j].tid
    BY <2>1
  <2> QED BY <1>2, <2>2, <2>3 DEF TrackInv
<1> QED BY <1>2, <1>10, <1>11 DEF TrueOrOwn, Ordered

(* What has not expired is the end of the list.                            *)
LEMMA Expired ==
    ASSUME smp_map \in Seq(Request), NEW n \in DOMAIN smp_map,
           smp_map' = SubSeq(smp_map, n + 1, Len(smp_map))
    PROVE  /\ smp_map' \in Seq(Request) /\ Len(smp_map') = Len(smp_map) - n
           /\ n \in 1..Len(smp_map) /\ Len(smp_map) \in Nat
           /\ \A k \in DOMAIN smp_map' : n + k \in DOMAIN smp_map /\ smp_map'[k] = smp_map[n + k]
<1>1. smp_map \in Seq(Request) /\ n \in 1..Len(smp_map) /\ Len(smp_map) \in Nat
  OBVIOUS
<1> QED BY <1>1

(* No step records anything untrue, or asks along a route that leads       *)
(* elsewhere.                                                              *)
LEMMA CrawlStep ==
    ASSUME CrawlInv, TrueOrOwn(remote), Ordered(ports), RoutesHaveRoom,
           [Next]_vars
    PROVE  CrawlInv' /\ TrueOrOwn(remote)' /\ Ordered(ports)'
<1>1. CASE ProcessAnswer
  <2>1. UNCHANGED <<root_port, cabling>>
    BY <1>1 DEF ProcessAnswer
  <2>2. PICK i \in DOMAIN smp_map :
           CASE smp_map[i].attr = "NodeInfo" -> RecvNodeInfo(smp_map[i])
             [] smp_map[i].attr = "NodeDesc" -> RecvNodeDesc(smp_map[i])
             [] smp_map[i].attr = "PortInfo" -> RecvPortInfo(smp_map[i])
    BY <1>1 DEF ProcessAnswer
  <2>3. smp_map[i].attr \in {"NodeInfo", "NodeDesc", "PortInfo"}
    <3>1. smp_map[i] \in Request
      BY DEF CrawlInv
    <3> QED BY <3>1 DEF Request
  <2>4. CASE smp_map[i].attr = "NodeInfo"
    BY <2>1, <2>2, <2>4, NodeInfoStep
  <2>5. CASE smp_map[i].attr = "NodeDesc"
    <3>1. RecvNodeDesc(smp_map[i])
      BY <2>2, <2>5
    <3> QED BY <2>1, <3>1, NodeDescStep
  <2>6. CASE smp_map[i].attr = "PortInfo"
    BY <2>1, <2>2, <2>6, PortInfoStep
  <2> QED BY <2>3, <2>4, <2>5, <2>6
<1>2. CASE ProcessTimeout
  <2>1. UNCHANGED <<root_port, cabling, tid, visited, ports, remote>>
    BY <1>2 DEF ProcessTimeout, graph
  <2>2. PICK n \in DOMAIN smp_map : smp_map' = SubSeq(smp_map, n + 1, Len(smp_map))
    BY <1>2 DEF ProcessTimeout
  <2>3. /\ smp_map' \in Seq(Request)
        /\ \A k \in DOMAIN smp_map' : n + k \in DOMAIN smp_map /\ smp_map'[k] = smp_map[n + k]
    BY <2>2, Expired DEF CrawlInv
  <2>4. ASSUME NEW k \in DOMAIN smp_map', NEW r, r = smp_map'[k] PROVE Sound(r)'
    <3>1. r \in Request /\ Sound(r)
      BY <2>3, <2>4 DEF CrawlInv
    <3>2. visited \subseteq visited' /\ visited' \subseteq Node
      BY <2>1 DEF CrawlInv
    <3> QED BY <2>1, <3>1, <3>2, SoundStays
  <2>5. CrawlInv'
    BY <2>1, <2>3, <2>4 DEF CrawlInv
  <2> QED BY <2>1, <2>5 DEF TrueOrOwn, Ordered, FollowsPortZero, IsUp, InfoPort, FirstPort
<1>3. CASE LoopEnds \/ UNCHANGED vars
  <2>1. UNCHANGED <<root_port, cabling, tid, smp_map, visited, ports, remote>>
    BY <1>3 DEF LoopEnds, graph, vars, crawl
  <2>2. ASSUME NEW k \in DOMAIN smp_map', NEW r, r = smp_map'[k] PROVE Sound(r)'
    <3>1. r \in Request /\ Sound(r)
      BY <2>1, <2>2 DEF CrawlInv
    <3>2. visited \subseteq visited' /\ visited' \subseteq Node
      BY <2>1 DEF CrawlInv
    <3> QED BY <2>1, <3>1, <3>2, SoundStays
  <2>3. CrawlInv'
    BY <2>1, <2>2 DEF CrawlInv
  <2> QED BY <2>1, <2>3 DEF TrueOrOwn, Ordered, FollowsPortZero, IsUp, InfoPort, FirstPort
<1> QED BY <1>1, <1>2, <1>3 DEF Next

-----------------------------------------------------------------------------
(* What the crawl records is true, in whatever order the answers come and  *)
(* whichever requests expire, in every fabric whose routes have room for   *)
(* all of its switches: a longer route the code could not write down.      *)
THEOREM LinksAreTrueOrOwn == RoutesHaveRoom => (Spec => []LinksTrueOrOwn)
<1> DEFINE GraphOK == CrawlInv /\ TrueOrOwn(remote) /\ Ordered(ports)
<1> SUFFICES ASSUME RoutesHaveRoom PROVE Spec => []LinksTrueOrOwn
  OBVIOUS
<1>1. Init => GraphOK
  BY InitCrawl
<1>2. GraphOK /\ [Next]_vars => GraphOK'
  BY CrawlStep
<1>3. GraphOK => LinksTrueOrOwn
  BY GoodGraph
<1> HIDE DEF GraphOK
<1> QED BY <1>1, <1>2, <1>3, PTL DEF Spec

-----------------------------------------------------------------------------
(* The account of the requests, which needs no more than their types.      *)
ListInv ==
    /\ root_port \in RootPorts /\ cabling \in Cablings
    /\ tid \in Nat /\ smp_map \in Seq(Request)
    /\ TrackInv

(* Whatever is answered, what is asked for then are requests.              *)
LEMMA AnswerAsks ==
    ASSUME ListInv, ProcessAnswer
    PROVE  \E i \in DOMAIN smp_map, asked \in Seq(Request) : Requests(smp_map[i], asked)
<1>1. PICK i \in DOMAIN smp_map :
         /\ Arrival(cabling, smp_map[i].path) # Nowhere
         /\ CASE smp_map[i].attr = "NodeInfo" -> RecvNodeInfo(smp_map[i])
              [] smp_map[i].attr = "NodeDesc" -> RecvNodeDesc(smp_map[i])
              [] smp_map[i].attr = "PortInfo" -> RecvPortInfo(smp_map[i])
  BY DEF ProcessAnswer
<1>2. PICK r \in Request : r = smp_map[i]
  BY DEF ListInv
<1>3. r.attr \in {"NodeInfo", "NodeDesc", "PortInfo"} /\ r.path \in [Index -> 0..255]
      /\ r.port \in 0..255 /\ r.guid \in Node \cup {Nobody}
  BY DEF Request
<1>4. PICK none : none = <<>>
  OBVIOUS
<1>5. none \in Seq(Request)
  BY <1>4
<1>6. CASE r.attr = "NodeInfo"
  <2>1. PICK node : node = Arrival(cabling, r.path)[1]
    OBVIOUS
  <2>2. node \in Node
    BY <1>1, <1>2, <2>1, ArrivesAtPort DEF ListInv
  <2>3. PICK path \in [Index -> 0..255] : path = r.path
    BY <1>3
  <2>4. FollowUp(node, path) \in Seq(Request)
    BY <2>2, FollowUpAsks
  <2>5. Requests(r, FollowUp(node, path)) \/ Requests(r, none)
    BY <1>1, <1>2, <1>4, <1>6, <2>1, <2>3 DEF RecvNodeInfo, FollowUp
  <2> QED BY <1>2, <1>5, <2>4, <2>5
<1>7. CASE r.attr = "NodeDesc"
  <2>1. RecvNodeDesc(r)
    BY <1>1, <1>2, <1>7
  <2>2. Requests(r, none)
    BY <1>4, <2>1 DEF RecvNodeDesc
  <2> QED BY <1>2, <1>5, <2>2
<1>8. CASE r.attr = "PortInfo"
  <2>1. Onward(r) \in [Index -> 0..255]
    BY <1>3 DEF Onward
  <2>2. PICK path \in [Index -> 0..255] : path = Onward(r)
    BY <2>1
  <2>3. PICK s : s = Ask("NodeInfo", path, 0, r.guid)
    OBVIOUS
  <2>4. s \in Request
    BY <1>3, <2>3 DEF Ask, Request
  <2>5. RecvPortInfo(r)
    BY <1>1, <1>2, <1>8
  <2>6. Requests(r, none) \/ Requests(r, <<s>>)
    BY <1>4, <2>2, <2>3, <2>5 DEF RecvPortInfo
  <2>7. <<s>> \in Seq(Request)
    BY <2>4
  <2> QED BY <1>2, <1>5, <2>6, <2>7
<1> QED BY <1>3, <1>6, <1>7, <1>8

(* Every step keeps the account, and is a step of the abstract crawl or    *)
(* changes nothing that it sees.                                           *)
LEMMA TrackStep ==
    ASSUME ListInv, [Next]_vars
    PROVE  ListInv' /\ [Crawl!Next]_(Crawl!vars)
<1> DEFINE ids == {smp_map[k].tid : k \in DOMAIN smp_map}
<1>1. CASE ProcessAnswer
  <2>1. PICK i \in DOMAIN smp_map, asked \in Seq(Request) : Requests(smp_map[i], asked)
    BY <1>1, AnswerAsks
  <2>2. /\ tid' \in Nat /\ tid' = tid + Len(asked) /\ smp_map' \in Seq(Request)
        /\ Len(asked) \in Nat
    BY <2>1, RequestList DEF ListInv
  <2>3. /\ \A k \in DOMAIN smp_map' : smp_map'[k].tid < tid'
        /\ \A k, l \in DOMAIN smp_map' : k < l => smp_map'[k].tid < smp_map'[l].tid
        /\ ids' = (ids \ {smp_map[i].tid}) \cup (tid..(tid' - 1))
    BY <2>1, RequestIds DEF ListInv
  <2>4. UNCHANGED <<root_port, cabling, over>> /\ ~over
    <3>1. UNCHANGED <<root_port, cabling, over>>
      BY <1>1 DEF ProcessAnswer
    <3>2. smp_map # <<>>
      BY <2>1
    <3> QED BY <3>1, <3>2 DEF ListInv, TrackInv
  <2>5. ListInv'
    BY <2>2, <2>3, <2>4 DEF ListInv, TrackInv
  <2>6. tid' >= tid
    BY <2>2 DEF ListInv
  <2>7. smp_map[i].tid \in ids
    BY <2>1
  <2>8. PICK t \in ids : t = smp_map[i].tid
    BY <2>7
  <2>9. Crawl!Answer(t)
    BY <2>2, <2>3, <2>6, <2>8 DEF Crawl!Answer
  <2>10. Crawl!Next
    BY <2>4, <2>8, <2>9 DEF Crawl!Next
  <2> QED BY <2>5, <2>10
<1>2. CASE ProcessTimeout
  <2>1. UNCHANGED <<root_port, cabling, tid, over>>
    BY <1>2 DEF ProcessTimeout
  <2>2. PICK n \in DOMAIN smp_map : smp_map' = SubSeq(smp_map, n + 1, Len(smp_map))
    BY <1>2 DEF ProcessTimeout
  <2>3. /\ smp_map' \in Seq(Request) /\ Len(smp_map') = Len(smp_map) - n
        /\ n \in 1..Len(smp_map) /\ Len(smp_map) \in Nat
        /\ \A k \in DOMAIN smp_map' : n + k \in DOMAIN smp_map /\ smp_map'[k] = smp_map[n + k]
    BY <2>2, Expired DEF ListInv
  <2>4. ~over
    BY <2>2 DEF ListInv, TrackInv
  <2>5. DOMAIN smp_map' = 1..(Len(smp_map) - n) /\ DOMAIN smp_map = 1..Len(smp_map)
    BY <2>3 DEF ListInv
  <2>6. TrackInv'
    <3>1. \A k \in DOMAIN smp_map' : smp_map'[k].tid < tid'
      BY <2>1, <2>3 DEF ListInv, TrackInv
    <3>2. ASSUME NEW k \in DOMAIN smp_map', NEW l \in DOMAIN smp_map', k < l
          PROVE  smp_map'[k].tid < smp_map'[l].tid
      <4>1. n + k \in DOMAIN smp_map /\ n + l \in DOMAIN smp_map /\ n + k < n + l
        BY <2>3, <2>5, <3>2
      <4> QED BY <4>1, <2>3 DEF ListInv, TrackInv
    <3> QED BY <3>1, <3>2, <2>1, <2>4 DEF ListInv, TrackInv
  <2>7. ListInv'
    BY <2>1, <2>3, <2>6 DEF ListInv
  <2>8. ids' \subseteq ids
    BY <2>3
  <2>9. ASSUME NEW t \in ids \ ids', NEW u \in ids' PROVE t < u
    <3>1. PICK k \in DOMAIN smp_map : t = smp_map[k].tid
      OBVIOUS
    <3>2. PICK l \in DOMAIN smp_map' : u = smp_map'[l].tid
      OBVIOUS
    <3>3. n + l \in DOMAIN smp_map /\ u = smp_map[n + l].tid
      BY <2>3, <3>2
    <3>4. k <= n
      <4>1. SUFFICES ASSUME ~(k <= n) PROVE FALSE
        OBVIOUS
      <4>2. k - n \in DOMAIN smp_map' /\ n + (k - n) = k
        BY <4>1, <2>3, <2>5, <3>1
      <4>3. smp_map'[k - n] = smp_map[k]
        BY <4>2, <2>3
      <4> QED BY <4>2, <4>3, <2>9, <3>1
    <3>5. k < n + l
      BY <3>1, <3>2, <3>4, <2>3, <2>5
    <3> QED BY <3>1, <3>3, <3>5 DEF ListInv, TrackInv
  <2> HIDE DEF ids
  <2>10. Crawl!Expire
    BY <2>1, <2>8, <2>9 DEF Crawl!Expire, ids
  <2> QED BY <2>1, <2>4, <2>7, <2>10 DEF Crawl!Next
<1>3. CASE LoopEnds
  <2>1. /\ ~over /\ smp_map = <<>> /\ over' = TRUE
        /\ UNCHANGED <<root_port, cabling, tid, smp_map>>
    BY <1>3 DEF LoopEnds
  <2>2. ids = {}
    BY <2>1
  <2>3. ids' = ids
    BY <2>1
  <2>4. ListInv'
    BY <2>1 DEF ListInv, TrackInv
  <2> QED BY <2>1, <2>2, <2>3, <2>4 DEF Crawl!Next, Crawl!Finish
<1>4. CASE UNCHANGED vars
  <2>1. UNCHANGED <<root_port, cabling, tid, smp_map, over>>
    BY <1>4 DEF vars, crawl
  <2>2. ids' = ids
    BY <2>1
  <2>3. UNCHANGED Crawl!vars
    BY <2>1, <2>2 DEF Crawl!vars
  <2> QED BY <2>1, <2>3 DEF ListInv, TrackInv
<1> QED BY <1>1, <1>2, <1>3, <1>4 DEF Next

(* Whatever the answers are about, each request is closed once, the oldest *)
(* expire first, and the crawl ends when none is open: this crawl keeps    *)
(* the promise that AsyncPipeline, which carries its requests, keeps too.  *)
THEOREM ImplementsOutstanding == Spec => KeepsTrack
<1>1. Init => ListInv /\ Crawl!Init
  <2> SUFFICES ASSUME Init PROVE ListInv /\ Crawl!Init
    OBVIOUS
  <2>1. ListInv
    BY InitCrawl DEF ListInv, CrawlInv
  <2>2. /\ tid = 1 /\ over = FALSE
        /\ smp_map = <<Ask("NodeInfo", StartPath, 0, Nobody)>>
    BY DEF Init
  <2>3. DOMAIN smp_map = {1} /\ smp_map[1].tid = 0
    BY <2>2 DEF Ask
  <2>4. {smp_map[i].tid : i \in DOMAIN smp_map} = {0}
    BY <2>3
  <2> QED BY <2>1, <2>2, <2>4 DEF Crawl!Init
<1>2. ListInv /\ [Next]_vars => ListInv' /\ [Crawl!Next]_(Crawl!vars)
  BY TrackStep
<1> QED BY <1>1, <1>2, PTL DEF Spec, KeepsTrack, Crawl!Spec

-----------------------------------------------------------------------------
(* The questions that may be asked about some nodes, as a set of their     *)
(* own: what the crawl adds up can be counted then.                        *)
Budget(S) == UNION {{n} \X (1..Questions(n)) : n \in S}

(* The questions about a node: its description, its ports, and a NodeInfo  *)
(* across each of them that is up.                                         *)
LEMMA QuestionsCount ==
    ASSUME NEW n \in Node
    PROVE  LET asked == FirstPort(n)..NPorts[n]
               followed == {i \in asked : IsUp(InfoPort(n, i))}
           IN  /\ IsFiniteSet(followed) /\ Cardinality(followed) \in Nat
               /\ Cardinality(asked) = NPorts[n] - FirstPort(n) + 1
               /\ Questions(n) = 1 + Cardinality(asked)
                                   + (IF n \in Explored THEN Cardinality(followed) ELSE 0)
               /\ Questions(n) \in Nat
<1> DEFINE asked == FirstPort(n)..NPorts[n]
           followed == {i \in asked : IsUp(InfoPort(n, i))}
<1>1. NPorts[n] \in Int /\ NPorts[n] >= 1 /\ FirstPort(n) \in Int
      /\ FirstPort(n) <= 1
  BY RouteAssumption DEF FirstPort
<1>2. IsFiniteSet(asked) /\ Cardinality(asked) = NPorts[n] - FirstPort(n) + 1
  <2>1. PICK a \in Int, b \in Int : a = FirstPort(n) /\ b = NPorts[n]
    BY <1>1
  <2>2. IsFiniteSet(a..b) /\ Cardinality(a..b) = IF a > b THEN 0 ELSE b - a + 1
    BY FS_Interval
  <2>3. ~(a > b)
    BY <1>1, <2>1
  <2> QED BY <2>1, <2>2, <2>3
<1>3. IsFiniteSet(followed)
  BY <1>2, FS_Subset
<1>4. Cardinality(followed) \in Nat
  BY <1>3, FS_CardinalityType
<1>5. Questions(n) = 1 + Cardinality(asked)
                       + (IF n \in Explored THEN Cardinality(followed) ELSE 0)
  BY DEF Questions
<1> HIDE DEF asked, followed
<1>6. Questions(n) \in Nat
  BY <1>1, <1>2, <1>4, <1>5
<1> QED BY <1>2, <1>3, <1>4, <1>5, <1>6 DEF asked, followed

(* The number of questions about a node is a number.                       *)
LEMMA QuestionsType == \A n \in Node : Questions(n) \in Nat /\ Questions(n) \in Int
<1> TAKE n \in Node
<1>1. Questions(n) \in Nat
  BY QuestionsCount
<1> QED BY <1>1

(* One node more brings its questions to the budget.                       *)
LEMMA BudgetGrows ==
    ASSUME NEW S \in SUBSET Node, IsFiniteSet(Budget(S)), NEW n \in Node \ S
    PROVE  /\ IsFiniteSet(Budget(S \cup {n}))
           /\ Cardinality(Budget(S \cup {n})) = Cardinality(Budget(S)) + Questions(n)
<1> DEFINE own == {n} \X (1..Questions(n))
<1>1. Questions(n) \in Nat
  BY QuestionsCount
<1>2. IsFiniteSet(1..Questions(n)) /\ Cardinality(1..Questions(n)) = Questions(n)
  BY <1>1, FS_Interval
<1>3. IsFiniteSet({n}) /\ Cardinality({n}) = 1
  BY FS_Singleton
<1>4. IsFiniteSet(own) /\ Cardinality(own) = 1 * Questions(n)
  <2>1. PICK a, b : a = {n} /\ b = 1..Questions(n)
    OBVIOUS
  <2>2. IsFiniteSet(a \X b) /\ Cardinality(a \X b) = Cardinality(a) * Cardinality(b)
    BY <1>2, <1>3, <2>1, FS_Product
  <2>3. Cardinality(a) = 1 /\ Cardinality(b) = Questions(n)
    BY <1>2, <1>3, <2>1
  <2> QED BY <2>1, <2>2, <2>3
<1>5. Budget(S \cup {n}) = Budget(S) \cup own
  BY DEF Budget
<1>6. Budget(S) \cap own = {}
  BY DEF Budget
<1> HIDE DEF own
<1>7. PICK old, new : old = Budget(S) /\ new = own
  OBVIOUS
<1>8. /\ IsFiniteSet(old \cup new)
      /\ Cardinality(old \cup new) = Cardinality(old) + Cardinality(new) - Cardinality(old \cap new)
  BY <1>4, <1>7, FS_Union
<1>9. Cardinality(old \cap new) = 0
  BY <1>6, <1>7, FS_EmptySet
<1>10. Cardinality(old) \in Int /\ Cardinality(new) = Questions(n)
  BY <1>1, <1>4, <1>7, FS_CardinalityType
<1>11. Cardinality(old \cup new) = Cardinality(old) + Questions(n)
  BY <1>1, <1>8, <1>9, <1>10
<1> QED BY <1>5, <1>7, <1>8, <1>11

(* The questions about any nodes are finitely many.                        *)
LEMMA BudgetFinite ==
    ASSUME NEW S \in SUBSET Node
    PROVE  IsFiniteSet(Budget(S)) /\ Cardinality(Budget(S)) \in Nat
<1> DEFINE F == {T \in SUBSET Node : IsFiniteSet(Budget(T))}
<1>1. IsFiniteSet(Node)
  BY RouteAssumption
<1>2. {} \in F
  <2>1. Budget({}) = {}
    BY DEF Budget
  <2> QED BY <2>1, FS_EmptySet
<1>3. ASSUME NEW T \in SUBSET Node, T # {}
      PROVE  \E n \in T : T \ {n} \in F => T \in F
  <2>1. PICK n \in T : TRUE
    BY <1>3
  <2>2. PICK U : U = T \ {n}
    OBVIOUS
  <2>3. U \in SUBSET Node /\ n \in Node \ U /\ U \cup {n} = T
    BY <2>2
  <2>4. U \in F => T \in F
    BY <2>3, BudgetGrows
  <2> QED BY <2>2, <2>4
<1> HIDE DEF F
<1>4. SUBSET Node \subseteq F
  BY <1>1, <1>2, <1>3, SubsetInduction
<1> QED BY <1>4, FS_CardinalityType DEF F

(* The sum that RequestBudget states is a function on the sets of nodes    *)
(* that takes one node away after the other.                               *)
OneOf(T) == CHOOSE n \in T : TRUE
IsSum(sum, S) ==
    sum = [T \in SUBSET S |-> IF T = {} THEN 0 ELSE Questions(OneOf(T)) + sum[T \ {OneOf(T)}]]

(* There is such a function: the size of the budget.                       *)
LEMMA SumExists == \A S \in SUBSET Node : \E sum : IsSum(sum, S)
<1> SUFFICES ASSUME NEW S \in SUBSET Node PROVE \E sum : IsSum(sum, S)
  OBVIOUS
<1>1. PICK sum : sum = [T \in SUBSET S |-> Cardinality(Budget(T))]
  OBVIOUS
<1>2. ASSUME NEW T \in SUBSET S
      PROVE  sum[T] = IF T = {} THEN 0 ELSE Questions(OneOf(T)) + sum[T \ {OneOf(T)}]
  <2>1. CASE T = {}
    <3>1. Budget({}) = {}
      BY DEF Budget
    <3>2. sum[T] = 0
      BY <1>1, <2>1, <3>1, FS_EmptySet
    <3> QED BY <2>1, <3>2
  <2>2. CASE T # {}
    <3>1. PICK n : n = OneOf(T)
      OBVIOUS
    <3>2. n \in T
      BY <2>2, <3>1 DEF OneOf
    <3>3. PICK U : U = T \ {n}
      OBVIOUS
    <3>4. U \in SUBSET Node /\ U \in SUBSET S /\ n \in Node \ U /\ U \cup {n} = T
      BY <3>2, <3>3
    <3>5. IsFiniteSet(Budget(U)) /\ Cardinality(Budget(U)) \in Int /\ Questions(n) \in Int
      <4>1. Questions(n) \in Int
        BY <3>4, QuestionsType
      <4>2. IsFiniteSet(Budget(U)) /\ Cardinality(Budget(U)) \in Int
        BY <3>4, BudgetFinite
      <4> QED BY <4>1, <4>2
    <3>6. Cardinality(Budget(T)) = Cardinality(Budget(U)) + Questions(n)
      BY <3>4, <3>5, BudgetGrows
    <3>7. sum[T] = Questions(n) + sum[U]
      BY <1>1, <3>4, <3>5, <3>6
    <3> QED BY <2>2, <3>1, <3>3, <3>7
  <2> QED BY <2>1, <2>2
<1>3. sum = [T \in SUBSET S |-> IF T = {} THEN 0 ELSE Questions(OneOf(T)) + sum[T \ {OneOf(T)}]]
  BY <1>1, <1>2
<1> QED BY <1>3 DEF IsSum

(* Every such function is the size of the budget.                          *)
LEMMA SumIsSize ==
    ASSUME NEW S \in SUBSET Node
    PROVE  MapThenSumSet(Questions, S) = Cardinality(Budget(S))
<1>1. IsFiniteSet(S)
  BY RouteAssumption, FS_Subset
<1>2. PICK sum : IsSum(sum, S) /\ MapThenSumSet(Questions, S) = sum[S]
  <2>1. MapThenSumSet(Questions, S) = (CHOOSE sum : IsSum(sum, S))[S]
    BY DEF MapThenSumSet, MapThenFoldSet, IsSum, OneOf
  <2> QED BY SumExists, <2>1
<1>3. \A T \in SUBSET S :
          sum[T] = IF T = {} THEN 0 ELSE Questions(OneOf(T)) + sum[T \ {OneOf(T)}]
  BY <1>2 DEF IsSum
<1> DEFINE F == {T \in SUBSET S : sum[T] = Cardinality(Budget(T))}
<1>4. {} \in F
  <2>1. Budget({}) = {}
    BY DEF Budget
  <2> QED BY <1>3, <2>1, FS_EmptySet
<1>5. ASSUME NEW T \in SUBSET S, T # {}
      PROVE  \E n \in T : T \ {n} \in F => T \in F
  <2>1. PICK n : n = OneOf(T)
    OBVIOUS
  <2>2. n \in T
    BY <1>5, <2>1 DEF OneOf
  <2>3. PICK U : U = T \ {n}
    OBVIOUS
  <2>4. U \in SUBSET Node /\ n \in Node \ U /\ U \cup {n} = T
    BY <2>2, <2>3
  <2>5. IsFiniteSet(Budget(U)) /\ Cardinality(Budget(U)) \in Int /\ Questions(n) \in Int
    <3>1. Questions(n) \in Int
      BY <2>4, QuestionsType
    <3>2. IsFiniteSet(Budget(U)) /\ Cardinality(Budget(U)) \in Int
      BY <2>4, BudgetFinite
    <3> QED BY <3>1, <3>2
  <2>6. Cardinality(Budget(T)) = Cardinality(Budget(U)) + Questions(n)
    BY <2>4, <2>5, BudgetGrows
  <2>7. sum[T] = Questions(n) + sum[U]
    BY <1>3, <1>5, <2>1, <2>3
  <2>8. U \in F => T \in F
    BY <2>5, <2>6, <2>7
  <2> QED BY <2>2, <2>3, <2>8
<1> HIDE DEF F
<1>6. SUBSET S \subseteq F
  BY <1>1, <1>4, <1>5, SubsetInduction
<1> QED BY <1>2, <1>6 DEF F

-----------------------------------------------------------------------------
(* A PortInfo that will make its answer ask one question more: its node is *)
(* followed and its port reports to be up.                                 *)
IsOpenQuestion(r) ==
    r.attr = "PortInfo" /\ r.guid \in Explored /\ IsUp(InfoPort(r.guid, r.port))
OpenIds == {smp_map[k].tid : k \in {j \in DOMAIN smp_map : IsOpenQuestion(smp_map[j])}}

(* Every node known is in reach, and what was asked and what will be asked *)
(* for the open questions is within the budget of the nodes known.         *)
BudgetInv ==
    /\ visited \subseteq Reach
    /\ tid + Cardinality(OpenIds) <= 1 + Cardinality(Budget(visited))

(* The nodes in reach are nodes, and no cable leads out of reach.          *)
LEMMA ReachFacts ==
    ASSUME root_port \in RootPorts, cabling \in Cablings
    PROVE  /\ Reach \subseteq Node /\ Root \in Reach
           /\ \A p \in DOMAIN cabling : p[1] \in Explored => cabling[p][1] \in Reach
<1>1. IsCabling(cabling)
  BY CrawlAssumption
<1>2. \A p \in Ports : p[1] \in Node
  BY DEF Ports, PortsOf
<1>3. \A p \in DOMAIN cabling : cabling[p][1] \in Node
  BY <1>1, <1>2 DEF IsCabling, IsWiring
<1>4. Root \in Node
  <2>1. root_port \in Ports \cup (Switches \X {0})
    BY RouteAssumption
  <2> QED BY <2>1, <1>2, RouteAssumption DEF Root
<1>5. PICK cable : cable = cabling
  OBVIOUS
<1>6. LET reach == Ball(cable, Cardinality(Node))
      IN  /\ reach \subseteq Node /\ Root \in reach
          /\ \A p \in DOMAIN cable :
                p[1] \in reach \cap (Switches \cup {Root}) => cable[p][1] \in reach
  BY <1>3, <1>4, <1>5, ReachIsClosed
<1> QED BY <1>5, <1>6 DEF Reach, Explored

(* What can be asked depends on the fabric alone.                          *)
LEMMA FabricStays ==
    ASSUME UNCHANGED <<root_port, cabling>>
    PROVE  /\ Reach' = Reach /\ Explored' = Explored
           /\ \A p : IsUp(p)' = IsUp(p)
           /\ \A r : IsOpenQuestion(r)' = IsOpenQuestion(r)
           /\ \A n : Questions(n)' = Questions(n)
           /\ \A S : Budget(S)' = Budget(S)
<1>1. Reach' = Reach
  BY DEF Reach, Ball, Root
<1>2. Explored' = Explored
  BY <1>1 DEF Explored, Root
<1>3. \A p : IsUp(p)' = IsUp(p)
  BY DEF IsUp
<1>4. \A r : IsOpenQuestion(r)' = IsOpenQuestion(r)
  BY <1>2, <1>3 DEF IsOpenQuestion, InfoPort
<1>5. \A n : Questions(n)' = Questions(n)
  BY <1>2, <1>3 DEF Questions, InfoPort, FirstPort
<1>6. \A S : Budget(S)' = Budget(S)
  BY <1>5 DEF Budget
<1> QED BY <1>1, <1>2, <1>3, <1>4, <1>5, <1>6

(* The node that answers a NodeInfo is in reach.                           *)
LEMMA AnswerInReach ==
    ASSUME root_port \in RootPorts, cabling \in Cablings, visited \subseteq Reach,
           NEW r, AsksBeyond(r)
    PROVE  Arrival(cabling, r.path)[1] \in Reach
<1>1. /\ Root \in Reach
      /\ \A p \in DOMAIN cabling : p[1] \in Explored => cabling[p][1] \in Reach
  BY ReachFacts
<1>2. CASE r.guid = Nobody /\ r.path = StartPath
  BY <1>1, <1>2, StartRoute DEF Root
<1>3. CASE r.guid \in Passed /\ AskedBy(r) \in DOMAIN cabling
           /\ Arrival(cabling, r.path) = cabling[AskedBy(r)]
  <2>1. AskedBy(r)[1] \in Explored
    BY <1>3 DEF AskedBy, Passed, Explored
  <2> QED BY <1>1, <1>3, <2>1
<1>4. CASE r.guid \in Passed /\ Arrival(cabling, r.path)[1] = r.guid
  BY <1>4 DEF Passed
<1> QED BY <1>2, <1>3, <1>4 DEF AsksBeyond

(* The open questions are finitely many.                                   *)
LEMMA OpenIdsFinite ==
    ASSUME ListInv
    PROVE  /\ OpenIds \subseteq 0..(tid - 1) /\ IsFiniteSet(OpenIds)
           /\ Cardinality(OpenIds) \in Nat
<1>1. \A k \in DOMAIN smp_map : smp_map[k].tid \in Nat /\ smp_map[k].tid < tid
  <2>1. \A k \in DOMAIN smp_map : smp_map[k] \in Request
    BY DEF ListInv
  <2> QED BY <2>1 DEF Request, ListInv, TrackInv
<1>2. OpenIds \subseteq 0..(tid - 1)
  BY <1>1 DEF OpenIds, ListInv
<1>3. IsFiniteSet(0..(tid - 1))
  <2>1. tid - 1 \in Int
    BY DEF ListInv
  <2> QED BY <2>1, FS_Interval
<1> QED BY <1>2, <1>3, FS_Subset, FS_CardinalityType

(* The open questions of a step that answers: the one answered is closed,  *)
(* and of those asked for then some are open.                              *)
LEMMA OpenIdsStep ==
    ASSUME ListInv, NEW i \in DOMAIN smp_map, NEW asked \in Seq(Request),
           Requests(smp_map[i], asked), UNCHANGED <<root_port, cabling>>,
           NEW New, \A k \in 1..Len(asked) : IsOpenQuestion(asked[k]) => tid + k - 1 \in New
    PROVE  OpenIds' \subseteq (OpenIds \ {smp_map[i].tid}) \cup New
<1>0. tid \in Nat /\ smp_map \in Seq(Request)
  BY DEF ListInv
<1> DEFINE m == Len(smp_map') - Len(asked)
<1>1. tid' = tid + Len(asked) /\ smp_map' \in Seq(Request) /\ Len(asked) \in Nat
  BY <1>0, RequestList
<1>2. PICK f : /\ m \in Nat /\ DOMAIN f = 1..m
               /\ Enumerates(f, {k \in DOMAIN smp_map : smp_map[k] # smp_map[i]})
               /\ \A k \in 1..m : f[k] \in DOMAIN smp_map /\ smp_map'[k] = smp_map[f[k]]
               /\ \A k \in 1..Len(asked) :
                     smp_map'[m + k] = [asked[k] EXCEPT !.tid = tid + k - 1]
  BY <1>0, RequestList, ZenonT(30)
<1>3. DOMAIN smp_map' = 1..(m + Len(asked))
  BY <1>1, <1>2
<1> HIDE DEF m
<1>4. PICK map : map = smp_map'
  OBVIOUS
<1>5. OpenIds' = {map[k].tid : k \in {j \in DOMAIN map : IsOpenQuestion(map[j])}}
  <2>1. \A r : IsOpenQuestion(r)' = IsOpenQuestion(r)
    BY FabricStays
  <2>2. OpenIds' = {map[k].tid : k \in {j \in DOMAIN map : IsOpenQuestion(map[j])'}}
    BY <1>4 DEF OpenIds
  <2> QED BY <2>1, <2>2
<1>6. ASSUME NEW k \in DOMAIN map, IsOpenQuestion(map[k])
      PROVE  map[k].tid \in (OpenIds \ {smp_map[i].tid}) \cup New
  <2>1. CASE k \in 1..m
    <3>1. PICK l \in DOMAIN smp_map : map[k] = smp_map[l] /\ smp_map[l] # smp_map[i]
      BY <1>2, <1>4, <2>1 DEF Enumerates
    <3>2. smp_map[l].tid # smp_map[i].tid
      <4>1. l # i /\ l \in Nat /\ i \in Nat
        BY <1>0, <3>1
      <4>2. smp_map[l].tid \in Nat /\ smp_map[i].tid \in Nat
        <5>1. smp_map[l] \in Request /\ smp_map[i] \in Request
          BY <1>0
        <5> QED BY <5>1 DEF Request
      <4>3. l < i => smp_map[l].tid < smp_map[i].tid
        BY DEF ListInv, TrackInv
      <4>4. i < l => smp_map[i].tid < smp_map[l].tid
        BY DEF ListInv, TrackInv
      <4> QED BY <4>1, <4>2, <4>3, <4>4
    <3>3. smp_map[l].tid \in OpenIds
      BY <1>6, <3>1 DEF OpenIds
    <3> QED BY <3>1, <3>2, <3>3
  <2>2. CASE k \notin 1..m
    <3>1. PICK j \in 1..Len(asked) : k = m + j
      <4>1. k \in 1..(m + Len(asked)) /\ m \in Nat
        BY <1>2, <1>3, <1>4
      <4>2. k - m \in 1..Len(asked) /\ k = m + (k - m)
        BY <4>1, <1>1, <2>2
      <4> QED BY <4>2
    <3>2. PICK q : q = asked[j]
      OBVIOUS
    <3>3. PICK n : n = tid + j - 1
      OBVIOUS
    <3>4. map[k] = [q EXCEPT !.tid = n] /\ q \in Request
      BY <1>2, <1>4, <3>1, <3>2, <3>3
    <3>5. map[k].tid = n /\ map[k].attr = q.attr /\ map[k].guid = q.guid /\ map[k].port = q.port
      BY <3>4 DEF Request
    <3>6. IsOpenQuestion(q)
      BY <1>6, <3>5 DEF IsOpenQuestion
    <3> QED BY <3>2, <3>3, <3>5, <3>6
  <2> QED BY <2>1, <2>2
<1> QED BY <1>5, <1>6

(* A step that asks nothing, and makes no node known, keeps the budget.    *)
LEMMA NothingAsked ==
    ASSUME ListInv, BudgetInv, UNCHANGED <<root_port, cabling, visited, tid>>,
           OpenIds' \subseteq OpenIds
    PROVE  BudgetInv'
<1>1. PICK V : V = visited'
  OBVIOUS
<1>2. Budget(visited)' = Budget(visited) /\ Reach' = Reach
  BY FabricStays DEF Budget
<1>3. PICK open : open = OpenIds'
  OBVIOUS
<1>4. /\ Cardinality(open) <= Cardinality(OpenIds) /\ Cardinality(open) \in Nat
      /\ Cardinality(OpenIds) \in Nat
  BY <1>3, OpenIdsFinite, FS_Subset, FS_CardinalityType
<1>5. PICK b : b = Cardinality(Budget(visited))
  OBVIOUS
<1>6. Cardinality(Budget(visited))' = b /\ Cardinality(OpenIds)' = Cardinality(open)
  BY <1>2, <1>3, <1>5
<1>7. b \in Nat
  <2>1. visited \in SUBSET Node
    BY ReachFacts DEF ListInv, BudgetInv
  <2> QED BY <1>5, <2>1, BudgetFinite
<1>8. tid + Cardinality(open) <= 1 + b
  BY <1>4, <1>5, <1>7 DEF BudgetInv, ListInv
<1> QED BY <1>2, <1>6, <1>8 DEF BudgetInv

(* The ids of the questions about a new node that stay open: no more than  *)
(* the budget foresees for its ports.                                      *)
LEMMA NewOpen ==
    ASSUME tid \in Nat, NEW node \in Node,
           NEW New, New = {t \in Int : /\ node \in Explored
                                       /\ FirstPort(node) + (t - tid) - 1 \in FirstPort(node)..NPorts[node]
                                       /\ IsUp(InfoPort(node, FirstPort(node) + (t - tid) - 1))}
    PROVE  /\ IsFiniteSet(New)
           /\ NPorts[node] - FirstPort(node) + 2 + Cardinality(New) <= Questions(node)
<1> DEFINE asked == FirstPort(node)..NPorts[node]
           followed == {i \in asked : IsUp(InfoPort(node, i))}
<1>1. /\ IsFiniteSet(followed) /\ Cardinality(followed) \in Nat
      /\ Cardinality(asked) = NPorts[node] - FirstPort(node) + 1
      /\ Questions(node) = 1 + Cardinality(asked)
                             + (IF node \in Explored THEN Cardinality(followed) ELSE 0)
  BY QuestionsCount
<1>2. NPorts[node] \in Int /\ FirstPort(node) \in Int
  BY RouteAssumption DEF FirstPort
<1>3. CASE node \notin Explored
  <2>1. New = {}
    BY <1>3
  <2>2. IsFiniteSet(New) /\ Cardinality(New) = 0
    BY <2>1, FS_EmptySet
  <2> HIDE DEF asked, followed
  <2> QED BY <1>1, <1>2, <1>3, <2>2
<1>4. CASE node \in Explored
  <2>1. PICK f : f = [t \in New |-> FirstPort(node) + (t - tid) - 1]
    OBVIOUS
  <2>2. \A t \in New : t \in Int /\ f[t] = FirstPort(node) + (t - tid) - 1 /\ f[t] \in followed
    BY <2>1
  <2>3. f \in Injection(New, followed)
    <3>1. f \in [New -> followed]
      BY <2>1, <2>2
    <3>2. \A s, t \in New : f[s] = f[t] => s = t
      BY <1>2, <2>2
    <3> QED BY <3>1, <3>2 DEF Injection, IsInjective
  <2>4. IsFiniteSet(New) /\ Cardinality(New) <= Cardinality(followed)
    BY <1>1, <2>3, FS_Injection
  <2>5. Cardinality(New) \in Nat
    BY <2>4, FS_CardinalityType
  <2> HIDE DEF asked, followed
  <2> QED BY <1>1, <1>2, <1>4, <2>4, <2>5
<1> QED BY <1>3, <1>4

(* A node that is new brings more to the budget than is asked about it.    *)
LEMMA NodeInfoBudget ==
    ASSUME CrawlInv, ListInv, BudgetInv,
           NEW i \in DOMAIN smp_map, smp_map[i].attr = "NodeInfo",
           RecvNodeInfo(smp_map[i]), UNCHANGED <<root_port, cabling>>
    PROVE  BudgetInv'
<1>0. PICK r \in Request : r = smp_map[i]
  BY DEF CrawlInv
<1>1. AsksBeyond(r) /\ r.path \in [Index -> 0..255] /\ tid \in Nat
  BY <1>0 DEF CrawlInv, Sound, Request
<1>2. PICK node : node = Arrival(cabling, r.path)[1]
  OBVIOUS
<1>3. PICK path \in [Index -> 0..255] : path = r.path
  BY <1>1
<1>4. /\ visited' = visited \cup {node}
      /\ Requests(r, IF IsNew(node) THEN FollowUp(node, path) ELSE <<>>)
  BY <1>0, <1>2, <1>3 DEF RecvNodeInfo, FollowUp
<1>5. node \in Reach /\ Reach \subseteq Node /\ Reach' = Reach
  <2>1. root_port \in RootPorts /\ cabling \in Cablings /\ visited \subseteq Reach
    BY DEF CrawlInv, BudgetInv
  <2>2. Arrival(cabling, r.path)[1] \in Reach
    BY <1>1, <2>1, AnswerInReach
  <2>3. Reach \subseteq Node
    BY <2>1, ReachFacts
  <2>4. Reach' = Reach
    BY FabricStays
  <2> QED BY <1>2, <2>2, <2>3, <2>4
<1>6. CASE ~IsNew(node)
  <2>1. PICK none : none = <<>>
    OBVIOUS
  <2>2. none \in Seq(Request) /\ Len(none) = 0 /\ Requests(smp_map[i], none)
    BY <1>0, <1>4, <1>6, <2>1
  <2>3. \A k \in 1..Len(none) : IsOpenQuestion(none[k]) => tid + k - 1 \in {}
    BY <2>2
  <2>4. OpenIds' \subseteq (OpenIds \ {smp_map[i].tid}) \cup {}
    BY <2>2, <2>3, OpenIdsStep
  <2>5. visited' = visited /\ tid' = tid
    BY <1>1, <1>4, <1>6, <2>2 DEF IsNew, Requests
  <2> QED BY <2>4, <2>5, NothingAsked
<1>7. CASE IsNew(node)
  <2> DEFINE first == FirstPort(node)
             new == {t \in Int : /\ node \in Explored
                                 /\ first + (t - tid) - 1 \in first..NPorts[node]
                                 /\ IsUp(InfoPort(node, first + (t - tid) - 1))}
  <2>1. PICK asked : asked = FollowUp(node, path)
    OBVIOUS
  <2>2. /\ node \in Node /\ asked \in Seq(Request) /\ Len(asked) = NPorts[node] - first + 2
        /\ \A k \in 1..Len(asked) : \A q :
              q = asked[k] /\ q.attr = "PortInfo" => q.guid = node /\ q.port = first + k - 2
        /\ \A k \in 1..Len(asked) : \A q :
              q = asked[k] /\ q.attr = "PortInfo" => q.port \in first..NPorts[node]
    <3>1. node \in Node
      BY <1>5
    <3>2. /\ asked \in Seq(Request) /\ Len(asked) = NPorts[node] - first + 2
          /\ \A k \in 1..Len(asked) : \A q : q = asked[k] =>
                /\ q.attr \in {"NodeDesc", "PortInfo"}
                /\ q.path = path /\ q.guid = node /\ q.port \in 0..NPorts[node]
                /\ q.attr = "PortInfo" => q.port \in first..NPorts[node]
                /\ q.attr = "PortInfo" => q.port = first + k - 2
      BY <3>1, <2>1, FollowUpAsks
    <3> QED BY <3>1, <3>2
  <2>3. first \in Int /\ NPorts[node] \in Int
    <3>1. NPorts[node] \in 1..255
      BY <2>2, RouteAssumption
    <3>2. FirstPort(node) \in 0..1
      BY DEF FirstPort
    <3> QED BY <3>1, <3>2
  <2> HIDE DEF first
  <2>4. ASSUME NEW k \in 1..Len(asked), IsOpenQuestion(asked[k]) PROVE tid + k - 1 \in new
    <3>1. PICK q : q = asked[k]
      OBVIOUS
    <3>2. q.attr = "PortInfo" /\ q.guid \in Explored /\ IsUp(InfoPort(q.guid, q.port))
      BY <2>4, <3>1 DEF IsOpenQuestion
    <3>3. q.guid = node /\ q.port = first + k - 2 /\ q.port \in first..NPorts[node]
      BY <2>2, <3>1, <3>2
    <3>4. PICK t : t = tid + k - 1
      OBVIOUS
    <3>5. t \in Int /\ first + (t - tid) - 1 = q.port
      BY <1>1, <2>3, <3>3, <3>4
    <3> QED BY <3>2, <3>3, <3>4, <3>5
  <2>5. PICK New : New = new
    OBVIOUS
  <2>6. IsFiniteSet(New) /\ NPorts[node] - first + 2 + Cardinality(New) <= Questions(node)
    BY <1>1, <2>2, <2>5, NewOpen DEF first
  <2> HIDE DEF new
  <2>7. Requests(smp_map[i], asked)
    BY <1>0, <1>4, <1>7, <2>1
  <2>8. OpenIds' \subseteq (OpenIds \ {smp_map[i].tid}) \cup New
    BY <2>2, <2>4, <2>5, <2>7, OpenIdsStep
  <2>9. tid' = tid + Len(asked)
    BY <2>7 DEF Requests
  <2>10. PICK open : open = OpenIds'
    OBVIOUS
  <2>11. Cardinality(open) <= Cardinality(OpenIds) + Cardinality(New)
         /\ Cardinality(open) \in Int /\ Cardinality(OpenIds) \in Int /\ Cardinality(New) \in Int
    <3>1. IsFiniteSet(OpenIds) /\ Cardinality(OpenIds) \in Nat
      BY OpenIdsFinite
    <3>2. open \in SUBSET (OpenIds \cup New)
      BY <2>8, <2>10
    <3>3. /\ IsFiniteSet(OpenIds \cup New)
          /\ Cardinality(OpenIds \cup New)
               = Cardinality(OpenIds) + Cardinality(New) - Cardinality(OpenIds \cap New)
      BY <2>6, <3>1, FS_Union
    <3>4. Cardinality(OpenIds \cap New) \in Nat /\ Cardinality(New) \in Nat
      BY <2>6, <3>1, FS_Subset, FS_CardinalityType
    <3>5. IsFiniteSet(open) /\ Cardinality(open) <= Cardinality(OpenIds \cup New)
      BY <3>2, <3>3, FS_Subset
    <3>6. Cardinality(open) \in Nat
      BY <3>5, FS_CardinalityType
    <3> QED BY <3>1, <3>3, <3>4, <3>5, <3>6
  <2>12. PICK b, more : b = Cardinality(Budget(visited)) /\ more = Cardinality(Budget(visited \cup {node}))
    OBVIOUS
  <2>13. b \in Int /\ more = b + Questions(node) /\ Questions(node) \in Int
    <3>1. visited \in SUBSET Node /\ node \in Node \ visited
      BY <1>7, <2>2 DEF CrawlInv, IsNew
    <3>2. IsFiniteSet(Budget(visited)) /\ b \in Nat
      BY <2>12, <3>1, BudgetFinite
    <3>3. more = b + Questions(node)
      BY <2>12, <3>1, <3>2, BudgetGrows
    <3>4. Questions(node) \in Int
      BY <2>2, QuestionsType
    <3> QED BY <3>2, <3>3, <3>4
  <2>14. Cardinality(Budget(visited))' = more /\ Cardinality(OpenIds)' = Cardinality(open)
    <3>1. Budget(visited)' = Budget(visited \cup {node})
      BY <1>4, FabricStays DEF Budget
    <3> QED BY <3>1, <2>10, <2>12
  <2>15. tid + Cardinality(OpenIds) <= 1 + b
    BY <2>12 DEF BudgetInv
  <2>16. tid' + Cardinality(open) <= 1 + more
    <3>1. PICK next : next = tid'
      OBVIOUS
    <3>2. next = tid + (NPorts[node] - first + 2)
      BY <2>2, <2>9, <3>1
    <3>3. next + Cardinality(open) <= 1 + more
      BY <1>1, <2>3, <2>6, <2>11, <2>13, <2>15, <3>2
    <3> QED BY <3>1, <3>3
  <2>17. visited' \subseteq Reach
    BY <1>4, <1>5 DEF BudgetInv
  <2> QED BY <1>5, <2>14, <2>16, <2>17 DEF BudgetInv
<1> QED BY <1>6, <1>7

(* The one question that a PortInfo asks was in the budget as long as the  *)
(* PortInfo was open.                                                      *)
LEMMA PortInfoBudget ==
    ASSUME CrawlInv, ListInv, BudgetInv,
           NEW i \in DOMAIN smp_map, smp_map[i].attr = "PortInfo",
           RecvPortInfo(smp_map[i]), UNCHANGED <<root_port, cabling>>
    PROVE  BudgetInv'
<1>0. PICK r \in Request : r = smp_map[i]
  BY DEF CrawlInv
<1>1. AsksNode(r) /\ r.attr = "PortInfo" /\ r.path \in [Index -> 0..255]
      /\ r.port \in 0..255 /\ r.guid \in Node \cup {Nobody} /\ tid \in Nat
  BY <1>0 DEF CrawlInv, Sound, Request
<1>2. visited' = visited
  BY DEF RecvPortInfo
<1>3. CASE Requests(r, <<>>)
  <2>1. PICK none : none = <<>>
    OBVIOUS
  <2>2. none \in Seq(Request) /\ Len(none) = 0 /\ Requests(smp_map[i], none)
    BY <1>0, <1>3, <2>1
  <2>3. \A k \in 1..Len(none) : IsOpenQuestion(none[k]) => tid + k - 1 \in {}
    BY <2>2
  <2>4. OpenIds' \subseteq (OpenIds \ {smp_map[i].tid}) \cup {}
    BY <2>2, <2>3, OpenIdsStep
  <2>5. tid' = tid
    BY <1>1, <2>2 DEF Requests
  <2> QED BY <1>2, <2>4, <2>5, NothingAsked
<1>4. CASE /\ ~IsEndpoint(r) /\ IsUp(InfoPort(r.guid, r.port))
           /\ Requests(r, <<Ask("NodeInfo", Onward(r), 0, r.guid)>>)
  <2>1. IsOpenQuestion(r)
    <3>1. r.guid \in visited /\ Arrival(cabling, r.path)[1] = r.guid
      BY <1>1 DEF AsksNode
    <3>2. r.guid \in Switches \/ r.path = StartPath
      BY <1>4 DEF IsEndpoint
    <3>3. r.path = StartPath => r.guid = Root
      BY <3>1, StartRoute DEF Root
    <3>4. r.guid \in Explored
      BY <3>1, <3>2, <3>3 DEF Explored, BudgetInv
    <3> QED BY <1>1, <1>4, <3>4 DEF IsOpenQuestion
  <2>2. PICK path \in [Index -> 0..255] : path = Onward(r)
    BY <1>1 DEF Onward
  <2>3. PICK s : s = Ask("NodeInfo", path, 0, r.guid)
    OBVIOUS
  <2>4. s \in Request /\ s.attr = "NodeInfo"
    BY <1>1, <2>3 DEF Ask, Request
  <2>5. PICK asked : asked = <<s>>
    OBVIOUS
  <2>6. asked \in Seq(Request) /\ Len(asked) = 1 /\ asked[1] = s
    BY <2>4, <2>5
  <2>7. Requests(smp_map[i], asked)
    BY <1>0, <1>4, <2>2, <2>3, <2>5
  <2>8. \A k \in 1..Len(asked) : IsOpenQuestion(asked[k]) => tid + k - 1 \in {}
    BY <2>4, <2>6 DEF IsOpenQuestion
  <2>9. OpenIds' \subseteq (OpenIds \ {r.tid}) \cup {}
    BY <1>0, <2>6, <2>7, <2>8, OpenIdsStep
  <2>10. tid' = tid + 1
    BY <2>6, <2>7 DEF Requests
  <2>11. PICK open, rest : open = OpenIds' /\ rest = OpenIds \ {r.tid}
    OBVIOUS
  <2>12. r.tid \in OpenIds
    BY <1>0, <2>1 DEF OpenIds
  <2>13. IsFiniteSet(OpenIds) /\ Cardinality(OpenIds) \in Nat
    BY OpenIdsFinite
  <2>14. Cardinality(rest) = Cardinality(OpenIds) - 1 /\ IsFiniteSet(rest)
    <3>1. Cardinality(rest) = Cardinality(OpenIds) - 1
      BY <2>11, <2>12, <2>13, FS_RemoveElement
    <3>2. rest \in SUBSET OpenIds
      BY <2>11
    <3> QED BY <3>1, <3>2, <2>13, FS_Subset
  <2>15. Cardinality(open) <= Cardinality(rest) /\ Cardinality(open) \in Nat
    BY <2>9, <2>11, <2>14, FS_Subset, FS_CardinalityType
  <2>16. PICK b : b = Cardinality(Budget(visited))
    OBVIOUS
  <2>17. b \in Nat
    <3>1. visited \in SUBSET Node
      BY DEF CrawlInv
    <3> QED BY <2>16, <3>1, BudgetFinite
  <2>18. /\ Cardinality(Budget(visited))' = b /\ Cardinality(OpenIds)' = Cardinality(open)
         /\ Reach' = Reach
    <3>1. Budget(visited)' = Budget(visited) /\ Reach' = Reach
      BY <1>2, FabricStays DEF Budget
    <3> QED BY <3>1, <2>11, <2>16
  <2>19. tid + Cardinality(OpenIds) <= 1 + b
    BY <2>16 DEF BudgetInv
  <2>20. tid' + Cardinality(open) <= 1 + b
    <3>1. (tid + 1) + Cardinality(open) <= 1 + b
      BY <1>1, <2>13, <2>14, <2>15, <2>17, <2>19
    <3> QED BY <3>1, <2>10
  <2> QED BY <1>2, <2>18, <2>20 DEF BudgetInv
<1>5. \/ Requests(r, <<>>)
      \/ /\ ~IsEndpoint(r) /\ IsUp(InfoPort(r.guid, r.port))
         /\ Requests(r, <<Ask("NodeInfo", Onward(r), 0, r.guid)>>)
  BY <1>0 DEF RecvPortInfo
<1> QED BY <1>3, <1>4, <1>5

(* Every step keeps to the budget.                                         *)
LEMMA BudgetStep ==
    ASSUME CrawlInv, ListInv, BudgetInv, [Next]_vars
    PROVE  BudgetInv'
<1>1. CASE ProcessAnswer
  <2>1. UNCHANGED <<root_port, cabling>>
    BY <1>1 DEF ProcessAnswer
  <2>2. PICK i \in DOMAIN smp_map :
           CASE smp_map[i].attr = "NodeInfo" -> RecvNodeInfo(smp_map[i])
             [] smp_map[i].attr = "NodeDesc" -> RecvNodeDesc(smp_map[i])
             [] smp_map[i].attr = "PortInfo" -> RecvPortInfo(smp_map[i])
    BY <1>1 DEF ProcessAnswer
  <2>3. smp_map[i].attr \in {"NodeInfo", "NodeDesc", "PortInfo"}
    <3>1. smp_map[i] \in Request
      BY DEF CrawlInv
    <3> QED BY <3>1 DEF Request
  <2>4. CASE smp_map[i].attr = "NodeInfo"
    BY <2>1, <2>2, <2>4, NodeInfoBudget
  <2>5. CASE smp_map[i].attr = "NodeDesc"
    <3>1. RecvNodeDesc(smp_map[i])
      BY <2>2, <2>5
    <3>2. PICK none : none = <<>>
      OBVIOUS
    <3>3. none \in Seq(Request) /\ Len(none) = 0 /\ Requests(smp_map[i], none)
      BY <3>1, <3>2 DEF RecvNodeDesc
    <3>4. \A k \in 1..Len(none) : IsOpenQuestion(none[k]) => tid + k - 1 \in {}
      BY <3>3
    <3>5. OpenIds' \subseteq (OpenIds \ {smp_map[i].tid}) \cup {}
      BY <2>1, <3>3, <3>4, OpenIdsStep
    <3>6. visited' = visited /\ tid' = tid
      BY <3>1, <3>3 DEF RecvNodeDesc, Requests, ListInv
    <3> QED BY <2>1, <3>5, <3>6, NothingAsked
  <2>6. CASE smp_map[i].attr = "PortInfo"
    BY <2>1, <2>2, <2>6, PortInfoBudget
  <2> QED BY <2>3, <2>4, <2>5, <2>6
<1>2. CASE ProcessTimeout
  <2>1. UNCHANGED <<root_port, cabling, visited, tid>>
    BY <1>2 DEF ProcessTimeout, graph
  <2>2. PICK n \in DOMAIN smp_map : smp_map' = SubSeq(smp_map, n + 1, Len(smp_map))
    BY <1>2 DEF ProcessTimeout
  <2>3. \A k \in DOMAIN smp_map' : n + k \in DOMAIN smp_map /\ smp_map'[k] = smp_map[n + k]
    BY <2>2, Expired DEF CrawlInv
  <2>4. OpenIds' \subseteq OpenIds
    <3>1. \A q : IsOpenQuestion(q)' = IsOpenQuestion(q)
      BY <2>1, FabricStays
    <3>2. PICK map : map = smp_map'
      OBVIOUS
    <3>3. OpenIds' = {map[k].tid : k \in {j \in DOMAIN map : IsOpenQuestion(map[j])'}}
      BY <3>2 DEF OpenIds
    <3>4. OpenIds' = {map[k].tid : k \in {j \in DOMAIN map : IsOpenQuestion(map[j])}}
      BY <3>1, <3>3
    <3>5. \A k \in DOMAIN map : \E l \in DOMAIN smp_map : map[k] = smp_map[l]
      BY <2>3, <3>2
    <3> QED BY <3>4, <3>5 DEF OpenIds
  <2> QED BY <2>1, <2>4, NothingAsked
<1>3. CASE LoopEnds \/ UNCHANGED vars
  <2>1. UNCHANGED <<root_port, cabling, tid, smp_map, visited>>
    BY <1>3 DEF LoopEnds, graph, vars, crawl
  <2>2. OpenIds' = OpenIds
    <3>1. \A q : IsOpenQuestion(q)' = IsOpenQuestion(q)
      BY <2>1, FabricStays
    <3>2. PICK open, map : open = OpenIds' /\ map = smp_map'
      OBVIOUS
    <3>3. open = {map[k].tid : k \in {j \in DOMAIN map : IsOpenQuestion(map[j])'}}
      BY <3>2 DEF OpenIds
    <3>4. open = {map[k].tid : k \in {j \in DOMAIN map : IsOpenQuestion(map[j])}}
      BY <3>1, <3>3
    <3>5. open = OpenIds
      BY <2>1, <3>2, <3>4 DEF OpenIds
    <3> QED BY <3>2, <3>5
  <2> QED BY <2>1, <2>2, NothingAsked
<1> QED BY <1>1, <1>2, <1>3 DEF Next

(* At the start only the first question is asked.                          *)
LEMMA InitBudget ==
    Init => CrawlInv /\ TrueOrOwn(remote) /\ Ordered(ports) /\ ListInv /\ BudgetInv
<1> SUFFICES ASSUME Init
             PROVE  CrawlInv /\ TrueOrOwn(remote) /\ Ordered(ports) /\ ListInv /\ BudgetInv
  OBVIOUS
<1>1. CrawlInv /\ TrackInv /\ TrueOrOwn(remote) /\ Ordered(ports)
  BY InitCrawl
<1>2. ListInv
  BY <1>1 DEF ListInv, CrawlInv
<1>3. /\ smp_map = <<Ask("NodeInfo", StartPath, 0, Nobody)>> /\ tid = 1 /\ visited = {}
  BY DEF Init
<1>4. OpenIds = {}
  <2>1. \A k \in DOMAIN smp_map : smp_map[k].attr = "NodeInfo"
    BY <1>3 DEF Ask
  <2> QED BY <2>1 DEF OpenIds, IsOpenQuestion
<1>5. Cardinality(OpenIds) = 0
  BY <1>4, FS_EmptySet
<1>6. Budget(visited) = {}
  BY <1>3 DEF Budget
<1>7. Cardinality(Budget(visited)) = 0
  BY <1>6, FS_EmptySet
<1>8. BudgetInv
  BY <1>3, <1>5, <1>7 DEF BudgetInv
<1> QED BY <1>1, <1>2, <1>8

(* Whatever cycles the fabric has, in whatever order the answers come and  *)
(* whichever requests expire, the crawl asks no more than the description, *)
(* the ports and a NodeInfo for each port that is up of the nodes in       *)
(* reach: process_response follows a node once, and a port once.           *)
THEOREM RequestsAreBounded == RoutesHaveRoom => (Spec => []RequestBudget)
<1> DEFINE CrawlOK == CrawlInv /\ TrueOrOwn(remote) /\ Ordered(ports) /\ ListInv /\ BudgetInv
<1> SUFFICES ASSUME RoutesHaveRoom PROVE Spec => []RequestBudget
  OBVIOUS
<1>1. Init => CrawlOK
  BY InitBudget
<1>2. CrawlOK /\ [Next]_vars => CrawlOK'
  <2> SUFFICES ASSUME CrawlOK, [Next]_vars PROVE CrawlOK'
    OBVIOUS
  <2>1. CrawlInv' /\ TrueOrOwn(remote)' /\ Ordered(ports)'
    BY CrawlStep
  <2>2. ListInv'
    BY TrackStep
  <2>3. BudgetInv'
    BY BudgetStep
  <2> QED BY <2>1, <2>2, <2>3
<1>3. CrawlOK => RequestBudget
  <2> SUFFICES ASSUME CrawlInv, ListInv, BudgetInv PROVE RequestBudget
    OBVIOUS
  <2>1. Reach \in SUBSET Node /\ visited \in SUBSET Reach /\ visited \in SUBSET Node
    BY ReachFacts DEF CrawlInv, BudgetInv
  <2>2. MapThenSumSet(Questions, Reach) = Cardinality(Budget(Reach))
    BY <2>1, SumIsSize
  <2>3. IsFiniteSet(Budget(Reach)) /\ Cardinality(Budget(Reach)) \in Nat
    BY <2>1, BudgetFinite
  <2>4. Budget(visited) \in SUBSET Budget(Reach)
    BY <2>1 DEF Budget
  <2>5. Cardinality(Budget(visited)) <= Cardinality(Budget(Reach))
        /\ Cardinality(Budget(visited)) \in Nat
    <3>1. Cardinality(Budget(visited)) <= Cardinality(Budget(Reach))
      BY <2>3, <2>4, FS_Subset
    <3>2. Cardinality(Budget(visited)) \in Nat
      BY <2>1, BudgetFinite
    <3> QED BY <3>1, <3>2
  <2>6. Cardinality(OpenIds) \in Nat
    BY OpenIdsFinite
  <2>7. tid + Cardinality(OpenIds) <= 1 + Cardinality(Budget(visited)) /\ tid \in Nat
    BY DEF BudgetInv, ListInv
  <2>8. tid <= 1 + Cardinality(Budget(Reach))
    BY <2>3, <2>5, <2>6, <2>7
  <2> QED BY <2>2, <2>8 DEF RequestBudget
<1> HIDE DEF CrawlOK
<1> QED BY <1>1, <1>2, <1>3, PTL DEF Spec

-----------------------------------------------------------------------------
(* Why a crawl in which nothing expires misses nothing: what is not known  *)
(* yet is asked for by a request that is open, or will be asked for when   *)
(* one is answered.                                                        *)
Open == {smp_map[i] : i \in DOMAIN smp_map}

(* The nodes that the crawl goes on from.                                  *)
Explorer == Switches \cup {Root}

(* A request for a port of a node.                                         *)
AsksPort(r, p) == r.attr = "PortInfo" /\ r.guid = p[1] /\ r.port = p[2]

(* A request that went out across the cable of a port.                     *)
Follows(r, p) ==
    r.attr = "NodeInfo" /\ AskedBy(r) = p /\ Arrival(cabling, r.path) = cabling[p]

(* A request that a node sent through its port 0, and that comes back to   *)
(* it: its answer links two ports that no cable joins.                     *)
Misleads(r, n) ==
    /\ r.attr = "NodeInfo" /\ r.guid = n
    /\ ~(AskedBy(r) \in DOMAIN cabling /\ Arrival(cabling, r.path) = cabling[AskedBy(r)])

(* The first request is open until the agent's own node is known.          *)
Begun(open, seen) ==
    Root \in seen \/ (seen = {} /\ \E r \in open : r.guid = Nobody)

(* The agent's own node is asked along the empty route.                    *)
AgentAsked(open) ==
    \A r \in open : r.attr # "NodeInfo" /\ r.guid = Root => r.path = StartPath

(* The description of each node.                                           *)
DescsCome(open, seen, told) ==
    \A n \in seen : n \in told \/ \E r \in open : r.attr = "NodeDesc" /\ r.guid = n

(* The information of each port.                                           *)
PortComes(open, infos, p) ==
    (p \in DOMAIN infos /\ infos[p] = p) \/ \E r \in open : AsksPort(r, p)
PortsCome(open, seen, infos) ==
    \A n \in seen \cap Explorer : \A p \in PortsOf(n) : PortComes(open, infos, p)

(* The node at the other end of each cable, and a link at both ends.       *)
CableComes(open, seen, links, p) ==
    \/ \E r \in open : AsksPort(r, p) \/ Follows(r, p)
    \/ cabling[p][1] \in seen /\ p \in DOMAIN links /\ cabling[p] \in DOMAIN links
CablesCome(open, seen, links) ==
    \A p \in DOMAIN cabling : p[1] \in seen \cap Explorer => CableComes(open, seen, links, p)

(* When answers come in order, the link of a port is recorded for good     *)
(* after whatever port 0 of its switch leads to: port 0 is asked first,    *)
(* so it is followed first, and so its answer comes first.                 *)
LinkComes(open, links, p) ==
    LET zero == <<p[1], 0>>
    IN  \/ \E r \in open : /\ AsksPort(r, p)
                           /\ \A s \in open : AsksPort(s, zero) => s.tid < r.tid
        \/ /\ \A s \in open : ~AsksPort(s, zero)
           /\ \/ \E r \in open : /\ Follows(r, p)
                                 /\ \A s \in open : Misleads(s, p[1]) => s.tid < r.tid
              \/ /\ \A s \in open : ~Misleads(s, p[1])
                 /\ p \in DOMAIN links /\ links[p] = cabling[p]
LinksCome(open, seen, links) ==
    \A p \in DOMAIN cabling : p[1] \in seen \cap Switches => LinkComes(open, links, p)

(* All that is to come, and how the crawl begins.                          *)
AllComes(open, seen, told, infos, links) ==
    /\ Begun(open, seen) /\ AgentAsked(open) /\ told \subseteq seen
    /\ DescsCome(open, seen, told)
    /\ PortsCome(open, seen, infos)
    /\ CablesCome(open, seen, links)
    /\ in_order => LinksCome(open, seen, links)

(* Once a request has expired nothing is promised.                         *)
ComesInv ==
    /\ expiries \in Nat
    /\ expiries = 0 => AllComes(Open, visited, desc, info, remote)
-----------------------------------------------------------------------------
(* What is asked for is asked with an id of its own.                       *)
Copies(s, q, id) ==
    /\ s.attr = q.attr /\ s.path = q.path /\ s.port = q.port /\ s.guid = q.guid
    /\ s.tid = id

(* The open requests after an answer: without the one answered, and with   *)
(* the new ones, whose ids are the next.                                   *)
LEMMA OpenAfter ==
    ASSUME tid \in Nat, smp_map \in Seq(Request), NEW answered,
           NEW asked \in Seq(Request), Requests(answered, asked)
    PROVE  \E more : /\ Open' = (Open \ {answered}) \cup more
                     /\ \A s \in more : \E k \in 1..Len(asked) : Copies(s, asked[k], tid + k - 1)
                     /\ \A k \in 1..Len(asked) : \E s \in more : Copies(s, asked[k], tid + k - 1)
<1> DEFINE kept == {i \in DOMAIN smp_map : smp_map[i] # answered}
           m == Len(smp_map') - Len(asked)
           more == {[asked[k] EXCEPT !.tid = tid + k - 1] : k \in 1..Len(asked)}
<1>1. /\ smp_map' \in Seq(Request) /\ Len(asked) \in Nat
  BY RequestList
<1>2. PICK f : /\ m \in Nat /\ DOMAIN f = 1..m /\ Enumerates(f, kept)
               /\ \A k \in 1..m : f[k] \in DOMAIN smp_map /\ smp_map'[k] = smp_map[f[k]]
               /\ \A k \in 1..Len(asked) :
                     smp_map'[m + k] = [asked[k] EXCEPT !.tid = tid + k - 1]
  BY RequestList
<1>3. DOMAIN smp_map' = 1..(m + Len(asked)) /\ m \in Nat
  BY <1>1, <1>2
<1> HIDE DEF m
<1>4. ASSUME NEW s \in Open' PROVE s \in (Open \ {answered}) \cup more
  <2>1. PICK k \in DOMAIN smp_map' : s = smp_map'[k]
    BY DEF Open
  <2>2. CASE k \in 1..m
    <3>1. f[k] \in kept /\ s = smp_map[f[k]]
      BY <1>2, <2>1, <2>2 DEF Enumerates
    <3> QED BY <3>1 DEF Open
  <2>3. CASE k \notin 1..m
    <3>1. k - m \in 1..Len(asked) /\ m + (k - m) = k
      BY <1>1, <1>3, <2>3
    <3>2. PICK l \in 1..Len(asked) : m + l = k
      BY <3>1
    <3>3. s = [asked[l] EXCEPT !.tid = tid + l - 1]
      BY <1>2, <2>1, <3>2
    <3> QED BY <3>3
  <2> QED BY <2>2, <2>3
<1>5. ASSUME NEW s \in Open, s # answered PROVE s \in Open'
  <2>1. PICK i \in kept : s = smp_map[i]
    BY <1>5 DEF Open
  <2>2. PICK k \in 1..m : f[k] = i
    BY <1>2, <2>1 DEF Enumerates
  <2>3. k \in DOMAIN smp_map' /\ smp_map'[k] = s
    BY <1>1, <1>2, <1>3, <2>1, <2>2
  <2> QED BY <2>3 DEF Open
<1>6. ASSUME NEW s \in more PROVE s \in Open'
  <2>1. PICK k \in 1..Len(asked) : s = [asked[k] EXCEPT !.tid = tid + k - 1]
    OBVIOUS
  <2>2. m + k \in DOMAIN smp_map'
    BY <1>1, <1>3
  <2>3. smp_map'[m + k] = s
    BY <1>2, <2>1
  <2> QED BY <2>2, <2>3 DEF Open
<1>7. ASSUME NEW k \in 1..Len(asked)
      PROVE  Copies([asked[k] EXCEPT !.tid = tid + k - 1], asked[k], tid + k - 1)
  <2>1. PICK q : q = asked[k]
    OBVIOUS
  <2>2. q \in Request
    BY <2>1
  <2>3. PICK n : n = tid + k - 1
    OBVIOUS
  <2>4. Copies([q EXCEPT !.tid = n], q, n)
    BY <2>2 DEF Copies, Request
  <2> QED BY <2>1, <2>3, <2>4
<1>8. PICK new : new = more
  OBVIOUS
<1>9. \A s \in new : \E k \in 1..Len(asked) : Copies(s, asked[k], tid + k - 1)
  <2>1. \A s \in new : \E k \in 1..Len(asked) : s = [asked[k] EXCEPT !.tid = tid + k - 1]
    BY <1>8
  <2> QED BY <2>1, <1>7
<1>10. \A k \in 1..Len(asked) : \E s \in new : Copies(s, asked[k], tid + k - 1)
  <2>1. \A k \in 1..Len(asked) : [asked[k] EXCEPT !.tid = tid + k - 1] \in new
    BY <1>8
  <2> QED BY <2>1, <1>7
<1>11. Open' = (Open \ {answered}) \cup new
  <2> HIDE DEF more
  <2> QED BY <1>4, <1>5, <1>6, <1>8
<1> QED BY <1>9, <1>10, <1>11

(* The first request to a new node is about its description, the others    *)
(* about its ports.                                                        *)
LEMMA FollowUpOrder ==
    ASSUME NEW node \in Node, NEW path
    PROVE  /\ FollowUp(node, path)[1].attr = "NodeDesc" /\ 1 \in 1..Len(FollowUp(node, path))
           /\ \A q \in FirstPort(node)..NPorts[node] :
                 LET k == q - FirstPort(node) + 2
                 IN  /\ k \in 1..Len(FollowUp(node, path))
                     /\ FollowUp(node, path)[k].attr = "PortInfo"
                     /\ FollowUp(node, path)[k].port = q
<1> DEFINE n == NPorts[node]
           first == FirstPort(node)
           infos == [i \in 1..(n - first + 1) |-> Ask("PortInfo", path, first + i - 1, node)]
           desc1 == <<Ask("NodeDesc", path, 0, node)>>
<1>1. n \in 1..255 /\ first \in 0..1
  BY RouteAssumption DEF FirstPort
<1>2. FollowUp(node, path) = desc1 \o infos
  BY DEF FollowUp
<1> DEFINE EachAsk == {Ask("NodeDesc", path, 0, node)} \cup {infos[i] : i \in DOMAIN infos}
<1> HIDE DEF n, first
<1>3. /\ infos \in Seq(EachAsk) /\ Len(infos) = n - first + 1 /\ desc1 \in Seq(EachAsk)
      /\ Len(desc1) = 1 /\ n - first + 1 \in Nat
  <2>1. infos \in [1..(n - first + 1) -> EachAsk]
    OBVIOUS
  <2>2. n - first + 1 \in Nat
    BY <1>1
  <2> HIDE DEF infos
  <2> QED BY <2>1, <2>2
<1>4. \A i \in 1..(n - first + 1) : infos[i].attr = "PortInfo" /\ infos[i].port = first + i - 1
  BY DEF Ask
<1>d. desc1[1].attr = "NodeDesc"
  BY DEF Ask
<1> HIDE DEF infos, EachAsk, desc1
<1>5. /\ Len(desc1 \o infos) = n - first + 2 /\ (desc1 \o infos)[1] = desc1[1]
      /\ \A k \in 2..(n - first + 2) : (desc1 \o infos)[k] = infos[k - 1]
  <2>1. PICK a \in Seq(EachAsk), b \in Seq(EachAsk) : a = desc1 /\ b = infos
    BY <1>3
  <2>2. /\ Len(a \o b) = Len(a) + Len(b)
        /\ \A k \in 1..(Len(a) + Len(b)) : (a \o b)[k] = IF k <= Len(a) THEN a[k] ELSE b[k - Len(a)]
    OBVIOUS
  <2>3. Len(a) = 1 /\ Len(b) = n - first + 1
    BY <1>3, <2>1
  <2>4. Len(a) + Len(b) = n - first + 2 /\ 1 \in 1..(n - first + 2)
    BY <1>1, <2>3
  <2>5. (a \o b)[1] = a[1]
    BY <2>2, <2>3, <2>4
  <2>6. ASSUME NEW k \in 2..(n - first + 2) PROVE (a \o b)[k] = b[k - 1]
    <3>1. k \in 1..(n - first + 2) /\ ~(k <= 1)
      BY <1>1
    <3> QED BY <3>1, <2>2, <2>3, <2>4
  <2> QED BY <2>1, <2>2, <2>4, <2>5, <2>6
<1>6. ASSUME NEW q \in first..n
      PROVE  LET k == q - first + 2
             IN  /\ k \in 1..Len(desc1 \o infos)
                 /\ (desc1 \o infos)[k].attr = "PortInfo" /\ (desc1 \o infos)[k].port = q
  <2>1. PICK k : k = q - first + 2
    OBVIOUS
  <2>2. k \in 2..(n - first + 2) /\ k - 1 \in 1..(n - first + 1) /\ first + (k - 1) - 1 = q
        /\ k \in 1..(n - first + 2)
    BY <1>1, <2>1
  <2>3. infos[k - 1].attr = "PortInfo" /\ infos[k - 1].port = q
    BY <1>4, <2>2
  <2> QED BY <1>5, <2>1, <2>2, <2>3
<1>7. 1 \in 1..(n - first + 2)
  BY <1>1
<1> QED BY <1>2, <1>5, <1>6, <1>7, <1>d DEF n, first

-----------------------------------------------------------------------------
(* The steps: what an answer brings, and what it leaves to come.           *)

(* The agent's own node has one port, if it is no switch: a NodeInfo of    *)
(* the simulator says so of every channel adapter, and the crawl records   *)
(* whatever port of such a node it asks about as port 1.                   *)
AgentHasOnePort == \A p \in RootPorts : p[1] \in Switches \/ NPorts[p[1]] = 1

(* The open requests are sound and in the order of their ids.              *)
LEMMA OpenFacts ==
    ASSUME CrawlInv, TrackInv
    PROVE  /\ \A s \in Open : s \in Request /\ Sound(s) /\ s.tid \in Nat /\ s.tid < tid
           /\ \A s \in Open : s # smp_map[1] => smp_map[1].tid < s.tid
<1>1. smp_map \in Seq(Request) /\ \A i \in DOMAIN smp_map : Sound(smp_map[i])
  BY DEF CrawlInv
<1>2. ASSUME NEW i \in DOMAIN smp_map
      PROVE  /\ smp_map[i] \in Request /\ Sound(smp_map[i])
             /\ smp_map[i].tid \in Nat /\ smp_map[i].tid < tid
             /\ i # 1 => smp_map[1].tid < smp_map[i].tid
  <2>1. smp_map[i] \in Request /\ i \in 1..Len(smp_map) /\ Len(smp_map) \in Nat
    BY <1>1
  <2>2. smp_map[i].tid \in Nat
    BY <2>1 DEF Request
  <2>3. i # 1 => 1 \in DOMAIN smp_map /\ 1 < i
    BY <1>1, <2>1
  <2> QED BY <1>1, <2>1, <2>2, <2>3 DEF TrackInv
<1> QED BY <1>2 DEF Open

(* A description is one thing less to come.                                *)
LEMMA DescAnswered ==
    ASSUME NEW open, NEW told, NEW infos, NEW links,
           AllComes(open, visited, told, infos, links),
           NEW r \in open, r.attr = "NodeDesc", r.guid \in visited
    PROVE  AllComes(open \ {r}, visited, told \cup {r.guid}, infos, links)
<1> DEFINE less == open \ {r}
<1>1. Begun(less, visited) /\ AgentAsked(less) /\ told \cup {r.guid} \subseteq visited
  BY DEF AllComes, Begun, AgentAsked
<1>2. DescsCome(less, visited, told \cup {r.guid})
  BY DEF AllComes, DescsCome
<1>3. PortsCome(less, visited, infos)
  BY DEF AllComes, PortsCome, PortComes, AsksPort
<1>4. CablesCome(less, visited, links)
  BY DEF AllComes, CablesCome, CableComes, AsksPort, Follows
<1>5. ASSUME in_order PROVE LinksCome(less, visited, links)
  <2>1. \A p : LinkComes(open, links, p) => LinkComes(less, links, p)
    BY DEF LinkComes, AsksPort, Follows
  <2> QED BY <1>5, <2>1 DEF AllComes, LinksCome
<1> QED BY <1>1, <1>2, <1>3, <1>4, <1>5 DEF AllComes

(* The information of a port is recorded, and the cable of the port will   *)
(* be known when the request across it is answered.                        *)
LEMMA PortAnswered ==
    ASSUME CrawlInv, AgentHasOnePort, tid \in Nat,
           NEW open, NEW told, NEW infos, NEW links,
           AllComes(open, visited, told, infos, links),
           \A s \in open : s.tid \in Nat /\ s.tid < tid,
           NEW r \in open, r.attr = "PortInfo", AsksNode(r),
           in_order => \A s \in open : s # r => r.tid < s.tid,
           NEW after, NEW more,
           IsEndpoint(r) => after = infos,
           ~IsEndpoint(r) => after = Put(infos, RecordedPort(r), InfoPort(r.guid, r.port)),
           NEW port, port = <<r.guid, r.port>>,
           ~IsEndpoint(r) /\ port \in DOMAIN cabling => \E s \in more : Follows(s, port),
           \A s \in more : s.attr = "NodeInfo" /\ s.guid = r.guid /\ s.tid = tid,
           \A s \in more : r.port # 0 => port \in DOMAIN cabling /\ Follows(s, port)
    PROVE  AllComes((open \ {r}) \cup more, visited, told, after, links)
<1> DEFINE next == (open \ {r}) \cup more
<1>0. r.guid \in visited /\ r.guid \in Node /\ r.tid \in Nat
      /\ r.port \in FirstPort(r.guid)..NPorts[r.guid] /\ NPorts[r.guid] \in 1..255
      /\ root_port \in RootPorts
  BY RouteAssumption DEF CrawlInv, AsksNode
<1>e. IsEndpoint(r) => r.guid \notin Explorer
  BY DEF AllComes, AgentAsked, IsEndpoint, Explorer
<1>r. \/ IsEndpoint(r)
      \/ r.guid \in Switches
      \/ r.guid = Root /\ NPorts[Root] = 1 /\ r.port = 1 /\ Root \notin Switches
  <2> SUFFICES ASSUME ~IsEndpoint(r), r.guid \notin Switches
               PROVE  r.guid = Root /\ NPorts[Root] = 1 /\ r.port = 1 /\ Root \notin Switches
    OBVIOUS
  <2>1. r.path = StartPath
    BY DEF IsEndpoint
  <2>2. r.guid = Root
    BY <2>1, StartRoute DEF AsksNode, Root
  <2>3. NPorts[Root] = 1
    BY <1>0, <2>2 DEF AgentHasOnePort, Root
  <2> QED BY <1>0, <2>2, <2>3 DEF FirstPort
<1>1. Begun(next, visited) /\ AgentAsked(next) /\ told \subseteq visited
  BY <1>0 DEF AllComes, Begun, AgentAsked
<1>2. DescsCome(next, visited, told)
  BY DEF AllComes, DescsCome
<1>3. PortsCome(next, visited, after)
  <2> SUFFICES ASSUME NEW n \in visited \cap Explorer, NEW p \in PortsOf(n)
               PROVE  PortComes(next, after, p)
    BY DEF PortsCome
  <2>1. PortComes(open, infos, p) /\ p = <<n, p[2]>> /\ p[2] >= 1
    BY DEF AllComes, PortsCome, PortsOf
  <2>2. CASE IsEndpoint(r)
    <3>1. ~AsksPort(r, p)
      BY <1>e, <2>1, <2>2 DEF AsksPort
    <3> QED BY <2>1, <2>2, <3>1 DEF PortComes
  <2>3. CASE ~IsEndpoint(r)
    <3>1. RecordedPort(r) = port /\ (r.port # 0 => InfoPort(r.guid, r.port) = port)
      BY <1>r, <2>3 DEF RecordedPort, InfoPort
    <3>2. DOMAIN after = DOMAIN infos \cup {port} /\ after[port] = InfoPort(r.guid, r.port)
          /\ \A k \in DOMAIN infos \ {port} : after[k] = infos[k]
      <4>1. PICK info2 : info2 = InfoPort(r.guid, r.port)
        OBVIOUS
      <4>2. after = Put(infos, port, info2)
        BY <2>3, <3>1, <4>1
      <4>3. /\ DOMAIN Put(infos, port, info2) = DOMAIN infos \cup {port}
            /\ Put(infos, port, info2)[port] = info2
            /\ \A k \in DOMAIN infos \ {port} : Put(infos, port, info2)[k] = infos[k]
        BY DEF Put
      <4> QED BY <4>1, <4>2, <4>3
    <3>3. CASE p = port
      <4>1. r.port # 0
        BY <2>1, <3>3
      <4> QED BY <3>1, <3>2, <3>3, <4>1 DEF PortComes
    <3>4. CASE p # port
      <4>1. ~AsksPort(r, p)
        BY <2>1, <3>4 DEF AsksPort
      <4> QED BY <2>1, <3>2, <3>4, <4>1 DEF PortComes
    <3> QED BY <3>3, <3>4
  <2> QED BY <2>2, <2>3
<1>p. \A p \in DOMAIN cabling : p = <<p[1], p[2]>> /\ p[2] # 0 /\ p[2] \in Nat
  <2>1. \A p \in DOMAIN cabling : p \in Ports
    BY CrawlAssumption DEF CrawlInv, IsCabling, IsWiring
  <2> QED BY <2>1 DEF Ports, PortsOf
<1>4. CablesCome(next, visited, links)
  <2> SUFFICES ASSUME NEW p \in DOMAIN cabling, p[1] \in visited \cap Explorer
               PROVE  CableComes(next, visited, links, p)
    BY DEF CablesCome
  <2>1. CableComes(open, visited, links, p)
    BY DEF AllComes, CablesCome
  <2>2. CASE AsksPort(r, p)
    <3>1. p = port /\ ~IsEndpoint(r)
      BY <1>e, <1>p, <2>2 DEF AsksPort
    <3> QED BY <3>1 DEF CableComes
  <2>3. CASE ~AsksPort(r, p)
    BY <2>1, <2>3 DEF CableComes, Follows
  <2> QED BY <2>2, <2>3
<1>5. ASSUME in_order PROVE LinksCome(next, visited, links)
  <2> SUFFICES ASSUME NEW p \in DOMAIN cabling, p[1] \in visited \cap Switches
               PROVE  LinkComes(next, links, p)
    BY DEF LinksCome
  <2> DEFINE zero == <<p[1], 0>>
  <2>1. LinkComes(open, links, p)
    BY <1>5 DEF AllComes, LinksCome
  <2>2. \A s \in open : s # r => r.tid < s.tid
    BY <1>5
  <2>3. \A s \in more : ~AsksPort(s, zero)
    BY DEF AsksPort
  <2>4. ASSUME ~AsksPort(r, zero), NEW s \in more PROVE ~Misleads(s, p[1])
    <3>1. CASE r.guid # p[1]
      BY <3>1 DEF Misleads
    <3>2. CASE r.guid = p[1]
      <4>1. r.port # 0
        BY <2>4, <3>2 DEF AsksPort
      <4> QED BY <4>1 DEF Misleads, Follows
    <3> QED BY <3>1, <3>2
  <2>5. CASE AsksPort(r, p) /\ \A s \in open : AsksPort(s, zero) => s.tid < r.tid
    <3>1. \A s \in open : ~AsksPort(s, zero)
      <4> SUFFICES ASSUME NEW s \in open, AsksPort(s, zero) PROVE FALSE
        OBVIOUS
      <4>1. s # r
        BY <1>p, <2>5 DEF AsksPort
      <4> QED BY <1>0, <2>2, <2>5, <4>1
    <3>2. \A s \in next : ~AsksPort(s, zero)
      BY <2>3, <3>1
    <3>3. p = port /\ ~IsEndpoint(r)
      BY <1>e, <1>p, <2>5 DEF AsksPort, Explorer
    <3>4. PICK f \in more : Follows(f, p)
      BY <3>3
    <3>5. \A s \in next : Misleads(s, p[1]) => s.tid < f.tid
      BY <2>4, <3>1, <3>4
    <3> QED BY <3>2, <3>4, <3>5 DEF LinkComes
  <2>6. ASSUME NEW f \in open, AsksPort(f, p), f # r,
               \A s \in open : AsksPort(s, zero) => s.tid < f.tid
        PROVE  LinkComes(next, links, p)
    <3>1. \A s \in next : AsksPort(s, zero) => s.tid < f.tid
      BY <2>3, <2>6
    <3> QED BY <2>6, <3>1 DEF LinkComes
  <2>7. ASSUME \A s \in open : ~AsksPort(s, zero),
               NEW f \in open, Follows(f, p),
               \A s \in open : Misleads(s, p[1]) => s.tid < f.tid
        PROVE  LinkComes(next, links, p)
    <3>1. \A s \in next : ~AsksPort(s, zero)
      BY <2>3, <2>7
    <3>2. f \in next
      BY <2>7 DEF Follows
    <3>3. \A s \in next : Misleads(s, p[1]) => s.tid < f.tid
      BY <2>4, <2>7
    <3> QED BY <2>7, <3>1, <3>2, <3>3 DEF LinkComes
  <2>8. ASSUME \A s \in open : ~AsksPort(s, zero),
               \A s \in open : ~Misleads(s, p[1]),
               p \in DOMAIN links /\ links[p] = cabling[p]
        PROVE  LinkComes(next, links, p)
    <3>1. \A s \in next : ~AsksPort(s, zero)
      BY <2>3, <2>8
    <3>2. \A s \in next : ~Misleads(s, p[1])
      BY <2>4, <2>8
    <3> QED BY <2>8, <3>1, <3>2 DEF LinkComes
  <2> QED BY <2>1, <2>5, <2>6, <2>7, <2>8 DEF LinkComes
<1> QED BY <1>1, <1>2, <1>3, <1>4, <1>5 DEF AllComes

(* The ports of a node are numbered from 0 or 1 on.                        *)
LEMMA PortRange == \A n \in Node : FirstPort(n) \in 0..1 /\ NPorts[n] \in 1..255
<1>1. \A n \in Node : FirstPort(n) \in 0..1
  BY DEF FirstPort
<1>2. \A n \in Node : NPorts[n] \in 1..255
  BY RouteAssumption
<1> QED BY <1>1, <1>2

(* A node that answers is linked by the cable that led to it, and all of   *)
(* a new node will come.                                                   *)
LEMMA NodeAnswered ==
    ASSUME CrawlInv, NEW open, NEW told, NEW infos, NEW links,
           AllComes(open, visited, told, infos, links),
           \A s \in open : /\ s.tid \in Nat
                           /\ s.attr # "NodeInfo" => s.guid \in visited,
           NEW r \in open, r.attr = "NodeInfo", AsksBeyond(r),
           in_order => \A s \in open : s # r => r.tid < s.tid,
           NEW node, node = Arrival(cabling, r.path)[1],
           NEW seen, seen = visited \cup {node},
           NEW linked,
           linked = IF r.guid = Nobody THEN links
                    ELSE Put(Put(links, Arrival(cabling, r.path), AskedBy(r)),
                             AskedBy(r), Arrival(cabling, r.path)),
           NEW more,
           \A s \in more : s.attr \in {"NodeDesc", "PortInfo"} /\ s.guid = node /\ s.path = r.path,
           node \in visited => more = {},
           node \notin visited =>
               /\ \E s \in more : s.attr = "NodeDesc"
               /\ \A q \in FirstPort(node)..NPorts[node] : \E s \in more :
                     /\ AsksPort(s, <<node, q>>)
                     /\ q # 0 => \A t \in more : AsksPort(t, <<node, 0>>) => t.tid < s.tid
    PROVE  AllComes((open \ {r}) \cup more, seen, told, infos, linked)
<1> DEFINE next == (open \ {r}) \cup more
           at == Arrival(cabling, r.path)
<1>n. at # Nowhere /\ node \in Node /\ Nobody \notin Node /\ visited \subseteq Node
  BY ArrivesAtPort, NobodyAssumption DEF AsksBeyond, Leads, CrawlInv
<1>c. IsCabling(cabling)
  BY CrawlAssumption DEF CrawlInv
<1>p. \A p \in DOMAIN cabling : p = <<p[1], p[2]>> /\ p[2] # 0
                                /\ p[1] \in Node /\ p[2] \in 1..NPorts[p[1]]
  <2>1. \A p \in DOMAIN cabling : p \in Ports
    BY <1>c DEF IsCabling, IsWiring
  <2> QED BY <2>1 DEF Ports, PortsOf
<1>f. FirstPort(node) \in 0..1 /\ NPorts[node] \in 1..255
  BY <1>n, PortRange
<1>g. \/ r.guid = Nobody /\ r.path = StartPath /\ node = Root
      \/ r.guid \in visited /\ r.guid # Nobody
  <2>1. r.path = StartPath => Arrival(cabling, r.path) = root_port
    BY StartRoute
  <2> QED BY <1>n, <2>1 DEF AsksBeyond, Passed, Root
<1>l. r.guid # Nobody =>
        /\ DOMAIN linked = DOMAIN links \cup {AskedBy(r), at}
        /\ linked[AskedBy(r)] = at
        /\ at # AskedBy(r) => linked[at] = AskedBy(r)
        /\ \A x \in DOMAIN links : x # at /\ x # AskedBy(r) => linked[x] = links[x]
  <2>1. PICK a, b : a = at /\ b = AskedBy(r)
    OBVIOUS
  <2>2. r.guid # Nobody => linked = Put(Put(links, a, b), b, a)
    BY <2>1
  <2>3. LET put == Put(Put(links, a, b), b, a)
        IN  /\ DOMAIN put = DOMAIN links \cup {b, a}
            /\ put[b] = a /\ (a # b => put[a] = b)
            /\ \A x \in DOMAIN links : x # a /\ x # b => put[x] = links[x]
    BY DEF Put
  <2> QED BY <2>1, <2>2, <2>3
<1>d. DOMAIN links \subseteq DOMAIN linked
  <2>1. r.guid = Nobody => linked = links
    OBVIOUS
  <2> QED BY <1>l, <2>1
<1> HIDE DEF at
<1>1. Begun(next, seen) /\ told \subseteq seen
  <2>1. Root \in visited \/ visited = {}
    BY DEF AllComes, Begun
  <2>2. Root \in seen
    BY <1>g, <2>1
  <2> QED BY <2>2 DEF AllComes, Begun
<1>2. AgentAsked(next)
  <2>1. ASSUME NEW s \in more, s.guid = Root PROVE s.path = StartPath
    <3>1. node = Root /\ node \notin visited /\ s.path = r.path
      BY <2>1
    <3>2. visited = {}
      BY <3>1 DEF AllComes, Begun
    <3> QED BY <1>g, <3>1, <3>2
  <2> QED BY <2>1 DEF AllComes, AgentAsked
<1>3. DescsCome(next, seen, told)
  BY DEF AllComes, DescsCome
<1>q. ASSUME node \notin visited, NEW p, p = <<node, p[2]>>, p[2] \in 1..NPorts[node]
      PROVE  \E s \in more : /\ AsksPort(s, p)
                             /\ \A t \in more : AsksPort(t, <<node, 0>>) => t.tid < s.tid
  <2>1. PICK number \in 1..NPorts[node] : number = p[2]
    BY <1>q
  <2>2. PICK q \in FirstPort(node)..NPorts[node] : q = p[2] /\ q # 0
    <3>1. number \in FirstPort(node)..NPorts[node] /\ number # 0
      BY <1>f
    <3> QED BY <2>1, <3>1
  <2>3. PICK s \in more : /\ AsksPort(s, <<node, q>>)
                          /\ \A t \in more : AsksPort(t, <<node, 0>>) => t.tid < s.tid
    BY <1>q, <2>2
  <2> QED BY <1>q, <2>2, <2>3
<1>4. PortsCome(next, seen, infos)
  <2> SUFFICES ASSUME NEW n \in seen \cap Explorer, NEW p \in PortsOf(n)
               PROVE  PortComes(next, infos, p)
    BY DEF PortsCome
  <2>1. CASE n \in visited
    <3>1. PortComes(open, infos, p)
      BY <2>1 DEF AllComes, PortsCome
    <3> QED BY <3>1 DEF PortComes, AsksPort
  <2>2. CASE n \notin visited
    <3>1. n = node /\ p = <<node, p[2]>> /\ p[2] \in 1..NPorts[node]
      BY <2>2 DEF PortsOf
    <3> QED BY <1>q, <2>2, <3>1 DEF PortComes
  <2> QED BY <2>1, <2>2
<1>5. CablesCome(next, seen, linked)
  <2> SUFFICES ASSUME NEW p \in DOMAIN cabling, p[1] \in seen \cap Explorer
               PROVE  CableComes(next, seen, linked, p)
    BY DEF CablesCome
  <2>1. CASE p[1] \notin visited
    <3>1. p = <<node, p[2]>> /\ p[2] \in 1..NPorts[node]
      BY <1>p, <2>1
    <3> QED BY <1>q, <2>1, <3>1 DEF CableComes
  <2>2. CASE p[1] \in visited
    <3>1. CableComes(open, visited, links, p)
      BY <2>2 DEF AllComes, CablesCome
    <3>2. CASE Follows(r, p)
      <4>1. AskedBy(r) = p /\ at = cabling[p]
        BY <3>2 DEF Follows, at
      <4>2. r.guid # Nobody
        BY <1>n, <2>2, <4>1 DEF AskedBy
      <4>3. cabling[p][1] \in seen
        BY <4>1 DEF at
      <4> QED BY <1>l, <4>1, <4>2, <4>3 DEF CableComes
    <3>3. CASE ~Follows(r, p)
      BY <1>d, <3>1, <3>3 DEF CableComes, AsksPort
    <3> QED BY <3>2, <3>3
  <2> QED BY <2>1, <2>2
<1>6. ASSUME in_order PROVE LinksCome(next, seen, linked)
  <2> SUFFICES ASSUME NEW p \in DOMAIN cabling, p[1] \in seen \cap Switches
               PROVE  LinkComes(next, linked, p)
    BY DEF LinksCome
  <2> DEFINE zero == <<p[1], 0>>
  <2>1. CASE p[1] \notin visited
    <3>1. p = <<node, p[2]>> /\ p[2] \in 1..NPorts[node] /\ zero = <<node, 0>>
      BY <1>p, <2>1
    <3>2. PICK s \in more : /\ AsksPort(s, p)
                            /\ \A t \in more : AsksPort(t, zero) => t.tid < s.tid
      BY <1>q, <2>1, <3>1
    <3>3. \A t \in open : ~AsksPort(t, zero)
      BY <2>1 DEF AsksPort
    <3> QED BY <3>2, <3>3 DEF LinkComes
  <2>2. CASE p[1] \in visited
    <3>1. LinkComes(open, links, p)
      BY <1>6, <2>2 DEF AllComes, LinksCome
    <3>2. \A s \in open : s # r => r.tid < s.tid
      BY <1>6
    <3>3. \A s \in more : ~AsksPort(s, zero) /\ ~Misleads(s, p[1])
      BY <2>2 DEF AsksPort, Misleads
    <3>4. ASSUME NEW f \in open, AsksPort(f, p),
                 \A s \in open : AsksPort(s, zero) => s.tid < f.tid
          PROVE  LinkComes(next, linked, p)
      <4>1. f \in next
        BY <3>4 DEF AsksPort
      <4>2. \A s \in next : AsksPort(s, zero) => s.tid < f.tid
        BY <3>3, <3>4
      <4> QED BY <3>4, <4>1, <4>2 DEF LinkComes
    <3>5. ASSUME \A s \in open : ~AsksPort(s, zero),
                 NEW f \in open, Follows(f, p), f # r,
                 \A s \in open : Misleads(s, p[1]) => s.tid < f.tid
          PROVE  LinkComes(next, linked, p)
      <4>1. \A s \in next : ~AsksPort(s, zero) /\ (Misleads(s, p[1]) => s.tid < f.tid)
        BY <3>3, <3>5
      <4> QED BY <3>5, <4>1 DEF LinkComes
    <3>6. ASSUME \A s \in open : ~AsksPort(s, zero), Follows(r, p),
                 \A s \in open : Misleads(s, p[1]) => s.tid < r.tid
          PROVE  LinkComes(next, linked, p)
      <4>1. \A s \in next : ~AsksPort(s, zero)
        BY <3>3, <3>6
      <4>2. ASSUME NEW s \in next, Misleads(s, p[1]) PROVE FALSE
        <5>1. s \in open /\ s # r /\ s.tid < r.tid /\ r.tid < s.tid
          BY <3>2, <3>3, <3>6, <4>2
        <5>2. s.tid \in Nat /\ r.tid \in Nat
          BY <5>1
        <5> QED BY <5>1, <5>2
      <4>3. AskedBy(r) = p /\ at = cabling[p]
        BY <3>6 DEF Follows, at
      <4>4. r.guid # Nobody
        BY <1>n, <2>2, <4>3 DEF AskedBy
      <4>5. p \in DOMAIN linked /\ linked[p] = cabling[p]
        BY <1>l, <4>3, <4>4
      <4> QED BY <4>1, <4>2, <4>5 DEF LinkComes
    <3>7. ASSUME \A s \in open : ~AsksPort(s, zero), \A s \in open : ~Misleads(s, p[1]),
                 p \in DOMAIN links, links[p] = cabling[p]
          PROVE  LinkComes(next, linked, p)
      <4>1. \A s \in next : ~AsksPort(s, zero) /\ ~Misleads(s, p[1])
        BY <3>3, <3>7
      <4>2. linked[p] = cabling[p]
        <5>1. CASE r.guid = Nobody
          BY <3>7, <5>1
        <5>2. CASE r.guid # Nobody /\ AskedBy(r) \in DOMAIN cabling /\ at = cabling[AskedBy(r)]
          <6>1. AskedBy(r) # at /\ cabling[at] = AskedBy(r)
            BY <1>c, <5>2 DEF IsCabling, IsWiring
          <6> QED BY <1>l, <3>7, <5>2, <6>1
        <5>3. CASE r.guid # Nobody
                   /\ ~(AskedBy(r) \in DOMAIN cabling /\ at = cabling[AskedBy(r)])
          <6>1. at[1] = r.guid /\ AskedBy(r)[1] = r.guid
            BY <1>n, <5>3 DEF AsksBeyond, at, Passed, AskedBy
          <6>2. Misleads(r, r.guid)
            BY <5>3 DEF Misleads, at
          <6>3. p[1] # r.guid
            BY <3>7, <6>2
          <6>4. p # at /\ p # AskedBy(r)
            BY <6>1, <6>3
          <6> QED BY <1>l, <3>7, <5>3, <6>4
        <5> QED BY <5>1, <5>2, <5>3
      <4> QED BY <1>d, <3>7, <4>1, <4>2 DEF LinkComes
    <3> QED BY <3>1, <3>4, <3>5, <3>6, <3>7 DEF LinkComes
  <2> QED BY <2>1, <2>2
<1> QED BY <1>1, <1>2, <1>3, <1>4, <1>5, <1>6 DEF AllComes

(* What is to come of given things depends on the fabric alone.            *)
LEMMA ComesStays ==
    ASSUME UNCHANGED <<root_port, cabling, in_order>>,
           NEW open, NEW seen, NEW told, NEW infos, NEW links,
           AllComes(open, seen, told, infos, links),
           Open' = open, visited' = seen, desc' = told, info' = infos, remote' = links
    PROVE  AllComes(Open, visited, desc, info, remote)'
<1>1. \A path : Arrival(cabling, path)' = Arrival(cabling, path)
  BY SameArrival
<1>2. Root' = Root /\ Explorer' = Explorer
  BY DEF Root, Explorer
<1>3. \A r, p : Follows(r, p)' = Follows(r, p)
  BY <1>1 DEF Follows, AskedBy
<1>4. \A r, n : Misleads(r, n)' = Misleads(r, n)
  BY <1>1 DEF Misleads, AskedBy
<1>5. Begun(Open, visited)' /\ AgentAsked(Open)' /\ desc' \subseteq visited'
  BY <1>2 DEF AllComes, Begun, AgentAsked
<1>6. DescsCome(Open, visited, desc)'
  BY DEF AllComes, DescsCome
<1>7. PortsCome(Open, visited, info)'
  BY <1>2 DEF AllComes, PortsCome, PortComes, AsksPort, PortsOf
<1>8. CablesCome(Open, visited, remote)'
  BY <1>2, <1>3 DEF AllComes, CablesCome, CableComes, AsksPort
<1>9. in_order' => LinksCome(Open, visited, remote)'
  BY <1>3, <1>4 DEF AllComes, LinksCome, LinkComes, AsksPort
<1> QED BY <1>5, <1>6, <1>7, <1>8, <1>9 DEF AllComes

(* What was found when no request is open any more.                        *)
LEMMA AllCame ==
    ASSUME CrawlInv, BudgetInv, TrueOrOwn(remote), over, smp_map = <<>>,
           AllComes(Open, visited, desc, info, remote)
    PROVE  CrawlComplete
<1>1. Open = {}
  <2>1. DOMAIN smp_map = {}
    BY DEF CrawlInv
  <2> QED BY <2>1 DEF Open
<1>2. Root \in visited /\ visited \subseteq Reach /\ visited = desc
  BY <1>1 DEF AllComes, Begun, DescsCome, BudgetInv
<1>3. \A p \in DOMAIN cabling : p[1] \in visited \cap Explorer =>
         cabling[p][1] \in visited /\ p \in DOMAIN remote /\ cabling[p] \in DOMAIN remote
  BY <1>1 DEF AllComes, CablesCome, CableComes
<1>4. Reach \subseteq visited
  <2> DEFINE n == Cardinality(Node)
             S == {k \in 0..n : Ball(cabling, k) \subseteq visited}
  <2>1. n \in Nat
    BY RouteAssumption, FS_CardinalityType
  <2>2. 0 \in S
    <3>1. Ball(cabling, 0) = {Root}
      BY BallSteps
    <3> QED BY <1>2, <2>1, <3>1
  <2>3. ASSUME NEW k \in 0..(n - 1), k \in S PROVE k + 1 \in S
    <3>1. k \in Nat /\ k + 1 \in 0..n
      BY <2>1
    <3>2. PICK cable : cable = cabling
      OBVIOUS
    <3>3. Ball(cable, k + 1) = Wider(cable, Ball(cable, k))
      BY <3>1, BallSteps
    <3>4. Ball(cable, k) \subseteq visited
      BY <2>3, <3>2
    <3>5. Wider(cable, Ball(cable, k)) \subseteq visited
      BY <1>3, <3>2, <3>4 DEF Wider, Explorer
    <3> QED BY <3>1, <3>2, <3>3, <3>5
  <2> HIDE DEF S
  <2>4. 0..n \subseteq S
    BY <2>1, <2>2, <2>3, IntervalInduction
  <2>5. n \in S
    BY <2>1, <2>4
  <2> QED BY <2>5 DEF S, Reach
<1>5. visited = Reach /\ desc = Reach /\ Explored = visited \cap Explorer
  BY <1>2, <1>4 DEF Explored, Explorer
<1>6. \A p \in UNION {PortsOf(node) : node \in Explored} : p \in DOMAIN info /\ info[p] = p
  BY <1>1, <1>5 DEF AllComes, PortsCome, PortComes
<1>c. IsCabling(cabling)
  BY CrawlAssumption DEF CrawlInv
<1>7. ASSUME NEW p \in DOMAIN cabling, {p[1], cabling[p][1]} \cap Explored # {},
             in_order \/ ~FollowsPortZero(p[1])
      PROVE  p \in DOMAIN remote /\ remote[p] = cabling[p]
  <2>1. PICK q : q = cabling[p]
    OBVIOUS
  <2>2. q \in DOMAIN cabling /\ cabling[q] = p
    BY <1>c, <2>1 DEF IsCabling, IsWiring
  <2>3. p[1] \in Explored \/ q[1] \in Explored
    BY <1>7, <2>1
  <2>4. p \in DOMAIN remote /\ p[1] \in visited
    BY <1>3, <1>5, <2>1, <2>2, <2>3
  <2>5. CASE ~FollowsPortZero(p[1])
    BY <2>4, <2>5 DEF TrueOrOwn
  <2>6. CASE in_order /\ FollowsPortZero(p[1])
    <3>1. p[1] \in visited \cap Switches
      BY <2>4, <2>6 DEF FollowsPortZero
    <3>2. LinkComes(Open, remote, p)
      BY <2>6, <3>1 DEF AllComes, LinksCome
    <3> QED BY <1>1, <3>2 DEF LinkComes
  <2> QED BY <1>7, <2>5, <2>6
<1> QED BY <1>5, <1>6, <1>7 DEF CrawlComplete

(* A step on an answer: one of the three above, for the request answered,  *)
(* which is the oldest when answers come in order.                         *)
LEMMA AnswerComes ==
    ASSUME CrawlInv, TrackInv, RoutesHaveRoom, AgentHasOnePort,
           AllComes(Open, visited, desc, info, remote), ProcessAnswer
    PROVE  AllComes(Open, visited, desc, info, remote)'
<1>1. UNCHANGED <<root_port, cabling, in_order>>
  BY DEF ProcessAnswer
<1>2. PICK i \in DOMAIN smp_map :
         /\ in_order => i = 1
         /\ CASE smp_map[i].attr = "NodeInfo" -> RecvNodeInfo(smp_map[i])
              [] smp_map[i].attr = "NodeDesc" -> RecvNodeDesc(smp_map[i])
              [] smp_map[i].attr = "PortInfo" -> RecvPortInfo(smp_map[i])
  <2>1. PICK i \in DOMAIN smp_map :
           /\ i <= (IF in_order THEN 1 ELSE 1 + Overtake)
           /\ CASE smp_map[i].attr = "NodeInfo" -> RecvNodeInfo(smp_map[i])
                [] smp_map[i].attr = "NodeDesc" -> RecvNodeDesc(smp_map[i])
                [] smp_map[i].attr = "PortInfo" -> RecvPortInfo(smp_map[i])
    BY DEF ProcessAnswer
  <2>2. i \in Nat /\ i >= 1
    BY DEF CrawlInv
  <2>3. in_order => i = 1
    BY <2>1, <2>2
  <2> QED BY <2>1, <2>3
<1>3. PICK open : open = Open
  OBVIOUS
<1>4. PICK told, infos, links : told = desc /\ infos = info /\ links = remote
  OBVIOUS
<1>5. PICK r : r = smp_map[i]
  OBVIOUS
<1>6. r \in open /\ r \in Request /\ Sound(r)
  BY <1>3, <1>5 DEF CrawlInv, Open
<1>7. \A s \in open : s \in Request /\ Sound(s) /\ s.tid \in Nat /\ s.tid < tid
  BY <1>3, OpenFacts
<1>8. in_order => \A s \in open : s # r => r.tid < s.tid
  BY <1>2, <1>3, <1>5, OpenFacts
<1>9. tid \in Nat /\ smp_map \in Seq(Request) /\ visited \subseteq Node
  BY DEF CrawlInv
<1>10. AllComes(open, visited, told, infos, links)
  BY <1>3, <1>4
<1>11. r.attr \in {"NodeInfo", "NodeDesc", "PortInfo"}
  BY <1>6 DEF Request
<1>n. PICK none : none = <<>>
  OBVIOUS
<1>m. none \in Seq(Request) /\ Len(none) = 0
  BY <1>n
<1>12. CASE r.attr = "NodeDesc"
  <2>1. RecvNodeDesc(r)
    BY <1>2, <1>5, <1>12
  <2>2. r.guid \in visited
    BY <1>6, <1>12 DEF Sound, AsksNode
  <2>3. Requests(r, none) /\ desc' = told \cup {r.guid}
        /\ UNCHANGED <<visited, info, remote>>
    BY <1>4, <1>n, <2>1 DEF RecvNodeDesc
  <2>4. Open' = open \ {r}
    <3>1. PICK more : /\ Open' = (open \ {r}) \cup more
                      /\ \A s \in more : \E k \in 1..Len(none) : Copies(s, none[k], tid + k - 1)
      BY <1>3, <1>9, <1>m, <2>3, OpenAfter
    <3>2. more = {}
      BY <1>m, <3>1
    <3> QED BY <3>1, <3>2
  <2>5. PICK seen : seen = visited
    OBVIOUS
  <2>6. AllComes(open \ {r}, seen, told \cup {r.guid}, infos, links)
    BY <1>6, <1>10, <1>12, <2>2, <2>5, DescAnswered
  <2>7. visited' = seen /\ info' = infos /\ remote' = links
    BY <1>4, <2>3, <2>5
  <2> QED BY <1>1, <2>3, <2>4, <2>6, <2>7, ComesStays
<1>13. CASE r.attr = "PortInfo"
  <2>1. RecvPortInfo(r)
    BY <1>2, <1>5, <1>13
  <2>2. AsksNode(r)
    BY <1>6, <1>13 DEF Sound
  <2>3. UNCHANGED <<visited, desc, remote>>
    BY <2>1 DEF RecvPortInfo
  <2>4. PICK port, after : port = <<r.guid, r.port>> /\ after = info'
    OBVIOUS
  <2>5. /\ IsEndpoint(r) => after = infos
        /\ ~IsEndpoint(r) => after = Put(infos, RecordedPort(r), InfoPort(r.guid, r.port))
    BY <1>4, <2>1, <2>4 DEF RecvPortInfo
  <2>6. \E more : /\ Open' = (open \ {r}) \cup more
                  /\ ~IsEndpoint(r) /\ port \in DOMAIN cabling =>
                        \E s \in more : Follows(s, port)
                  /\ \A s \in more : s.attr = "NodeInfo" /\ s.guid = r.guid /\ s.tid = tid
                  /\ \A s \in more : r.port # 0 => port \in DOMAIN cabling /\ Follows(s, port)
    <3>1. CASE ~IsEndpoint(r) /\ IsUp(InfoPort(r.guid, r.port))
      <4>1. PICK q : q = Ask("NodeInfo", Onward(r), 0, r.guid)
        OBVIOUS
      <4>2. /\ q \in Request
            /\ r.port # 0 => AskedBy(q) = port /\ Arrival(cabling, q.path) = cabling[port]
        BY <1>1, <1>6, <1>13, <2>2, <2>3, <2>4, <3>1, <4>1, OnwardSound
      <4>3. PICK asked : asked = <<q>>
        OBVIOUS
      <4>4. asked \in Seq(Request) /\ Len(asked) = 1 /\ asked[1] = q
        BY <4>2, <4>3
      <4>5. Requests(r, asked)
        BY <2>1, <3>1, <4>1, <4>3 DEF RecvPortInfo
      <4>6. PICK more : /\ Open' = (open \ {r}) \cup more
                        /\ \A s \in more : \E k \in 1..Len(asked) :
                              Copies(s, asked[k], tid + k - 1)
                        /\ \A k \in 1..Len(asked) : \E s \in more :
                              Copies(s, asked[k], tid + k - 1)
        BY <1>3, <1>9, <4>4, <4>5, OpenAfter
      <4>7. \A s \in more : Copies(s, q, tid)
        <5>1. \A k \in 1..Len(asked) : k = 1 /\ tid + k - 1 = tid
          BY <1>9, <4>4
        <5> QED BY <4>4, <4>6, <5>1
      <4>8. \E s \in more : TRUE
        <5>1. 1 \in 1..Len(asked)
          BY <4>4
        <5> QED BY <4>6, <5>1
      <4>9. q.attr = "NodeInfo" /\ q.guid = r.guid
        BY <4>1 DEF Ask
      <4>10. \A s \in more : s.attr = "NodeInfo" /\ s.guid = r.guid /\ s.tid = tid
        BY <4>7, <4>9 DEF Copies
      <4>11. r.port # 0 => port \in DOMAIN cabling
        BY <2>4, <3>1 DEF IsUp, InfoPort
      <4>12. r.port # 0 => \A s \in more : Follows(s, port)
        BY <4>2, <4>7, <4>9 DEF Copies, Follows, AskedBy
      <4>13. port \in DOMAIN cabling => r.port # 0
        <5>1. \A p \in DOMAIN cabling : p \in Ports
          BY CrawlAssumption DEF CrawlInv, IsCabling, IsWiring
        <5>2. \A p \in Ports : p[2] # 0
          BY DEF Ports, PortsOf
        <5> QED BY <2>4, <5>1, <5>2
      <4> QED BY <4>6, <4>8, <4>10, <4>11, <4>12, <4>13
    <3>2. CASE IsEndpoint(r) \/ ~IsUp(InfoPort(r.guid, r.port))
      <4>1. Requests(r, none)
        BY <1>n, <2>1, <3>2 DEF RecvPortInfo
      <4>2. PICK more : /\ Open' = (open \ {r}) \cup more
                        /\ \A s \in more : \E k \in 1..Len(none) :
                              Copies(s, none[k], tid + k - 1)
        BY <1>3, <1>9, <1>m, <4>1, OpenAfter
      <4>3. more = {}
        BY <1>m, <4>2
      <4>4. ~IsEndpoint(r) => port \notin DOMAIN cabling
        <5>1. \A p \in DOMAIN cabling : p \in Ports
          BY CrawlAssumption DEF CrawlInv, IsCabling, IsWiring
        <5>2. \A p \in Ports : p[2] # 0
          BY DEF Ports, PortsOf
        <5>3. port \in DOMAIN cabling => r.port # 0
          BY <2>4, <5>1, <5>2
        <5> QED BY <2>4, <3>2, <5>3 DEF IsUp, InfoPort
      <4> QED BY <4>2, <4>3, <4>4
    <3> QED BY <3>1, <3>2
  <2>7. PICK more : /\ Open' = (open \ {r}) \cup more
                    /\ ~IsEndpoint(r) /\ port \in DOMAIN cabling =>
                          \E s \in more : Follows(s, port)
                    /\ \A s \in more : s.attr = "NodeInfo" /\ s.guid = r.guid /\ s.tid = tid
                    /\ \A s \in more : r.port # 0 => port \in DOMAIN cabling /\ Follows(s, port)
    BY <2>6
  <2>8. PICK seen : seen = visited
    OBVIOUS
  <2>9. AllComes((open \ {r}) \cup more, seen, told, after, links)
    <3>1. \A s \in open : s.tid \in Nat /\ s.tid < tid
      BY <1>7
    <3> QED BY <1>6, <1>8, <1>9, <1>10, <1>13, <2>2, <2>4, <2>5, <2>7, <2>8, <3>1, PortAnswered
  <2>10. visited' = seen /\ desc' = told /\ remote' = links /\ info' = after
    BY <1>4, <2>3, <2>4, <2>8
  <2> QED BY <1>1, <2>7, <2>9, <2>10, ComesStays
<1>14. CASE r.attr = "NodeInfo"
  <2>1. AsksBeyond(r)
    BY <1>6, <1>14 DEF Sound
  <2>2. PICK node, at : node = at[1] /\ at = Arrival(cabling, r.path)
    OBVIOUS
  <2>3. node \in Node
    BY <2>1, <2>2, ArrivesAtPort DEF AsksBeyond, Leads, CrawlInv
  <2>4. PICK path \in [Index -> 0..255] : path = r.path
    BY <1>6 DEF Request
  <2>5. PICK asked : asked = IF IsNew(node) THEN FollowUp(node, path) ELSE none
    OBVIOUS
  <2>6. RecvNodeInfo(r)
    BY <1>2, <1>5, <1>14
  <2>7. /\ visited' = visited \cup {node} /\ desc' = told /\ info' = infos
        /\ Requests(r, asked)
        /\ remote' = IF r.guid = Nobody THEN links
                     ELSE Put(Put(links, Arrival(cabling, r.path), AskedBy(r)),
                              AskedBy(r), Arrival(cabling, r.path))
    BY <1>4, <1>n, <2>2, <2>4, <2>5, <2>6 DEF RecvNodeInfo, FollowUp, LinkPorts
  <2>8. FollowUp(node, path) \in Seq(Request)
    BY <2>3, FollowUpAsks
  <2>9. asked \in Seq(Request)
    BY <1>m, <2>5, <2>8
  <2>10. PICK more : /\ Open' = (open \ {r}) \cup more
                     /\ \A s \in more : \E k \in 1..Len(asked) :
                           Copies(s, asked[k], tid + k - 1)
                     /\ \A k \in 1..Len(asked) : \E s \in more :
                           Copies(s, asked[k], tid + k - 1)
    BY <1>3, <1>9, <2>7, <2>9, OpenAfter
  <2>11. node \in visited => more = {}
    BY <1>m, <2>5, <2>10 DEF IsNew
  <2>12. ASSUME node \notin visited
         PROVE  /\ \A s \in more : /\ s.attr \in {"NodeDesc", "PortInfo"} /\ s.guid = node
                                   /\ s.path = r.path
                /\ \E s \in more : s.attr = "NodeDesc"
                /\ \A q \in FirstPort(node)..NPorts[node] : \E s \in more :
                      /\ AsksPort(s, <<node, q>>)
                      /\ q # 0 => \A t \in more : AsksPort(t, <<node, 0>>) => t.tid < s.tid
    <3>1. asked = FollowUp(node, path)
      BY <2>5, <2>12 DEF IsNew
    <3>2. \A k \in 1..Len(asked) :
              /\ asked[k].attr \in {"NodeDesc", "PortInfo"}
              /\ asked[k].path = path /\ asked[k].guid = node
              /\ asked[k].attr = "PortInfo" => asked[k].port = FirstPort(node) + k - 2
      <4>1. \A k \in 1..Len(FollowUp(node, path)) :
               \A q : q = FollowUp(node, path)[k] =>
                   /\ q.attr \in {"NodeDesc", "PortInfo"}
                   /\ q.path = path /\ q.guid = node /\ q.port \in 0..NPorts[node]
                   /\ q.attr = "PortInfo" => q.port \in FirstPort(node)..NPorts[node]
                   /\ q.attr = "PortInfo" => q.port = FirstPort(node) + k - 2
        BY <2>3, FollowUpAsks
      <4>2. \A k \in 1..Len(asked) :
               \A q : q = asked[k] =>
                   /\ q.attr \in {"NodeDesc", "PortInfo"}
                   /\ q.path = path /\ q.guid = node
                   /\ q.attr = "PortInfo" => q.port = FirstPort(node) + k - 2
        BY <3>1, <4>1
      <4> QED BY <4>2
    <3>3. /\ asked[1].attr = "NodeDesc" /\ 1 \in 1..Len(asked)
          /\ \A q \in FirstPort(node)..NPorts[node] :
                LET k == q - FirstPort(node) + 2
                IN  /\ k \in 1..Len(asked)
                    /\ asked[k].attr = "PortInfo" /\ asked[k].port = q
      BY <2>3, <3>1, FollowUpOrder
    <3>f. FirstPort(node) \in 0..1 /\ NPorts[node] \in 1..255
      BY <2>3, PortRange
    <3>4. \A s \in more : /\ s.attr \in {"NodeDesc", "PortInfo"} /\ s.guid = node
                          /\ s.path = r.path
      <4> SUFFICES ASSUME NEW s \in more
                   PROVE  /\ s.attr \in {"NodeDesc", "PortInfo"} /\ s.guid = node
                          /\ s.path = r.path
        OBVIOUS
      <4>1. PICK k \in 1..Len(asked) : Copies(s, asked[k], tid + k - 1)
        BY <2>10
      <4>2. s.attr = asked[k].attr /\ s.guid = asked[k].guid /\ s.path = asked[k].path
        BY <4>1 DEF Copies
      <4> QED BY <2>4, <3>2, <4>2
    <3>5. \E s \in more : s.attr = "NodeDesc"
      <4>1. PICK k \in 1..Len(asked) : asked[k].attr = "NodeDesc"
        BY <3>3
      <4>2. PICK s \in more : Copies(s, asked[k], tid + k - 1)
        BY <2>10
      <4> QED BY <4>1, <4>2 DEF Copies
    <3>6. ASSUME NEW q \in FirstPort(node)..NPorts[node]
          PROVE  \E s \in more :
                    /\ AsksPort(s, <<node, q>>)
                    /\ q # 0 => \A t \in more : AsksPort(t, <<node, 0>>) => t.tid < s.tid
      <4>1. PICK k : k = q - FirstPort(node) + 2
        OBVIOUS
      <4>2. k \in 1..Len(asked) /\ asked[k].attr = "PortInfo" /\ asked[k].port = q
        BY <3>3, <4>1
      <4>3. PICK s \in more : Copies(s, asked[k], tid + k - 1)
        BY <2>10, <4>2
      <4>4. AsksPort(s, <<node, q>>) /\ s.tid = tid + k - 1
        BY <3>2, <4>2, <4>3 DEF Copies, AsksPort
      <4>5. ASSUME q # 0, NEW t \in more, AsksPort(t, <<node, 0>>) PROVE t.tid < s.tid
        <5>1. PICK l \in 1..Len(asked) : Copies(t, asked[l], tid + l - 1)
          BY <2>10
        <5>2. asked[l].attr = "PortInfo" /\ asked[l].port = 0 /\ t.tid = tid + l - 1
          BY <4>5, <5>1 DEF Copies, AsksPort
        <5>3. 0 = FirstPort(node) + l - 2 /\ l \in Nat
          BY <2>9, <3>2, <5>2
        <5>4. l < k /\ k \in Int
          BY <3>f, <4>1, <4>5, <5>3
        <5> QED BY <1>9, <4>4, <5>2, <5>3, <5>4
      <4> QED BY <4>4, <4>5
    <3> QED BY <3>4, <3>5, <3>6
  <2>13. PICK seen, linked : seen = visited' /\ linked = remote'
    OBVIOUS
  <2>14. AllComes((open \ {r}) \cup more, seen, told, infos, linked)
    <3>1. \A s \in open : s.tid \in Nat /\ (s.attr # "NodeInfo" => s.guid \in visited)
      BY <1>7 DEF Sound, AsksNode
    <3>2. node = Arrival(cabling, r.path)[1]
      BY <2>2
    <3>3. seen = visited \cup {node}
      BY <2>7, <2>13
    <3>4. linked = IF r.guid = Nobody THEN links
                   ELSE Put(Put(links, Arrival(cabling, r.path), AskedBy(r)),
                            AskedBy(r), Arrival(cabling, r.path))
      BY <2>7, <2>13
    <3>5. \A s \in more : s.attr \in {"NodeDesc", "PortInfo"} /\ s.guid = node /\ s.path = r.path
      BY <2>11, <2>12
    <3>6. node \notin visited =>
             /\ \E s \in more : s.attr = "NodeDesc"
             /\ \A q \in FirstPort(node)..NPorts[node] : \E s \in more :
                   /\ AsksPort(s, <<node, q>>)
                   /\ q # 0 => \A t \in more : AsksPort(t, <<node, 0>>) => t.tid < s.tid
      BY <2>12
    <3> QED BY <1>6, <1>8, <1>10, <1>14, <2>1, <2>11, <3>1, <3>2, <3>3, <3>4, <3>5, <3>6,
               NodeAnswered, ZenonT(60)
  <2> QED BY <1>1, <2>7, <2>10, <2>13, <2>14, ComesStays
<1> QED BY <1>11, <1>12, <1>13, <1>14

(* Every step keeps to it, until a request expires.                        *)
LEMMA ComesStep ==
    ASSUME CrawlInv, TrackInv, RoutesHaveRoom, AgentHasOnePort, ComesInv, [Next]_vars
    PROVE  ComesInv'
<1>1. CASE ProcessAnswer
  <2>1. expiries' = expiries
    BY <1>1 DEF ProcessAnswer
  <2>2. ASSUME expiries = 0 PROVE AllComes(Open, visited, desc, info, remote)'
    BY <1>1, <2>2, AnswerComes DEF ComesInv
  <2> QED BY <2>1, <2>2 DEF ComesInv
<1>2. CASE ProcessTimeout
  <2>1. expiries' = expiries + 1 /\ expiries \in Nat
    BY <1>2 DEF ProcessTimeout, ComesInv
  <2>2. expiries' \in Nat /\ expiries' # 0
    BY <2>1
  <2> QED BY <2>2 DEF ComesInv
<1>3. CASE LoopEnds \/ UNCHANGED vars
  <2>1. UNCHANGED <<root_port, cabling, in_order, smp_map, expiries, visited, desc, info, remote>>
    BY <1>3 DEF LoopEnds, graph, vars, crawl
  <2>2. ASSUME expiries = 0 PROVE AllComes(Open, visited, desc, info, remote)'
    <3>1. PICK open, seen, told, infos, links :
             open = Open /\ seen = visited /\ told = desc /\ infos = info /\ links = remote
      OBVIOUS
    <3>2. AllComes(open, seen, told, infos, links)
      BY <2>2, <3>1 DEF ComesInv
    <3>3. /\ Open' = open /\ visited' = seen /\ desc' = told /\ info' = infos
          /\ remote' = links
      BY <2>1, <3>1 DEF Open
    <3> QED BY <2>1, <3>2, <3>3, ComesStays
  <2> QED BY <2>1, <2>2 DEF ComesInv
<1> QED BY <1>1, <1>2, <1>3 DEF Next

(* At the start nothing is known, and the first request is open.           *)
LEMMA InitComes == Init => ComesInv
<1> SUFFICES ASSUME Init PROVE ComesInv
  OBVIOUS
<1>1. PICK r : r = Ask("NodeInfo", StartPath, 0, Nobody)
  OBVIOUS
<1>2. smp_map = <<r>> /\ visited = {} /\ desc = {} /\ expiries = 0
  BY <1>1 DEF Init
<1>3. Open = {r}
  <2>1. DOMAIN smp_map = {1} /\ smp_map[1] = r
    BY <1>2
  <2> QED BY <2>1 DEF Open
<1>4. r.attr = "NodeInfo" /\ r.guid = Nobody
  BY <1>1 DEF Ask
<1>5. Begun(Open, visited) /\ AgentAsked(Open) /\ desc \subseteq visited
  BY <1>2, <1>3, <1>4 DEF Begun, AgentAsked
<1>6. /\ DescsCome(Open, visited, desc) /\ PortsCome(Open, visited, info)
      /\ CablesCome(Open, visited, remote) /\ LinksCome(Open, visited, remote)
  BY <1>2 DEF DescsCome, PortsCome, CablesCome, LinksCome
<1> QED BY <1>2, <1>5, <1>6 DEF ComesInv, AllComes

(* A crawl in which no request expires misses nothing, in whatever order   *)
(* the answers come: it ends with every node in reach and its description, *)
(* each port with its own information, and each cable linked at both ends, *)
(* but for those of a switch that its port 0 leads back to, when answers   *)
(* do not come in order.                                                   *)
THEOREM CrawlFindsAll == RoutesHaveRoom /\ AgentHasOnePort => (Spec => []CrawlComplete)
<1> DEFINE CrawlOK == CrawlInv /\ TrueOrOwn(remote) /\ Ordered(ports) /\ ListInv /\ BudgetInv
                      /\ ComesInv
<1> SUFFICES ASSUME RoutesHaveRoom, AgentHasOnePort PROVE Spec => []CrawlComplete
  OBVIOUS
<1>1. Init => CrawlOK
  BY InitBudget, InitComes
<1>2. CrawlOK /\ [Next]_vars => CrawlOK'
  <2> SUFFICES ASSUME CrawlOK, [Next]_vars PROVE CrawlOK'
    OBVIOUS
  <2>1. CrawlInv' /\ TrueOrOwn(remote)' /\ Ordered(ports)'
    BY CrawlStep
  <2>2. ListInv'
    BY TrackStep
  <2>3. BudgetInv'
    BY BudgetStep
  <2>4. ComesInv'
    BY ComesStep DEF ListInv
  <2> QED BY <2>1, <2>2, <2>3, <2>4
<1>3. CrawlOK => CrawlComplete
  <2> SUFFICES ASSUME CrawlOK PROVE CrawlComplete
    OBVIOUS
  <2>1. CASE over /\ expiries = 0
    <3>1. smp_map = <<>> /\ AllComes(Open, visited, desc, info, remote)
      BY <2>1 DEF ListInv, TrackInv, ComesInv
    <3> QED BY <2>1, <3>1, AllCame
  <2>2. CASE ~(over /\ expiries = 0)
    BY <2>2 DEF CrawlComplete
  <2> QED BY <2>1, <2>2
<1> HIDE DEF CrawlOK
<1> QED BY <1>1, <1>2, <1>3, PTL DEF Spec
=============================================================================
