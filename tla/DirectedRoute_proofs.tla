------------------------ MODULE DirectedRoute_proofs ------------------------
(***************************************************************************)
(* Lemmas about routes and about the maps and lists the code keeps, which  *)
(* the proofs about the traversals and the crawl rest on.                  *)
(*                                                                         *)
(* Arrival and Kept are recursive functions.  The library's theorem of     *)
(* induction takes a predicate as a parameter, which the provers cannot    *)
(* instantiate; induction is done here with sets: every non-empty set of   *)
(* numbers, as one of counterexamples would be, has a least element.       *)
(***************************************************************************)
EXTENDS DirectedRoute, Collections, SequenceTheorems, FiniteSetTheorems,
        WellFoundedInduction, TLAPS

(* Every non-empty set of numbers has a least one.                         *)
LEMMA LeastNat ==
    ASSUME NEW T \in SUBSET Nat, T # {}
    PROVE  \E m \in T : \A k \in T : m <= k
<1> DEFINE R == {ss \in Nat \X Nat : ss[1] < ss[2]}
<1>1. IsWellFoundedOn(R, Nat)
  BY NatLessThanWellFounded DEF OpToRel
<1>2. PICK m \in T : \A k \in T : ~(<<k, m>> \in R)
  <2> HIDE DEF R
  <2> QED BY <1>1, WFMin
<1>3. \A k \in T : ~(k < m)
  BY <1>2
<1> QED BY <1>3

(* Arrival is where a walk ends: a function that takes hop after hop.      *)
IsWalk(at, cable, path) ==
    at = [i \in Index |-> Hop(cable, path, i, IF i = 0 THEN root_port ELSE at[i - 1])]

(* A route has entries 0 and 1 and a last one.                             *)
LEMMA IndexFacts ==
    /\ PathLen \in Nat /\ PathLen - 1 \in Index /\ 0 \in Index /\ 1 \in Index
    /\ Index \subseteq Nat
  BY RouteAssumption DEF Index

(* There is a walk along every route: it is built hop by hop.              *)
LEMMA WalkExists == \A cable, path : \E at : IsWalk(at, cable, path)
<1> SUFFICES ASSUME NEW cable, NEW path PROVE \E at : IsWalk(at, cable, path)
  OBVIOUS
<1> DEFINE Upto(n, f) == f = [i \in 0..n |-> Hop(cable, path, i, IF i = 0 THEN root_port ELSE f[i - 1])]
           T == {n \in Nat : ~\E f : Upto(n, f)}
<1>1. SUFFICES T = {}
  <2>1. PathLen - 1 \in Nat
    BY RouteAssumption
  <2>2. \E f : Upto(PathLen - 1, f)
    BY <1>1, <2>1
  <2> QED BY <2>2 DEF IsWalk, Index
<1>2. SUFFICES ASSUME T # {} PROVE FALSE
  OBVIOUS
<1>3. PICK n \in T : \A k \in T : n <= k
  <2> HIDE DEF T
  <2>1. T \in SUBSET Nat BY DEF T
  <2> QED BY <1>2, <2>1, LeastNat
<1>4. n \in Nat /\ n # 0
  <2> DEFINE f == [i \in 0..0 |-> Hop(cable, path, i, root_port)]
  <2>1. Upto(0, f)
    OBVIOUS
  <2> QED BY <2>1
<1>5. PICK f : Upto(n - 1, f)
  BY <1>3, <1>4
<1>6. DEFINE g == [i \in 0..n |-> Hop(cable, path, i, IF i = 0 THEN root_port ELSE f[i - 1])]
<1>7. \A i \in 0..(n - 1) : f[i] = Hop(cable, path, i, IF i = 0 THEN root_port ELSE f[i - 1])
  BY <1>5, <1>4
<1>8. \A i \in 0..(n - 1) : g[i] = f[i]
  BY <1>7, <1>4
<1>9. \A i \in 0..n : i # 0 => g[i - 1] = f[i - 1]
  BY <1>8, <1>4
<1>10. Upto(n, g)
  BY <1>9
<1> QED BY <1>10
  
(* The port a route arrives at is the last of a walk.                      *)
LEMMA ArrivalWalk ==
    \A cable, path : \E at : IsWalk(at, cable, path) /\ Arrival(cable, path) = at[PathLen - 1]
<1> SUFFICES ASSUME NEW cable, NEW path
             PROVE \E at : IsWalk(at, cable, path) /\ Arrival(cable, path) = at[PathLen - 1]
  OBVIOUS
<1> DEFINE w == CHOOSE at : IsWalk(at, cable, path)
<1>1. IsWalk(w, cable, path)
  BY WalkExists
<1>2. Arrival(cable, path) = w[PathLen - 1]
  BY DEF Arrival, IsWalk
<1> QED BY <1>1, <1>2

(* Induction over the numbers from m to n, for a set.                      *)
LEMMA IntervalInduction ==
    ASSUME NEW m \in Nat, NEW n \in Nat, NEW S, m \in S,
           \A i \in m..(n - 1) : i \in S => i + 1 \in S
    PROVE  m..n \subseteq S
<1> DEFINE T == (m..n) \ S
<1>1. SUFFICES ASSUME T # {} PROVE FALSE
  OBVIOUS
<1>2. PICK k \in T : \A i \in T : k <= i
  <2>1. T \in SUBSET Nat
    OBVIOUS
  <2> HIDE DEF T
  <2> QED BY <1>1, <2>1, LeastNat
<1>3. k # m /\ k - 1 \in m..(n - 1)
  BY <1>2
<1>4. k - 1 \in S
  BY <1>2, <1>3
<1> QED BY <1>2, <1>3, <1>4

(* A walk goes on by one hop from wherever it is.                          *)
LEMMA WalkStep ==
    ASSUME NEW at, NEW cable, NEW path, IsWalk(at, cable, path)
    PROVE  /\ at[0] = Hop(cable, path, 0, root_port)
           /\ \A i \in Index \ {0} : at[i] = Hop(cable, path, i, at[i - 1])
BY IndexFacts DEF IsWalk

(* The first entry of a route may be used or not.                          *)
LEMMA WalkStart ==
    ASSUME NEW at, NEW cable, NEW path, IsWalk(at, cable, path)
    PROVE  LET unused == root_port = Nowhere \/ path[0] = 0
               egress == <<root_port[1], path[0]>>
           IN  \/ unused /\ at[0] = root_port
               \/ ~unused /\ egress \in DOMAIN cable /\ at[0] = cable[egress]
               \/ ~unused /\ egress \notin DOMAIN cable /\ at[0] = Nowhere
<1>1. at[0] = Hop(cable, path, 0, root_port)
  BY WalkStep
<1>2. ~\E j \in 1..0 : path[j] = 0
  OBVIOUS
<1> QED BY <1>1, <1>2 DEF Hop

(* Routes as discoveries make them: after an entry of 0 nothing follows.   *)
IsRoute(path) ==
    /\ path \in [Index -> 0..255]
    /\ \A i, j \in 1..(PathLen - 1) : i <= j /\ path[i] = 0 => path[j] = 0

(* The hop count of such a route separates its used entries from the       *)
(* unused.                                                                 *)
LEMMA HopCount ==
    ASSUME NEW path, IsRoute(path)
    PROVE  /\ GetHopCount(path) \in 0..(PathLen - 1)
           /\ \A i \in 1..(PathLen - 1) : path[i] # 0 <=> i <= GetHopCount(path)
<1> DEFINE used == {i \in 1..(PathLen - 1) : \A j \in 1..i : path[j] # 0}
           zero == {i \in 1..(PathLen - 1) : path[i] = 0}
<1>1. PathLen \in Nat /\ PathLen >= 2
  BY RouteAssumption
<1>2. \E h \in 0..(PathLen - 1) : used = 1..h /\ \A i \in 1..(PathLen - 1) : path[i] # 0 <=> i <= h
  <2>1. CASE zero = {}
    <3>1. used = 1..(PathLen - 1)
      BY <2>1, <1>1
    <3> QED BY <3>1, <2>1, <1>1
  <2>2. CASE zero # {}
    <3>1. PICK m \in zero : \A k \in zero : m <= k
      <4>1. zero \in SUBSET Nat
        BY <1>1
      <4> HIDE DEF zero
      <4> QED BY <4>1, <2>2, LeastNat
    <3>2. m \in 1..(PathLen - 1) /\ path[m] = 0 /\ \A j \in 1..(m - 1) : path[j] # 0
      BY <3>1, <1>1
    <3>3. \A i \in m..(PathLen - 1) : path[i] = 0
      BY <3>2, <1>1 DEF IsRoute
    <3>4. used = 1..(m - 1)
      BY <3>2, <1>1
    <3>5. \A i \in 1..(PathLen - 1) : path[i] # 0 <=> i <= m - 1
      BY <3>2, <3>3, <1>1
    <3>6. m - 1 \in 0..(PathLen - 1)
      BY <3>2, <1>1
    <3> QED BY <3>4, <3>5, <3>6
  <2> QED BY <2>1, <2>2
<1>3. PICK h \in 0..(PathLen - 1) : used = 1..h /\ \A i \in 1..(PathLen - 1) : path[i] # 0 <=> i <= h
  BY <1>2
<1>4. GetHopCount(path) = Cardinality(1..h)
  BY <1>3 DEF GetHopCount
<1>5. Cardinality(1..h) = h
  BY <1>3, <1>1, FS_Interval
<1> QED BY <1>3, <1>4, <1>5

(* The empty route leads to the root.                                      *)
LEMMA StartRoute ==
    /\ IsRoute(StartPath)
    /\ \A cable : Arrival(cable, StartPath) = root_port
<1>1. \A i \in Index : StartPath[i] = 0
  BY DEF StartPath
<1>2. IsRoute(StartPath)
  BY <1>1, RouteAssumption DEF IsRoute, StartPath, Index
<1>3. ASSUME NEW cable PROVE Arrival(cable, StartPath) = root_port
  <2>1. PICK at : IsWalk(at, cable, StartPath) /\ Arrival(cable, StartPath) = at[PathLen - 1]
    BY ArrivalWalk
  <2> DEFINE S == {i \in Index : at[i] = root_port}
  <2>2. 0 \in S
    BY <2>1, <1>1, WalkStart, IndexFacts
  <2>3. ASSUME NEW i \in 0..(PathLen - 1 - 1), i \in S PROVE i + 1 \in S
    <3>1. i + 1 \in Index \ {0} /\ 1 \in 1..(i + 1) /\ StartPath[1] = 0
      BY <1>1, RouteAssumption DEF Index
    <3>2. at[i + 1] = Hop(cable, StartPath, i + 1, at[i])
      BY <3>1, <2>1, WalkStep
    <3> QED BY <3>1, <3>2, <2>3 DEF Hop
  <2>4. 0..(PathLen - 1) \subseteq S
    <3> HIDE DEF S
    <3> QED BY <2>2, <2>3, IntervalInduction, IndexFacts, RouteAssumption
  <2> QED BY <2>1, <2>4, IndexFacts DEF Index
<1> QED BY <1>2, <1>3

(* Where a route ends: at the root, at the end of a cable, or nowhere.     *)
LEMMA ArrivalType ==
    ASSUME NEW cable, NEW path
    PROVE  Arrival(cable, path) \in {cable[p] : p \in DOMAIN cable} \cup {root_port, Nowhere}
<1>1. PICK at : IsWalk(at, cable, path) /\ Arrival(cable, path) = at[PathLen - 1]
  BY ArrivalWalk
<1> DEFINE S == {i \in Index : at[i] \in {cable[p] : p \in DOMAIN cable} \cup {root_port, Nowhere}}
<1>2. 0 \in S
  BY <1>1, WalkStart, IndexFacts
<1>3. ASSUME NEW i \in 0..(PathLen - 1 - 1), i \in S PROVE i + 1 \in S
  <2>1. i + 1 \in Index \ {0}
    BY RouteAssumption DEF Index
  <2>2. at[i + 1] = Hop(cable, path, i + 1, at[i])
    BY <2>1, <1>1, WalkStep
  <2> QED BY <2>1, <2>2, <1>3 DEF Hop
<1>4. 0..(PathLen - 1) \subseteq S
  <2> HIDE DEF S
  <2> QED BY <1>2, <1>3, IntervalInduction, IndexFacts, RouteAssumption
<1> QED BY <1>1, <1>4, IndexFacts DEF Index

(* With fewer cables a route leads to the same port or nowhere.            *)
LEMMA FewerCables ==
    ASSUME NEW cable, NEW more, NEW path,
           \A p \in DOMAIN cable : p \in DOMAIN more /\ more[p] = cable[p],
           Arrival(cable, path) # Nowhere
    PROVE  Arrival(more, path) = Arrival(cable, path)
<1>1. PICK at : IsWalk(at, cable, path) /\ Arrival(cable, path) = at[PathLen - 1]
  BY ArrivalWalk
<1>2. PICK to : IsWalk(to, more, path) /\ Arrival(more, path) = to[PathLen - 1]
  BY ArrivalWalk
<1> DEFINE S == {i \in Index : at[i] = Nowhere \/ to[i] = at[i]}
<1>3. 0 \in S
  BY <1>1, <1>2, WalkStart, IndexFacts
<1>4. ASSUME NEW i \in 0..(PathLen - 1 - 1), i \in S PROVE i + 1 \in S
  <2>1. i + 1 \in Index \ {0}
    BY RouteAssumption DEF Index
  <2>2. at[i + 1] = Hop(cable, path, i + 1, at[i]) /\ to[i + 1] = Hop(more, path, i + 1, to[i])
    BY <2>1, <1>1, <1>2, WalkStep
  <2> QED BY <2>1, <2>2, <1>4 DEF Hop
<1>5. 0..(PathLen - 1) \subseteq S
  <2> HIDE DEF S
  <2> QED BY <1>3, <1>4, IntervalInduction, IndexFacts, RouteAssumption
<1> QED BY <1>1, <1>2, <1>5, IndexFacts DEF Index

(* One hop more leads across the port it names.                            *)
Across(cable, port, number) ==
    IF port # Nowhere /\ <<port[1], number>> \in DOMAIN cable
    THEN cable[<<port[1], number>>] ELSE Nowhere

(* Writing a port number behind the last used entry makes a route that     *)
(* goes on across that port.                                               *)
LEMMA OneHopMore ==
    ASSUME NEW path, IsRoute(path), GetHopCount(path) + 1 < PathLen, NEW number \in 1..255
    PROVE  LET longer == [path EXCEPT ![GetHopCount(path) + 1] = number]
           IN  /\ IsRoute(longer)
               /\ \A cable : Arrival(cable, longer) = Across(cable, Arrival(cable, path), number)
<1> DEFINE h == GetHopCount(path)
           longer == [path EXCEPT ![h + 1] = number]
<1>1. h \in 0..(PathLen - 1) /\ \A i \in 1..(PathLen - 1) : path[i] # 0 <=> i <= h
  BY HopCount
<1>2. PathLen \in Nat /\ PathLen >= 2 /\ h + 1 < PathLen
  BY RouteAssumption
<1> HIDE DEF h
<1>3. path \in [Index -> 0..255] /\ h + 1 \in Index
  BY <1>1, <1>2 DEF IsRoute, Index
<1>4. /\ longer \in [Index -> 0..255]
      /\ longer[h + 1] = number
      /\ \A i \in Index \ {h + 1} : longer[i] = path[i]
  BY <1>3
<1>5. \A i \in 1..(PathLen - 1) : longer[i] # 0 <=> i <= h + 1
  BY <1>1, <1>2, <1>4 DEF Index
<1> HIDE DEF longer
<1>6. IsRoute(longer)
  BY <1>1, <1>2, <1>4, <1>5 DEF IsRoute
<1>7. ASSUME NEW cable
      PROVE  Arrival(cable, longer) = Across(cable, Arrival(cable, path), number)
  <2>1. PICK at : IsWalk(at, cable, path) /\ Arrival(cable, path) = at[PathLen - 1]
    BY ArrivalWalk
  <2>2. PICK to : IsWalk(to, cable, longer) /\ Arrival(cable, longer) = to[PathLen - 1]
    BY ArrivalWalk
  <2>3. 0..h \subseteq {i \in Index : to[i] = at[i]}
    <3> DEFINE S == {i \in Index : to[i] = at[i]}
    <3>1. longer[0] = path[0]
      BY <1>4, <1>1, <1>2 DEF Index
    <3>2. 0 \in S
      BY <2>1, <2>2, <3>1, WalkStart, IndexFacts, ZenonT(30)
    <3>3. ASSUME NEW i \in 0..(h - 1), i \in S PROVE i + 1 \in S
      <4>1. i + 1 \in Index \ {0} /\ i + 1 # h + 1
        BY <1>1, <1>2 DEF Index
      <4>2. to[i + 1] = Hop(cable, longer, i + 1, to[i]) /\ at[i + 1] = Hop(cable, path, i + 1, at[i])
        BY <4>1, <2>1, <2>2, WalkStep
      <4>3. \A j \in 1..(i + 1) : longer[j] = path[j]
        BY <1>4, <1>1, <1>2 DEF Index
      <4> QED BY <4>1, <4>2, <4>3, <3>3, <1>1, <1>2 DEF Hop
    <3> HIDE DEF S
    <3>4. h \in Nat /\ 0 \in Nat
      BY <1>1, <1>2
    <3>5. 0..h \subseteq S
      BY <3>2, <3>3, <3>4, IntervalInduction
    <3> QED BY <3>5 DEF S
  <2>4. at[PathLen - 1] = at[h]
    <3> DEFINE S == {i \in Index : at[i] = at[h]}
    <3>1. h \in S
      BY <1>1, <1>2 DEF Index
    <3>2. ASSUME NEW i \in h..(PathLen - 1 - 1), i \in S PROVE i + 1 \in S
      <4>1. i + 1 \in Index \ {0} /\ h + 1 \in 1..(i + 1) /\ path[h + 1] = 0
        BY <1>1, <1>2 DEF Index
      <4>2. at[i + 1] = Hop(cable, path, i + 1, at[i])
        BY <4>1, <2>1, WalkStep
      <4> QED BY <4>1, <4>2, <3>2 DEF Hop
    <3> HIDE DEF S
    <3>3. h \in Nat /\ PathLen - 1 \in Nat
      BY <1>1, <1>2
    <3>4. h..(PathLen - 1) \subseteq S
      BY <3>1, <3>2, <3>3, IntervalInduction
    <3> QED BY <3>4, <1>1, <1>2 DEF S
  <2>5. to[PathLen - 1] = to[h + 1]
    <3> DEFINE S == {i \in Index : to[i] = to[h + 1]}
    <3>1. h + 1 \in S
      BY <1>3
    <3>2. ASSUME NEW i \in (h + 1)..(PathLen - 1 - 1), i \in S PROVE i + 1 \in S
      <4>1. i + 1 \in Index \ {0} /\ h + 2 \in 1..(i + 1) /\ longer[h + 2] = 0
        BY <1>1, <1>2, <1>5 DEF Index
      <4>2. to[i + 1] = Hop(cable, longer, i + 1, to[i])
        BY <4>1, <2>2, WalkStep
      <4> QED BY <4>1, <4>2, <3>2 DEF Hop
    <3> HIDE DEF S
    <3>3. h + 1 \in Nat /\ PathLen - 1 \in Nat
      BY <1>1, <1>2
    <3>4. (h + 1)..(PathLen - 1) \subseteq S
      BY <3>1, <3>2, <3>3, IntervalInduction
    <3> QED BY <3>4, <1>1, <1>2 DEF S
  <2>6. to[h + 1] = Hop(cable, longer, h + 1, at[h])
    BY <2>2, <2>3, <1>1, <1>2, WalkStep DEF Index
  <2>7. \A j \in 1..(h + 1) : longer[j] # 0
    BY <1>5, <1>1, <1>2
  <2>8. Hop(cable, longer, h + 1, at[h]) = Across(cable, at[h], number)
    BY <2>7, <1>1, <1>2, <1>4 DEF Hop, Across
  <2> QED BY <2>1, <2>2, <2>4, <2>5, <2>6, <2>8
<1> QED BY <1>6, <1>7 DEF longer, h

-----------------------------------------------------------------------------
(* Collections.                                                            *)

(* An enumeration of some indices of a sequence, in their order.           *)
Enumerates(f, indices) ==
    /\ \A k \in DOMAIN f : f[k] \in indices
    /\ \A k, l \in DOMAIN f : k < l => f[k] < f[l]
    /\ \A i \in indices : \E k \in DOMAIN f : f[k] = i

(* What is kept of a sequence: the elements at those indices, in order.    *)
LEMMA KeptInOrder ==
    ASSUME NEW S, NEW seq \in Seq(S), NEW indices \in SUBSET DOMAIN seq
    PROVE  /\ Kept(seq, indices) \in Seq(S)
           /\ \E f \in [DOMAIN Kept(seq, indices) -> DOMAIN seq] :
                 /\ Enumerates(f, indices)
                 /\ \A k \in DOMAIN Kept(seq, indices) : Kept(seq, indices)[k] = seq[f[k]]
<1> DEFINE n == Len(seq)
           Upto(m, u) ==
               u = [i \in 0..m |->
                      IF i = 0 THEN <<>>
                      ELSE IF i \in indices THEN Append(u[i - 1], seq[i]) ELSE u[i - 1]]
<1>0. n \in Nat /\ DOMAIN seq = 1..n /\ \A i \in 1..n : seq[i] \in S
  BY LenProperties, ElementOfSeq
<1> HIDE DEF n
<1>1. \A m \in 0..n : \E u : Upto(m, u)
  <2> DEFINE T == {m \in Nat : \E u : Upto(m, u)}
  <2>1. 0 \in T
    <3> DEFINE u == [i \in 0..0 |-> <<>>]
    <3>1. Upto(0, u)
      OBVIOUS
    <3> QED BY <3>1
  <2>2. ASSUME NEW m \in 0..(n - 1), m \in T PROVE m + 1 \in T
    <3>1. PICK u : Upto(m, u)
      BY <2>2
    <3> DEFINE v == [i \in 0..(m + 1) |->
                       IF i = 0 THEN <<>>
                       ELSE IF i \in indices THEN Append(u[i - 1], seq[i]) ELSE u[i - 1]]
    <3>2. \A i \in 0..m : v[i] = u[i]
      <4>1. \A i \in 0..m :
              u[i] = IF i = 0 THEN <<>>
                     ELSE IF i \in indices THEN Append(u[i - 1], seq[i]) ELSE u[i - 1]
        BY <3>1
      <4>2. \A i \in 0..m : i \in 0..(m + 1)
        OBVIOUS
      <4> QED BY <4>1, <4>2
    <3>3. \A i \in 0..(m + 1) : i # 0 => i - 1 \in 0..m
      OBVIOUS
    <3>4. Upto(m + 1, v)
      BY <3>2, <3>3
    <3>5. m + 1 \in Nat
      OBVIOUS
    <3> QED BY <3>4, <3>5
  <2> HIDE DEF T
  <2>3. 0..n \subseteq T
    BY <2>1, <2>2, <1>0, IntervalInduction
  <2> QED BY <2>3 DEF T
<1> DEFINE u == CHOOSE u : Upto(n, u)
<1>2. Upto(n, u)
  <2>1. n \in 0..n
    BY <1>0
  <2> HIDE DEF Upto
  <2> QED BY <1>1, <2>1
<1>3. Kept(seq, indices) = u[n]
  BY DEF Kept, n
<1> HIDE DEF u
<1>4. u[0] = <<>> /\ \A i \in 1..n : u[i] = IF i \in indices THEN Append(u[i - 1], seq[i]) ELSE u[i - 1]
  <2>1. \A i \in 0..n : u[i] = IF i = 0 THEN <<>>
                               ELSE IF i \in indices THEN Append(u[i - 1], seq[i]) ELSE u[i - 1]
    BY <1>2
  <2>2. 0 \in 0..n /\ \A i \in 1..n : i \in 0..n /\ i # 0
    BY <1>0
  <2> QED BY <2>1, <2>2
<1> DEFINE Good(m) ==
      /\ u[m] \in Seq(S)
      /\ \E f \in [DOMAIN u[m] -> 1..m] :
            /\ Enumerates(f, indices \cap (1..m))
            /\ \A k \in DOMAIN u[m] : u[m][k] = seq[f[k]]
   T == {m \in Nat : Good(m)}
<1>5. 0 \in T
  <2>1. u[0] \in Seq(S) /\ DOMAIN u[0] = {}
    BY <1>4
  <2> DEFINE f == [k \in {} |-> 0]
  <2>2. f \in [DOMAIN u[0] -> 1..0] /\ Enumerates(f, indices \cap (1..0))
    BY <2>1 DEF Enumerates
  <2> QED BY <2>1, <2>2
<1>6. ASSUME NEW m \in 0..(n - 1), m \in T PROVE m + 1 \in T
  <2>1. PICK f \in [DOMAIN u[m] -> 1..m] :
            /\ Enumerates(f, indices \cap (1..m))
            /\ \A k \in DOMAIN u[m] : u[m][k] = seq[f[k]]
    BY <1>6
  <2>2. m + 1 \in 1..n /\ (m + 1) - 1 = m /\ m + 1 \in Nat /\ m \in Nat
    BY <1>0
  <2>3. u[m] \in Seq(S)
    BY <1>6
  <2> HIDE DEF T
  <2>4. CASE m + 1 \in indices
    <3>1. u[m + 1] = Append(u[m], seq[m + 1])
      BY <1>4, <2>2, <2>4
    <3> DEFINE q == Len(u[m])
    <3>2. q \in Nat /\ DOMAIN u[m] = 1..q
      BY <2>3, LenProperties
    <3>3. /\ u[m + 1] \in Seq(S) /\ DOMAIN u[m + 1] = 1..(q + 1)
          /\ \A k \in 1..q : u[m + 1][k] = u[m][k]
          /\ u[m + 1][q + 1] = seq[m + 1]
      <4>1. seq[m + 1] \in S
        BY <2>2, <1>0
      <4>2. /\ Append(u[m], seq[m + 1]) \in Seq(S)
            /\ Len(Append(u[m], seq[m + 1])) = q + 1
            /\ \A k \in 1..q : Append(u[m], seq[m + 1])[k] = u[m][k]
            /\ Append(u[m], seq[m + 1])[q + 1] = seq[m + 1]
        BY <4>1, <2>3, <3>2, AppendProperties
      <4> QED BY <4>2, <3>1, LenProperties
    <3> HIDE DEF q
    <3> DEFINE g == [k \in 1..(q + 1) |-> IF k = q + 1 THEN m + 1 ELSE f[k]]
    <3>a. g[q + 1] = m + 1 /\ \A k \in 1..q : g[k] = f[k] /\ f[k] \in 1..m
      BY <2>1, <3>2
    <3>b. DOMAIN g = 1..(q + 1) /\ \A k \in 1..(q + 1) : k = q + 1 \/ k \in 1..q
      BY <3>2
    <3>4. g \in [DOMAIN u[m + 1] -> 1..(m + 1)]
      BY <2>1, <2>2, <3>2, <3>3
    <3> HIDE DEF g
    <3>5. Enumerates(g, indices \cap (1..(m + 1)))
      <4>1. ASSUME NEW k \in 1..(q + 1) PROVE g[k] \in indices \cap (1..(m + 1))
        <5>1. CASE k = q + 1
          BY <5>1, <3>a, <2>2, <2>4
        <5>2. CASE k \in 1..q
          <6>1. f[k] \in indices \cap (1..m)
            BY <5>2, <2>1, <3>2 DEF Enumerates
          <6> QED BY <5>2, <6>1, <3>a, <2>2
        <5> QED BY <5>1, <5>2, <3>b
      <4>2. ASSUME NEW k \in 1..(q + 1), NEW l \in 1..(q + 1), k < l PROVE g[k] < g[l]
        <5>1. k \in 1..q /\ g[k] = f[k] /\ f[k] \in 1..m
          BY <4>2, <3>2, <3>a
        <5>2. CASE l = q + 1
          BY <5>1, <5>2, <2>2, <3>a
        <5>3. CASE l # q + 1
          <6>1. l \in 1..q /\ g[l] = f[l]
            BY <5>3, <3>a, <3>b
          <6> QED BY <6>1, <5>1, <4>2, <2>1, <3>2 DEF Enumerates
        <5> QED BY <5>2, <5>3
      <4>3. ASSUME NEW i \in indices \cap (1..(m + 1)) PROVE \E k \in 1..(q + 1) : g[k] = i
        <5>1. CASE i = m + 1
          BY <5>1, <3>2, <3>a
        <5>2. CASE i # m + 1
          <6>1. i \in indices \cap (1..m)
            BY <5>2, <2>2
          <6>2. PICK k \in 1..q : f[k] = i
            BY <6>1, <2>1, <3>2 DEF Enumerates
          <6> QED BY <6>2, <3>2, <3>a
        <5> QED BY <5>1, <5>2
      <4> QED BY <4>1, <4>2, <4>3, <3>b DEF Enumerates
    <3>6. \A k \in DOMAIN u[m + 1] : u[m + 1][k] = seq[g[k]]
      BY <2>1, <3>2, <3>3, <3>a, <3>b
    <3> QED BY <3>3, <3>4, <3>5, <3>6, <2>2 DEF T
  <2>5. CASE m + 1 \notin indices
    <3>1. u[m + 1] = u[m]
      BY <1>4, <2>2, <2>5
    <3>2. indices \cap (1..(m + 1)) = indices \cap (1..m)
      BY <2>5, <2>2
    <3>3. f \in [DOMAIN u[m + 1] -> 1..(m + 1)]
      BY <3>1, <2>1, <2>2
    <3> QED BY <3>1, <3>2, <3>3, <2>1, <2>2, <2>3, ZenonT(30) DEF T
  <2> QED BY <2>4, <2>5
<1> HIDE DEF T
<1>7. 0..n \subseteq T
  BY <1>5, <1>6, <1>0, IntervalInduction
<1>8. Good(n)
  <2>1. n \in T
    BY <1>7, <1>0
  <2> QED BY <2>1 DEF T
<1>9. indices \cap (1..n) = indices
  BY <1>0
<1> HIDE DEF Upto
<1> QED BY <1>0, <1>3, <1>8, <1>9

(* The elements that are kept.                                             *)
LEMMA KeptElements ==
    ASSUME NEW S, NEW seq \in Seq(S), NEW indices \in SUBSET DOMAIN seq
    PROVE  /\ Kept(seq, indices) \in Seq(S)
           /\ \A k \in DOMAIN Kept(seq, indices) : \E i \in indices : Kept(seq, indices)[k] = seq[i]
           /\ \A i \in indices : \E k \in DOMAIN Kept(seq, indices) : Kept(seq, indices)[k] = seq[i]
BY KeptInOrder DEF Enumerates

(* Putting an entry into a map.                                            *)
LEMMA PutEntry ==
    ASSUME NEW map, NEW key, NEW value
    PROVE  /\ DOMAIN Put(map, key, value) = DOMAIN map \cup {key}
           /\ Put(map, key, value)[key] = value
           /\ \A k \in DOMAIN map \ {key} : Put(map, key, value)[k] = map[k]
BY DEF Put

(* Induction over the subsets of a finite set: a smallest one that is not  *)
(* in the family would have an element to take away.                       *)
LEMMA SubsetInduction ==
    ASSUME NEW S, IsFiniteSet(S), NEW F, {} \in F,
           \A T \in SUBSET S : T # {} => \E x \in T : T \ {x} \in F => T \in F
    PROVE  SUBSET S \subseteq F
<1> DEFINE bad == (SUBSET S) \ F
           sizes == {Cardinality(T) : T \in bad}
<1>1. SUFFICES ASSUME bad # {} PROVE FALSE
  OBVIOUS
<1>2. \A T \in SUBSET S : IsFiniteSet(T) /\ Cardinality(T) \in Nat
  BY FS_Subset, FS_CardinalityType
<1>3. sizes \in SUBSET Nat /\ sizes # {}
  BY <1>1, <1>2
<1>4. PICK m \in sizes : \A k \in sizes : m <= k
  <2> HIDE DEF sizes
  <2> QED BY <1>3, LeastNat
<1>5. PICK T \in bad : m = Cardinality(T)
  BY <1>4
<1>6. \A U \in bad : Cardinality(T) <= Cardinality(U)
  BY <1>4, <1>5
<1>7. T \in SUBSET S /\ T \notin F /\ T # {}
  BY <1>5
<1>8. PICK x \in T : T \ {x} \in F => T \in F
  BY <1>7
<1>9. Cardinality(T \ {x}) = Cardinality(T) - 1
  BY <1>2, <1>7, <1>8, FS_RemoveElement
<1>10. T \ {x} \in SUBSET S
  BY <1>7
<1>11. ~(Cardinality(T) <= Cardinality(T \ {x}))
  BY <1>2, <1>7, <1>9, <1>10
<1>12. T \ {x} \notin bad
  <2> HIDE DEF bad
  <2> QED BY <1>6, <1>11
<1> QED BY <1>7, <1>8, <1>10, <1>12

-----------------------------------------------------------------------------
(* Ball is where a chain of sets ends that takes in the neighbours of the  *)
(* nodes that forward, one hop at a time.                                  *)
Wider(cable, inner) ==
    inner \cup {cable[p][1] : p \in {q \in DOMAIN cable : q[1] \in inner \cap (Switches \cup {Root})}}
IsChain(ball, cable, k) ==
    ball = [i \in 0..k |-> IF i = 0 THEN {Root} ELSE Wider(cable, ball[i - 1])]

(* There is a chain of every length.                                       *)
LEMMA ChainExists == \A cable : \A k \in Nat : \E ball : IsChain(ball, cable, k)
<1> SUFFICES ASSUME NEW cable PROVE \A k \in Nat : \E ball : IsChain(ball, cable, k)
  OBVIOUS
<1> DEFINE T == {n \in Nat : ~\E ball : IsChain(ball, cable, n)}
<1>1. SUFFICES ASSUME T # {} PROVE FALSE
  OBVIOUS
<1>2. PICK n \in T : \A k \in T : n <= k
  <2> HIDE DEF T
  <2>1. T \in SUBSET Nat BY DEF T
  <2> QED BY <1>1, <2>1, LeastNat
<1>3. n \in Nat /\ n # 0
  <2>1. PICK ball : ball = [i \in 0..0 |-> {Root}]
    OBVIOUS
  <2>2. IsChain(ball, cable, 0)
    BY <2>1 DEF IsChain
  <2> QED BY <2>2
<1>4. PICK inner : IsChain(inner, cable, n - 1)
  BY <1>2, <1>3
<1>5. PICK ball : ball = [i \in 0..n |-> IF i = 0 THEN {Root} ELSE Wider(cable, inner[i - 1])]
  OBVIOUS
<1>6. \A i \in 0..(n - 1) : inner[i] = IF i = 0 THEN {Root} ELSE Wider(cable, inner[i - 1])
  BY <1>3, <1>4 DEF IsChain
<1>7. \A i \in 0..(n - 1) : ball[i] = inner[i]
  <2>1. \A i \in 0..n : ball[i] = IF i = 0 THEN {Root} ELSE Wider(cable, inner[i - 1])
    BY <1>5
  <2>2. \A i \in 0..(n - 1) : i \in 0..n
    BY <1>3
  <2> QED BY <1>6, <2>1, <2>2
<1>8. \A i \in 0..n : i # 0 => ball[i - 1] = inner[i - 1]
  BY <1>3, <1>7
<1>9. IsChain(ball, cable, n)
  BY <1>5, <1>8 DEF IsChain
<1> QED BY <1>9

(* Ball is the end of such a chain.                                        *)
LEMMA BallEndsChain ==
    ASSUME NEW cable, NEW k \in Nat
    PROVE  \E ball : IsChain(ball, cable, k) /\ Ball(cable, k) = ball[k]
<1> DEFINE b == CHOOSE ball : IsChain(ball, cable, k)
<1>1. IsChain(b, cable, k)
  BY ChainExists
<1>2. Ball(cable, k) = b[k]
  BY DEF Ball, IsChain, Wider
<1> QED BY <1>1, <1>2

(* As many hops as there are nodes are enough: nothing more is in reach    *)
(* then, for as long as a ball grows it does so by a node at least.        *)
LEMMA ReachIsClosed ==
    ASSUME NEW cable, Root \in Node, \A p \in DOMAIN cable : cable[p][1] \in Node
    PROVE  LET reach == Ball(cable, Cardinality(Node))
           IN  /\ reach \subseteq Node /\ Root \in reach
               /\ \A p \in DOMAIN cable :
                     p[1] \in reach \cap (Switches \cup {Root}) => cable[p][1] \in reach
<1>1. IsFiniteSet(Node)
  BY RouteAssumption
<1>2. PICK k : k = Cardinality(Node)
  OBVIOUS
<1>3. k \in Nat
  BY <1>1, <1>2, FS_CardinalityType
<1>4. PICK ball : IsChain(ball, cable, k) /\ Ball(cable, k) = ball[k]
  BY <1>3, BallEndsChain
<1>5. ball[0] = {Root} /\ \A i \in 1..k : ball[i] = Wider(cable, ball[i - 1])
  <2>1. \A i \in 0..k : ball[i] = IF i = 0 THEN {Root} ELSE Wider(cable, ball[i - 1])
    BY <1>4 DEF IsChain
  <2>2. 0 \in 0..k /\ \A i \in 1..k : i \in 0..k /\ i # 0
    BY <1>3
  <2> QED BY <2>1, <2>2
<1>6. \A i \in 0..(k - 1) : ball[i + 1] = Wider(cable, ball[i])
  <2> TAKE i \in 0..(k - 1)
  <2>1. i + 1 \in 1..k /\ (i + 1) - 1 = i
    BY <1>3
  <2> QED BY <2>1, <1>5
<1>7. \A i \in 0..(k - 1) : ball[i] \subseteq ball[i + 1]
  BY <1>6 DEF Wider
<1>8. \A i \in 0..k : ball[i] \subseteq Node /\ Root \in ball[i]
  <2> DEFINE S == {i \in 0..k : ball[i] \subseteq Node /\ Root \in ball[i]}
  <2>1. 0 \in S
    BY <1>3, <1>5
  <2>2. ASSUME NEW i \in 0..(k - 1), i \in S PROVE i + 1 \in S
    <3>1. ball[i + 1] = Wider(cable, ball[i]) /\ ball[i] \subseteq Node /\ Root \in ball[i]
      BY <1>6, <2>2
    <3>2. ball[i + 1] \subseteq Node /\ Root \in ball[i + 1]
      BY <3>1 DEF Wider
    <3>3. i + 1 \in 0..k
      BY <1>3
    <3> QED BY <3>2, <3>3
  <2> HIDE DEF S
  <2>3. 0..k \subseteq S
    BY <1>3, <2>1, <2>2, IntervalInduction
  <2> QED BY <2>3 DEF S
<1>9. \A i \in 0..k : IsFiniteSet(ball[i]) /\ Cardinality(ball[i]) \in Nat
                      /\ Cardinality(ball[i]) <= k
  BY <1>1, <1>2, <1>8, FS_Subset, FS_CardinalityType
<1>10. PICK i \in 0..(k - 1) : ball[i + 1] = ball[i]
  <2>1. SUFFICES ASSUME \A i \in 0..(k - 1) : ball[i + 1] # ball[i] PROVE FALSE
    OBVIOUS
  <2> DEFINE S == {i \in 0..k : i + 1 <= Cardinality(ball[i])}
  <2>2. 0 \in S
    <3>1. Cardinality({Root}) = 1
      BY FS_Singleton
    <3> QED BY <3>1, <1>3, <1>5
  <2>3. ASSUME NEW i \in 0..(k - 1), i \in S PROVE i + 1 \in S
    <3>1. i \in 0..k /\ i + 1 \in 0..k /\ i \in Int
      BY <1>3
    <3>2. PICK n \in ball[i + 1] : n \notin ball[i]
      BY <1>7, <2>1
    <3>3. ball[i] \cup {n} \subseteq ball[i + 1]
      BY <1>7, <3>2
    <3>4. Cardinality(ball[i] \cup {n}) = Cardinality(ball[i]) + 1
      BY <1>9, <3>1, <3>2, FS_AddElement
    <3>5. Cardinality(ball[i] \cup {n}) <= Cardinality(ball[i + 1])
      BY <1>9, <3>1, <3>3, FS_Subset
    <3>6. Cardinality(ball[i]) \in Int /\ Cardinality(ball[i + 1]) \in Int
      BY <1>9, <3>1
    <3>7. i + 1 <= Cardinality(ball[i])
      BY <2>3
    <3>8. (i + 1) + 1 <= Cardinality(ball[i + 1])
      BY <3>1, <3>4, <3>5, <3>6, <3>7
    <3> QED BY <3>1, <3>8
  <2> HIDE DEF S
  <2>4. k \in S
    <3>1. 0..k \subseteq S
      BY <1>3, <2>2, <2>3, IntervalInduction
    <3> QED BY <3>1, <1>3
  <2>5. k + 1 <= Cardinality(ball[k])
    BY <2>4 DEF S
  <2>6. Cardinality(ball[k]) <= k /\ Cardinality(ball[k]) \in Nat
    BY <1>3, <1>9
  <2> QED BY <1>3, <2>5, <2>6
<1>11. ball[k] = ball[i]
  <2> DEFINE S == {j \in 0..k : ball[j] = ball[i]}
  <2>1. i \in Nat /\ i \in S
    BY <1>3
  <2>2. ASSUME NEW j \in i..(k - 1), j \in S PROVE j + 1 \in S
    <3>1. ball[j] = ball[i] /\ j \in 0..(k - 1) /\ j + 1 \in 0..k
      BY <1>3, <2>1, <2>2
    <3>2. ball[j + 1] = Wider(cable, ball[j]) /\ ball[i + 1] = Wider(cable, ball[i])
      BY <1>6, <3>1
    <3> QED BY <3>1, <3>2, <1>10
  <2> HIDE DEF S
  <2>3. i..k \subseteq S
    BY <1>3, <2>1, <2>2, IntervalInduction
  <2>4. k \in i..k
    BY <1>3
  <2> QED BY <2>3, <2>4 DEF S
<1>12. Wider(cable, ball[k]) = ball[k]
  BY <1>6, <1>10, <1>11
<1>13. \A p \in DOMAIN cable :
          p[1] \in ball[k] \cap (Switches \cup {Root}) => cable[p][1] \in ball[k]
  BY <1>12 DEF Wider
<1>14. k \in 0..k
  BY <1>3
<1> QED BY <1>2, <1>4, <1>8, <1>13, <1>14

-----------------------------------------------------------------------------
(* How far a route goes, and what is within reach of so many hops.         *)

(* A ball grows by the neighbours of its nodes that forward.               *)
LEMMA BallSteps ==
    ASSUME NEW cable
    PROVE  /\ Ball(cable, 0) = {Root}
           /\ \A k \in Nat : Ball(cable, k + 1) = Wider(cable, Ball(cable, k))
<1>1. Ball(cable, 0) = {Root}
  <2>1. PICK ball : IsChain(ball, cable, 0) /\ Ball(cable, 0) = ball[0]
    BY BallEndsChain
  <2> QED BY <2>1 DEF IsChain
<1>2. ASSUME NEW k \in Nat PROVE Ball(cable, k + 1) = Wider(cable, Ball(cable, k))
  <2>1. PICK m \in Nat : m = k + 1
    OBVIOUS
  <2>2. PICK ball : IsChain(ball, cable, k) /\ Ball(cable, k) = ball[k]
    BY BallEndsChain
  <2>3. PICK more : IsChain(more, cable, m) /\ Ball(cable, m) = more[m]
    BY BallEndsChain
  <2>4. \A i \in 0..k : ball[i] = IF i = 0 THEN {Root} ELSE Wider(cable, ball[i - 1])
    BY <2>2 DEF IsChain
  <2>5. \A i \in 0..m : more[i] = IF i = 0 THEN {Root} ELSE Wider(cable, more[i - 1])
    BY <2>3 DEF IsChain
  <2> DEFINE S == {i \in 0..k : more[i] = ball[i]}
  <2>6. 0 \in S
    BY <2>1, <2>4, <2>5
  <2>7. ASSUME NEW i \in 0..(k - 1), i \in S PROVE i + 1 \in S
    <3>1. i + 1 \in 0..k /\ i + 1 \in 0..m /\ i + 1 # 0 /\ (i + 1) - 1 = i
      BY <2>1
    <3>2. more[i + 1] = Wider(cable, more[i]) /\ ball[i + 1] = Wider(cable, ball[i])
      BY <3>1, <2>4, <2>5
    <3> QED BY <3>1, <3>2, <2>7
  <2> HIDE DEF S
  <2>8. 0..k \subseteq S
    BY <2>6, <2>7, IntervalInduction
  <2>9. more[k] = ball[k]
    BY <2>8 DEF S
  <2>10. more[m] = Wider(cable, more[k])
    <3>1. m \in 0..m /\ m # 0 /\ m - 1 = k
      BY <2>1
    <3> QED BY <3>1, <2>5
  <2> QED BY <2>1, <2>2, <2>3, <2>9, <2>10
<1> QED BY <1>1, <1>2

(* What is in reach of fewer hops is in reach of more.                     *)
LEMMA BallsGrow ==
    ASSUME NEW cable, NEW k \in Nat, NEW m \in Nat, k <= m
    PROVE  Ball(cable, k) \subseteq Ball(cable, m)
<1> DEFINE S == {i \in Nat : Ball(cable, k) \subseteq Ball(cable, i)}
<1>1. k \in S
  OBVIOUS
<1>2. ASSUME NEW i \in k..(m - 1), i \in S PROVE i + 1 \in S
  <2>1. i \in Nat /\ i + 1 \in Nat
    OBVIOUS
  <2>2. Ball(cable, i + 1) = Wider(cable, Ball(cable, i))
    BY <2>1, BallSteps
  <2>3. Ball(cable, i) \subseteq Ball(cable, i + 1)
    BY <2>2 DEF Wider
  <2> QED BY <2>1, <2>3, <1>2
<1> HIDE DEF S
<1>3. k..m \subseteq S
  BY <1>1, <1>2, IntervalInduction
<1>4. m \in S
  BY <1>3
<1> QED BY <1>4 DEF S

(* A hop from a node that forwards.                                        *)
LEMMA BallNext ==
    ASSUME NEW cable, NEW k \in Nat, NEW m \in Nat, k < m,
           NEW p \in DOMAIN cable, p[1] \in Ball(cable, k), p[1] \in Switches \cup {Root}
    PROVE  cable[p][1] \in Ball(cable, m)
<1>1. cable[p][1] \in Ball(cable, k + 1)
  <2>1. Ball(cable, k + 1) = Wider(cable, Ball(cable, k))
    BY BallSteps
  <2> QED BY <2>1 DEF Wider
<1>2. Ball(cable, k + 1) \subseteq Ball(cable, m)
  BY BallsGrow
<1> QED BY <1>1, <1>2

(* How many hops a route makes, the one by entry 0 included, and how many  *)
(* it can make.                                                            *)
Depth(path) == GetHopCount(path) + (IF path[0] # 0 THEN 1 ELSE 0)
Farthest == IF RootIsSwitch THEN PathLen ELSE PathLen - 1

(* Routes as a traversal makes them: their first hop is where it belongs.  *)
IsRegular(path) == IsRoute(path) /\ (path = StartPath \/ (path[0] # 0 <=> RootIsSwitch))

(* A route has room for a hop as long as it has not made all it can make.  *)
LEMMA DepthFacts ==
    ASSUME NEW path, IsRegular(path)
    PROVE  /\ Depth(path) \in Nat /\ Depth(path) <= Farthest
           /\ GetHopCount(path) + 1 < PathLen <=> Depth(path) < Farthest
<1>1. GetHopCount(path) \in 0..(PathLen - 1)
  BY HopCount DEF IsRegular
<1>2. path = StartPath => GetHopCount(path) = 0 /\ path[0] = 0
  <2> SUFFICES ASSUME path = StartPath PROVE GetHopCount(path) = 0 /\ path[0] = 0
    OBVIOUS
  <2>1. path[0] = 0 /\ path[1] = 0
    BY IndexFacts DEF StartPath
  <2>2. 1 \in 1..(PathLen - 1)
    BY RouteAssumption
  <2>3. ~(1 <= GetHopCount(path))
    BY <2>1, <2>2, HopCount DEF IsRegular
  <2> QED BY <1>1, <2>1, <2>3
<1>3. PathLen \in Nat /\ PathLen >= 2
  BY RouteAssumption
<1>4. CASE path = StartPath
  BY <1>2, <1>3, <1>4 DEF Depth, Farthest
<1>5. CASE path # StartPath
  BY <1>1, <1>3, <1>5 DEF Depth, Farthest, IsRegular
<1> QED BY <1>4, <1>5

(* The empty route.                                                        *)
LEMMA StartDepth == IsRegular(StartPath) /\ Depth(StartPath) = 0
<1>1. IsRegular(StartPath)
  BY StartRoute DEF IsRegular
<1>2. StartPath[0] = 0 /\ StartPath[1] = 0
  BY IndexFacts DEF StartPath
<1>3. 1 \in 1..(PathLen - 1)
  BY RouteAssumption
<1>4. GetHopCount(StartPath) \in 0..(PathLen - 1) /\ ~(1 <= GetHopCount(StartPath))
  BY <1>2, <1>3, StartRoute, HopCount
<1>5. GetHopCount(StartPath) = 0
  BY <1>4
<1> QED BY <1>1, <1>2, <1>5 DEF Depth

(* Another hop: the route is as regular, and by one hop deeper.            *)
LEMMA DepthAcross ==
    ASSUME NEW path, IsRegular(path), GetHopCount(path) + 1 < PathLen,
           path = StartPath => ~RootIsSwitch, NEW number \in 1..255
    PROVE  LET longer == [path EXCEPT ![GetHopCount(path) + 1] = number]
           IN  /\ IsRegular(longer) /\ Depth(longer) = Depth(path) + 1
               /\ \A cable : Arrival(cable, longer) = Across(cable, Arrival(cable, path), number)
<1> DEFINE h == GetHopCount(path)
           longer == [path EXCEPT ![h + 1] = number]
<1>1. IsRoute(path) /\ path \in [Index -> 0..255]
  BY DEF IsRegular, IsRoute
<1>2. h \in 0..(PathLen - 1) /\ \A i \in 1..(PathLen - 1) : path[i] # 0 <=> i <= h
  BY <1>1, HopCount
<1>3. PathLen \in Nat /\ PathLen >= 2 /\ h + 1 < PathLen
  BY RouteAssumption
<1>4. /\ IsRoute(longer)
      /\ \A cable : Arrival(cable, longer) = Across(cable, Arrival(cable, path), number)
  BY <1>1, OneHopMore
<1> HIDE DEF h
<1>5. 0 \in Index /\ h + 1 \in Index /\ h + 1 # 0
  BY <1>2, <1>3 DEF Index
<1>6. longer[0] = path[0] /\ longer[h + 1] = number
  BY <1>1, <1>5
<1>7. \A i \in 1..(PathLen - 1) : i # h + 1 => longer[i] = path[i]
  BY <1>1, <1>2, <1>3 DEF Index
<1> HIDE DEF longer
<1>8. PICK m \in 0..(PathLen - 1) :
          m = GetHopCount(longer) /\ \A i \in 1..(PathLen - 1) : longer[i] # 0 <=> i <= m
  BY <1>4, HopCount
<1>9. m = h + 1
  <2>1. h + 1 \in 1..(PathLen - 1) /\ number # 0
    BY <1>2, <1>3
  <2>2. h + 1 <= m
    BY <1>6, <1>8, <2>1
  <2>3. ASSUME h + 2 <= m PROVE FALSE
    <3>1. h + 2 \in 1..(PathLen - 1) /\ h + 2 # h + 1 /\ ~(h + 2 <= h)
      BY <1>2, <1>3, <1>8, <2>3
    <3>2. longer[h + 2] = path[h + 2] /\ path[h + 2] = 0
      BY <3>1, <1>2, <1>7
    <3> QED BY <3>1, <3>2, <1>8, <2>3
  <2> QED BY <2>2, <2>3, <1>2, <1>8
<1>10. Depth(longer) = Depth(path) + 1
  BY <1>2, <1>6, <1>8, <1>9 DEF Depth, h
<1>11. path[0] # 0 <=> RootIsSwitch
  <2>1. StartPath[0] = 0
    BY IndexFacts DEF StartPath
  <2> QED BY <2>1 DEF IsRegular
<1>12. IsRegular(longer)
  BY <1>4, <1>6, <1>11 DEF IsRegular
<1> QED BY <1>4, <1>10, <1>12 DEF longer, h

(* The first hop, by entry 0 from a switch and by entry 1 from an adapter. *)
LEMMA DepthFirst ==
    ASSUME NEW number \in 1..255, root_port # Nowhere
    PROVE  LET path == [StartPath EXCEPT ![IF RootIsSwitch THEN 0 ELSE 1] = number]
           IN  /\ IsRegular(path) /\ Depth(path) = 1
               /\ \A cable : Arrival(cable, path) = Across(cable, root_port, number)
<1> DEFINE path == [StartPath EXCEPT ![IF RootIsSwitch THEN 0 ELSE 1] = number]
<1>0. PathLen \in Nat /\ PathLen >= 2
  BY RouteAssumption
<1>1. GetHopCount(StartPath) = 0
  <2>1. Depth(StartPath) = 0 /\ StartPath[0] = 0
    BY StartDepth, IndexFacts DEF StartPath
  <2>2. GetHopCount(StartPath) \in 0..(PathLen - 1)
    BY StartRoute, HopCount
  <2> QED BY <2>1, <2>2, <1>0 DEF Depth
<1>2. CASE ~RootIsSwitch
  <2>1. path = [StartPath EXCEPT ![GetHopCount(StartPath) + 1] = number]
    BY <1>1, <1>2
  <2>2. GetHopCount(StartPath) + 1 < PathLen
    BY <1>0, <1>1
  <2> HIDE DEF path
  <2>3. IsRegular(path) /\ Depth(path) = 1
    <3>1. IsRegular(path) /\ Depth(path) = Depth(StartPath) + 1
      BY <2>1, <2>2, <1>2, StartDepth, DepthAcross
    <3> QED BY <3>1, StartDepth
  <2>4. \A cable : Arrival(cable, path) = Across(cable, root_port, number)
    <3>1. \A cable : Arrival(cable, path) = Across(cable, Arrival(cable, StartPath), number)
      BY <2>1, <2>2, <1>2, StartDepth, DepthAcross
    <3> QED BY <3>1, StartRoute
  <2> QED BY <2>3, <2>4 DEF path
<1>3. CASE RootIsSwitch
  <2>1. StartPath \in [Index -> 0..255] /\ 0 \in Index
    BY StartRoute, IndexFacts DEF IsRoute
  <2>2. path \in [Index -> 0..255] /\ path[0] = number /\ \A i \in Index \ {0} : path[i] = 0
    BY <2>1, <1>3 DEF StartPath
  <2> HIDE DEF path
  <2>3. \A i \in 1..(PathLen - 1) : i \in Index \ {0}
    BY <1>0 DEF Index
  <2>4. IsRoute(path)
    BY <2>2, <2>3 DEF IsRoute
  <2>5. IsRegular(path)
    BY <2>2, <2>4, <1>3 DEF IsRegular
  <2>6. GetHopCount(path) = 0
    <3>1. 1 \in 1..(PathLen - 1) /\ path[1] = 0
      BY <1>0, <2>2, <2>3
    <3>2. GetHopCount(path) \in 0..(PathLen - 1) /\ ~(1 <= GetHopCount(path))
      BY <3>1, <2>4, HopCount
    <3> QED BY <3>2
  <2>7. Depth(path) = 1
    BY <2>2, <2>6 DEF Depth
  <2>8. ASSUME NEW cable PROVE Arrival(cable, path) = Across(cable, root_port, number)
    <3>1. PICK at : IsWalk(at, cable, path) /\ Arrival(cable, path) = at[PathLen - 1]
      BY ArrivalWalk
    <3>2. at[0] = Across(cable, root_port, number)
      <4>1. \/ <<root_port[1], path[0]>> \in DOMAIN cable /\ at[0] = cable[<<root_port[1], path[0]>>]
            \/ <<root_port[1], path[0]>> \notin DOMAIN cable /\ at[0] = Nowhere
        BY <3>1, <2>2, WalkStart
      <4> QED BY <4>1, <2>2 DEF Across
    <3> DEFINE S == {i \in Index : at[i] = at[0]}
    <3>3. 0 \in S
      BY <2>1
    <3>4. ASSUME NEW i \in 0..(PathLen - 1 - 1), i \in S PROVE i + 1 \in S
      <4>1. i + 1 \in Index \ {0} /\ 1 \in 1..(i + 1) /\ path[1] = 0
        BY <1>0, <2>2 DEF Index
      <4>2. at[i + 1] = Hop(cable, path, i + 1, at[i])
        BY <4>1, <3>1, WalkStep
      <4> QED BY <4>1, <4>2, <3>4 DEF Hop
    <3> HIDE DEF S
    <3>5. 0..(PathLen - 1) \subseteq S
      BY <3>3, <3>4, IntervalInduction, IndexFacts, <1>0
    <3>6. at[PathLen - 1] = at[0]
      BY <3>5, <1>0 DEF S
    <3> QED BY <3>1, <3>2, <3>6
  <2> QED BY <2>5, <2>7, <2>8 DEF path
<1> QED BY <1>2, <1>3
=============================================================================
