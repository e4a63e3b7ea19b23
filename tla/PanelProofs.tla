---------------------------- MODULE PanelProofs ----------------------------
(***************************************************************************)
(* What the tabs of the window and the detection of seasonal sets promise,   *)
(* for all of their constants.  Each part has an inductive invariant: the    *)
(* property, and what it takes to keep it.                                   *)
(***************************************************************************)
EXTENDS Panel, OrderedProofs, TLAPS

-----------------------------------------------------------------------------
(* Seasonal sets (SeasonalSets).                                           *)

SetOf == [members : Seq(Scanned), confidence : {0, 1}]

SetsOK ==
  /\ windowOf \in [Scanned -> Windows \cup {NoWindow}]
  /\ sets \in Seq(SetOf) /\ waiting \in Seq(Scanned) /\ unmatched \in Seq(Scanned)
  /\ pass = "cluster" => sets = <<>> /\ waiting = <<>> /\ unmatched = <<>>

\* What was left alone stays so: nothing that is done later makes it fit.
AloneOK ==
  pass # "done" =>
    \A i \in DOMAIN unmatched :
      /\ \A j \in DOMAIN unmatched \ {i} : ~Pairs(unmatched[i], unmatched[j])
      /\ \A k \in DOMAIN sets : ~Fits(unmatched[i], sets[k])

SeasonalInv == SetsOK /\ EachInOnePlace /\ AloneOK

-----------------------------------------------------------------------------

\* Two that could be a pair could be one the other way round too.
LEMMA PairsBothWays ==
  ASSUME SeasonalAssumption, NEW p \in Scanned, NEW q \in Scanned, Pairs(p, q)
  PROVE  Pairs(q, p)
<1>1. Common[<<p, q>>] = Common[<<q, p>>]
  BY DEF SeasonalAssumption
<1>2. {Length[p], Length[q]} = {Length[q], Length[p]}
  OBVIOUS
<1>3. NameMatches(q, p)
  BY <1>1, <1>2 DEF Pairs, NameMatches
<1>4. Days(windowOf[p]) \cap Days(windowOf[q]) = Days(windowOf[q]) \cap Days(windowOf[p])
  OBVIOUS
<1>5. \A x, y : WindowFits(x, <<y>>) <=> OverlapDays(x, y) <= MaxRescueOverlapDays
  <2> SUFFICES ASSUME NEW x, NEW y
               PROVE  WindowFits(x, <<y>>) <=> OverlapDays(x, y) <= MaxRescueOverlapDays
    OBVIOUS
  <2>1. Range(<<y>>) = {y}
    BY DEF Range
  <2> QED
    BY <2>1 DEF WindowFits
<1>6. OverlapDays(p, q) = OverlapDays(q, p)
  BY <1>4 DEF OverlapDays, Overlap
<1>7. WindowFits(q, <<p>>)
  BY <1>5, <1>6 DEF Pairs
<1> QED
  BY <1>3, <1>7 DEF Pairs

\* The choice of a set, and of one that is alone.
LEMMA FirstIn ==
  ASSUME NEW s, NEW A, s \in Seq(A), NEW I \in SUBSET DOMAIN s, I # {}
  PROVE  Min(I) \in I
<1>1. DOMAIN s = 1 .. Len(s) /\ Len(s) \in Nat
  BY LenProperties
<1>2. IsFiniteSet(1 .. Len(s))
  BY <1>1, FS_Interval
<1>3. IsFiniteSet(I)
  BY <1>1, <1>2, FS_Subset
<1>4. I \in SUBSET Int
  <2>1. \A k \in I : k \in Int
    BY <1>1
  <2> QED
    BY <2>1
<1>5. \E a \in I : \A x \in I : a <= x
  BY <1>3, <1>4, LeastAndGreatest
<1> QED
  BY <1>5 DEF Min

-----------------------------------------------------------------------------
(* The first pass.                                                         *)

\* The catalogue has every prop once, and those with a season are finitely many.
LEMMA CandidatesOK ==
  ASSUME SeasonalAssumption, SetsOK
  PROVE  /\ Catalogue \in Seq(Scanned) /\ DOMAIN Catalogue = 1 .. Len(Catalogue) /\ Len(Catalogue) \in Nat
         /\ \A i, j \in DOMAIN Catalogue : Catalogue[i] = Catalogue[j] => i = j
         /\ \A p \in Scanned : \E i \in DOMAIN Catalogue : Catalogue[i] = p
         /\ \A i \in DOMAIN Catalogue : Catalogue[i] \in Scanned
         /\ IsFiniteSet(Candidates) /\ Candidates \in SUBSET Scanned
         /\ \A p \in Candidates : windowOf[p].start \in Int
<1>1. /\ Catalogue \in Seq(Scanned) /\ DOMAIN Catalogue = 1 .. Len(Catalogue) /\ Len(Catalogue) \in Nat
      /\ \A i, j \in DOMAIN Catalogue : Catalogue[i] = Catalogue[j] => i = j
  BY LenProperties DEF SeasonalAssumption, IsInjective
<1>2. /\ \A p \in Scanned : \E i \in DOMAIN Catalogue : Catalogue[i] = p
      /\ \A i \in DOMAIN Catalogue : Catalogue[i] \in Scanned
  BY DEF Scanned, Range
<1>3. IsFiniteSet(Scanned)
  BY OnceCounted DEF SeasonalAssumption, Scanned
<1>4. Candidates \in SUBSET Scanned
  BY DEF Candidates
<1>5. IsFiniteSet(Candidates)
  BY <1>3, <1>4, FS_Subset
<1>6. \A p \in Candidates : windowOf[p].start \in Int
  <2> SUFFICES ASSUME NEW p \in Candidates PROVE windowOf[p].start \in Int
    OBVIOUS
  <2>1. windowOf[p] \in Windows
    BY DEF Candidates, SetsOK
  <2>2. windowOf[p].start \in 0 .. Year - 1 /\ Year \in Nat
    BY <2>1 DEF SeasonalAssumption
  <2> QED
    BY <2>2
<1> QED
  BY <1>1, <1>2, <1>4, <1>5, <1>6

\* Clusters are finitely many, and their keys order them.
LEMMA ClustersOK ==
  ASSUME SeasonalAssumption, SetsOK
  PROVE  /\ IsFiniteSet(Clusters)
         /\ \A S \in SUBSET Clusters : StrictlyOrders({cd \in Clusters \X Clusters : Smaller(cd[1], cd[2])}, S)
         /\ \A c \in Clusters : In(c) \in SUBSET DOMAIN Catalogue
         /\ \A c \in Clusters : c[1] \in Int /\ c[2] \in Int /\ c = <<c[1], c[2]>>
<1>1. IsFiniteSet(Clusters)
  <2> DEFINE f == [p \in Candidates |-> ClusterOf(p)]
  <2>1. f \in Surjection(Candidates, Clusters)
    BY DEF Surjection, Clusters
  <2> QED
    BY <2>1, CandidatesOK, FS_Surjection
<1>2. \A c \in Clusters : c[1] \in Int /\ c[2] \in Int /\ c = <<c[1], c[2]>>
  <2> SUFFICES ASSUME NEW c \in Clusters PROVE c[1] \in Int /\ c[2] \in Int /\ c = <<c[1], c[2]>>
    OBVIOUS
  <2>1. PICK p \in Candidates : c = <<Group[p], Stem[p]>>
    BY DEF Clusters, ClusterOf
  <2>2. p \in Scanned
    BY CandidatesOK
  <2>3. Group[p] \in Int /\ Stem[p] \in Int
    BY <2>2 DEF SeasonalAssumption
  <2> QED
    BY <2>1, <2>3
<1>3. ASSUME NEW S \in SUBSET Clusters
      PROVE  StrictlyOrders({cd \in Clusters \X Clusters : Smaller(cd[1], cd[2])}, S)
  <2>1. \A c, d \in S : <<c, d>> \in {cd \in Clusters \X Clusters : Smaller(cd[1], cd[2])} <=> Smaller(c, d)
    OBVIOUS
  <2>2. \A c \in S : ~Smaller(c, c)
    BY <1>2 DEF Smaller
  <2>3. \A c, d \in S : c # d => Smaller(c, d) \/ Smaller(d, c)
    BY <1>2 DEF Smaller
  <2>4. \A c, d, e \in S : Smaller(c, d) /\ Smaller(d, e) => Smaller(c, e)
    BY <1>2 DEF Smaller
  <2> QED
    BY <2>1, <2>2, <2>3, <2>4 DEF StrictlyOrders
<1>4. \A c \in Clusters : In(c) \in SUBSET DOMAIN Catalogue
  BY DEF In
<1> QED
  BY <1>1, <1>2, <1>3, <1>4

\* What a cluster has, and that every candidate is in one.
LEMMA InOK ==
  ASSUME SeasonalAssumption, SetsOK
  PROVE  /\ \A p \in Candidates : ClusterOf(p) \in Clusters
                                  /\ \E i \in In(ClusterOf(p)) : Catalogue[i] = p
         /\ \A c \in Clusters : \A i \in In(c) : Catalogue[i] \in Candidates /\ ClusterOf(Catalogue[i]) = c
         /\ \A c, d \in Clusters : \A i \in In(c), j \in In(d) :
              Catalogue[i] = Catalogue[j] => c = d /\ i = j
<1>1. \A p \in Candidates : ClusterOf(p) \in Clusters /\ \E i \in In(ClusterOf(p)) : Catalogue[i] = p
  BY CandidatesOK DEF Clusters, In
<1>2. \A c \in Clusters : \A i \in In(c) : Catalogue[i] \in Candidates /\ ClusterOf(Catalogue[i]) = c
                                           /\ i \in DOMAIN Catalogue
  BY DEF In
<1> QED
  BY <1>1, <1>2, CandidatesOK

\* What waits after the first pass: the members of the clusters that do not hold.
LEMMA WaitingOK ==
  ASSUME SeasonalAssumption, SetsOK, Cluster
  PROVE  /\ waiting' \in Seq(Scanned) /\ IsInjective(waiting')
         /\ Range(waiting') = {p \in Candidates : ~Holds(ClusterOf(p))}
<1> DEFINE left == UNION {In(c) : c \in {c \in Clusters : ~Holds(c)}}
           earlier(i, j) == LET c == ClusterOf(Catalogue[i])
                                d == ClusterOf(Catalogue[j])
                            IN Smaller(c, d) \/ (c = d /\ i < j)
           R == {ij \in left \X left : earlier(ij[1], ij[2])}
           queue == Sorted(left, R)
<1>1. /\ left \in SUBSET DOMAIN Catalogue
      /\ \A i \in left : /\ Catalogue[i] \in Candidates /\ ~Holds(ClusterOf(Catalogue[i]))
                         /\ ClusterOf(Catalogue[i]) \in Clusters
      /\ \A p \in Candidates : ~Holds(ClusterOf(p)) => \E i \in left : Catalogue[i] = p
  BY ClustersOK, InOK
<1>2. IsFiniteSet(left)
  <2>1. IsFiniteSet(1 .. Len(Catalogue)) /\ left \in SUBSET (1 .. Len(Catalogue))
    BY <1>1, CandidatesOK, FS_Interval
  <2> HIDE DEF left
  <2> QED
    BY <2>1, FS_Subset
<1>3. waiting' = [k \in DOMAIN queue |-> Catalogue[queue[k]]]
  BY DEF Cluster
<1>4. \A i \in left : i \in Int
  BY <1>1, CandidatesOK
<1> HIDE DEF left
<1>5. StrictlyOrders(R, left)
  <2>1. \A i, j \in left : <<i, j>> \in R <=> earlier(i, j)
    OBVIOUS
  <2>2. \A i \in left : LET c == ClusterOf(Catalogue[i]) IN c[1] \in Int /\ c[2] \in Int /\ c = <<c[1], c[2]>>
    BY <1>1, ClustersOK
  <2>3. \A i \in left : ~earlier(i, i)
    BY <1>4, <2>2 DEF Smaller
  <2>4. \A i, j \in left : i # j => earlier(i, j) \/ earlier(j, i)
    BY <1>4, <2>2 DEF Smaller
  <2>5. \A i, j, k \in left : earlier(i, j) /\ earlier(j, k) => earlier(i, k)
    BY <1>4, <2>2 DEF Smaller
  <2> HIDE DEF R, earlier
  <2> QED
    BY <2>1, <2>3, <2>4, <2>5 DEF StrictlyOrders
<1> HIDE DEF R
<1>6. /\ Cardinality(left) \in Nat /\ queue \in [1 .. Cardinality(left) -> left]
      /\ Range(queue) = left /\ IsInjective(queue)
  BY <1>2, <1>5, SortedOK, SortedOnce
<1> HIDE DEF queue
<1>7. DOMAIN queue = 1 .. Cardinality(left) /\ \A k \in DOMAIN queue : queue[k] \in left
  BY <1>6
<1>8. \A k \in 1 .. Cardinality(left) : Catalogue[queue[k]] \in Scanned
  BY <1>1, <1>7, CandidatesOK
<1>9. waiting' \in Seq(Scanned) /\ DOMAIN waiting' = 1 .. Cardinality(left)
  BY <1>3, <1>6, <1>7, <1>8, IsASeq
<1>10. IsInjective(waiting')
  BY <1>1, <1>3, <1>6, <1>7, CandidatesOK DEF IsInjective
<1>11. \A p \in Range(waiting') : p \in Candidates /\ ~Holds(ClusterOf(p))
  BY <1>1, <1>3, <1>7 DEF Range
<1>12. ASSUME NEW p \in Candidates, ~Holds(ClusterOf(p)) PROVE p \in Range(waiting')
  <2>1. PICK i \in left : Catalogue[i] = p
    BY <1>1, <1>12
  <2>2. PICK k \in DOMAIN queue : queue[k] = i
    BY <1>6 DEF Range
  <2> QED
    BY <1>3, <2>1, <2>2 DEF Range
<1> QED
  BY <1>9, <1>10, <1>11, <1>12

\* The sets of the first pass: the clusters that hold.
LEMMA HeldOK ==
  ASSUME SeasonalAssumption, SetsOK, Cluster
  PROVE  /\ sets' \in Seq(SetOf)
         /\ \A k \in DOMAIN sets' : \E c \in Clusters :
              /\ Holds(c) /\ IsInjective(sets'[k].members) /\ Len(sets'[k].members) = Cardinality(In(c))
              /\ Members(sets'[k]) = {Catalogue[i] : i \in In(c)}
              /\ \A l \in DOMAIN sets' \ {k} : \A i \in In(c) : Catalogue[i] \notin Members(sets'[l])
         /\ \A c \in Clusters : Holds(c) =>
              \E k \in DOMAIN sets' : Members(sets'[k]) = {Catalogue[i] : i \in In(c)}
<1> DEFINE S == {c \in Clusters : Holds(c)}
           R == {cd \in Clusters \X Clusters : Smaller(cd[1], cd[2])}
           held == Sorted(S, R)
           n == Cardinality(S)
<1>1. S \in SUBSET Clusters /\ IsFiniteSet(S)
  BY ClustersOK, FS_Subset
<1>2. StrictlyOrders(R, S)
  BY <1>1, ClustersOK
<1>3. sets' = [k \in DOMAIN held |-> [members |-> Picked(Catalogue, In(held[k])), confidence |-> 0]]
  BY DEF Cluster
<1>4. \A c \in S : c \in Clusters /\ Holds(c)
  OBVIOUS
<1>5. \A c \in Clusters : Holds(c) => c \in S
  OBVIOUS
<1> HIDE DEF S, R
<1>6. /\ n \in Nat /\ held \in [1 .. n -> S] /\ Range(held) = S /\ IsInjective(held)
  BY <1>1, <1>2, SortedOK, SortedOnce
<1> HIDE DEF held, n
<1>7. /\ DOMAIN held = 1 .. n /\ \A k \in 1 .. n : held[k] \in S /\ In(held[k]) \in SUBSET DOMAIN Catalogue
      /\ \A c \in S : \E k \in 1 .. n : held[k] = c
  BY <1>1, <1>6, ClustersOK DEF Range
<1>8. /\ DOMAIN sets' = 1 .. n
      /\ \A k \in 1 .. n : sets'[k] = [members |-> Picked(Catalogue, In(held[k])), confidence |-> 0]
  BY <1>3, <1>7
<1>9. ASSUME NEW k \in 1 .. n
      PROVE  /\ sets'[k] \in SetOf /\ IsInjective(sets'[k].members)
             /\ Len(sets'[k].members) = Cardinality(In(held[k]))
             /\ Members(sets'[k]) = {Catalogue[i] : i \in In(held[k])}
  <2>1. Catalogue \in Seq(Scanned) /\ IsInjective(Catalogue) /\ In(held[k]) \in SUBSET DOMAIN Catalogue
    BY <1>7 DEF SeasonalAssumption
  <2>2. /\ Picked(Catalogue, In(held[k])) \in Seq(Scanned)
        /\ Len(Picked(Catalogue, In(held[k]))) = Cardinality(In(held[k]))
    BY <2>1, PickedOK
  <2>3. /\ Range(Picked(Catalogue, In(held[k]))) = {Catalogue[i] : i \in In(held[k])}
        /\ IsInjective(Picked(Catalogue, In(held[k])))
    BY <2>1, PickedOnce
  <2>4. sets'[k].members = Picked(Catalogue, In(held[k]))
    BY <1>8
  <2>5. sets'[k] \in SetOf
    BY <1>8, <2>2 DEF SetOf
  <2> QED
    BY <2>2, <2>3, <2>4, <2>5 DEF Members
<1>10. sets' \in Seq(SetOf)
  BY <1>3, <1>6, <1>7, <1>9, IsASeq
<1>11. ASSUME NEW k \in 1 .. n, NEW l \in 1 .. n, k # l, NEW i \in In(held[k])
       PROVE  Catalogue[i] \notin Members(sets'[l])
  <2>1. held[k] # held[l] /\ held[k] \in Clusters /\ held[l] \in Clusters
    BY <1>1, <1>6, <1>7, <1>11 DEF IsInjective
  <2>2. \A j \in In(held[l]) : Catalogue[j] # Catalogue[i]
    BY <1>11, <2>1, InOK
  <2>3. Members(sets'[l]) = {Catalogue[j] : j \in In(held[l])}
    BY <1>9
  <2> QED
    BY <2>2, <2>3
<1>12. ASSUME NEW k \in DOMAIN sets'
       PROVE  \E c \in Clusters :
              /\ Holds(c) /\ IsInjective(sets'[k].members) /\ Len(sets'[k].members) = Cardinality(In(c))
              /\ Members(sets'[k]) = {Catalogue[i] : i \in In(c)}
              /\ \A l \in DOMAIN sets' \ {k} : \A i \in In(c) : Catalogue[i] \notin Members(sets'[l])
  <2>1. held[k] \in Clusters /\ Holds(held[k])
    BY <1>4, <1>7, <1>8
  <2> QED
    BY <1>8, <1>9, <1>11, <2>1
<1>13. ASSUME NEW c \in Clusters, Holds(c)
       PROVE  \E k \in DOMAIN sets' : Members(sets'[k]) = {Catalogue[i] : i \in In(c)}
  <2>1. PICK k \in 1 .. n : held[k] = c
    BY <1>5, <1>7, <1>13
  <2> QED
    BY <1>8, <1>9, <2>1
<1> QED
  BY <1>10, <1>12, <1>13

\* The first pass puts every candidate in one place.
LEMMA ClusterKeeps ==
  ASSUME SeasonalAssumption, SeasonalInv, Cluster
  PROVE  SeasonalInv'
<1>0. SetsOK /\ pass = "cluster" /\ pass' = "rescue" /\ unmatched = <<>>
      /\ UNCHANGED <<windowOf, unmatched>> /\ DOMAIN unmatched = {} /\ Range(unmatched) = {}
  BY DEF SeasonalInv, SetsOK, Cluster, Range
<1>1. UNCHANGED Candidates
  BY <1>0 DEF Candidates
<1>3. SetsOK'
  BY <1>0, WaitingOK, HeldOK DEF SetsOK
<1>4. AloneOK'
  BY <1>0 DEF AloneOK
<1>5. UNION {Members(sets'[k]) : k \in DOMAIN sets'} = {p \in Candidates : Holds(ClusterOf(p))}
  <2>1. ASSUME NEW k \in DOMAIN sets', NEW p \in Members(sets'[k])
        PROVE  p \in Candidates /\ Holds(ClusterOf(p))
    BY <1>0, <2>1, HeldOK, InOK
  <2>2. ASSUME NEW p \in Candidates, Holds(ClusterOf(p))
        PROVE  \E k \in DOMAIN sets' : p \in Members(sets'[k])
    <3>1. PICK i \in In(ClusterOf(p)) : Catalogue[i] = p /\ ClusterOf(p) \in Clusters
      BY <1>0, InOK
    <3>2. PICK k \in DOMAIN sets' : Members(sets'[k]) = {Catalogue[j] : j \in In(ClusterOf(p))}
      BY <1>0, <2>2, <3>1, HeldOK
    <3> QED
      BY <3>1, <3>2
  <2> QED
    BY <2>1, <2>2
<1>6. Range(waiting') = {p \in Candidates : ~Holds(ClusterOf(p))} /\ IsInjective(waiting')
  BY <1>0, WaitingOK
<1>7. ASSUME NEW k \in DOMAIN sets'
      PROVE  /\ IsInjective(sets'[k].members)
             /\ Members(sets'[k]) \cap (Range(waiting') \cup Range(unmatched')) = {}
             /\ \A l \in DOMAIN sets' \ {k} : Members(sets'[k]) \cap Members(sets'[l]) = {}
             /\ Len(sets'[k].members) \in 2 .. MaxSetMembers
             /\ \A p, q \in Members(sets'[k]) : Group[p] = Group[q]
             /\ WindowsLookSeasonal(Members(sets'[k]))
  <2>1. PICK c \in Clusters :
              /\ Holds(c) /\ IsInjective(sets'[k].members) /\ Len(sets'[k].members) = Cardinality(In(c))
              /\ Members(sets'[k]) = {Catalogue[i] : i \in In(c)}
              /\ \A l \in DOMAIN sets' \ {k} : \A i \in In(c) : Catalogue[i] \notin Members(sets'[l])
    BY <1>0, HeldOK
  <2>2. Members(sets'[k]) \cap (Range(waiting') \cup Range(unmatched')) = {}
    BY <1>0, <1>5, <1>6
  <2>3. \A l \in DOMAIN sets' \ {k} : Members(sets'[k]) \cap Members(sets'[l]) = {}
    BY <2>1
  <2>4. \A p \in Members(sets'[k]) : ClusterOf(p) = c
    BY <1>0, <2>1, InOK
  <2>5. \A p, q \in Members(sets'[k]) : Group[p] = Group[q]
    BY <2>4 DEF ClusterOf
  <2> QED
    BY <2>1, <2>2, <2>3, <2>5 DEF Holds
<1>8. IsInjective(unmatched')
  BY <1>0 DEF IsInjective
<1>9. EachInOnePlace'
  <2>1. \A k \in DOMAIN sets' : TileTheYear([p \in Members(sets'[k]) |-> windowOf'[p]])
    BY <1>0, <1>7 DEF WindowsLookSeasonal
  <2> QED
    <3>1. (UNION {Members(sets'[k]) : k \in DOMAIN sets'}) \cup Range(waiting') \cup Range(unmatched') = Candidates'
      BY <1>0, <1>1, <1>5, <1>6
    <3>2. Range(waiting') \cap Range(unmatched') = {}
      BY <1>0
    <3>3. \A k \in DOMAIN sets' : (sets'[k].confidence = 0) => WindowsLookSeasonal(Members(sets[k]))'
      BY <2>1 DEF WindowsLookSeasonal
    <3> QED
      BY <1>6, <1>7, <1>8, <3>1, <3>2, <3>3 DEF EachInOnePlace
<1> QED
  BY <1>3, <1>4, <1>9 DEF SeasonalInv

-----------------------------------------------------------------------------
(* The second pass.                                                        *)

\* What the invariant says of the sets and of the prop that is next.
LEMMA NextOK ==
  ASSUME SeasonalAssumption, SeasonalInv, pass = "rescue"
  PROVE  /\ \A k \in DOMAIN sets : /\ sets[k] \in SetOf /\ sets[k].members \in Seq(Scanned)
                                   /\ sets[k].members # <<>> /\ Len(sets[k].members) \in Nat
                                   /\ Head(sets[k].members) \in Scanned
                                   /\ Head(sets[k].members) \in Members(sets[k])
         /\ DOMAIN sets = 1 .. Len(sets) /\ Len(sets) \in Nat
         /\ \A i \in DOMAIN unmatched : unmatched[i] \in Scanned /\ unmatched[i] \in Range(unmatched)
         /\ waiting # <<>> =>
              /\ Head(waiting) \in Scanned /\ Head(waiting) \in Range(waiting)
              /\ Tail(waiting) \in Seq(Scanned) /\ IsInjective(Tail(waiting))
              /\ Range(Tail(waiting)) = Range(waiting) \ {Head(waiting)}
<1>1. /\ sets \in Seq(SetOf) /\ waiting \in Seq(Scanned) /\ unmatched \in Seq(Scanned)
      /\ IsInjective(waiting)
  BY DEF SeasonalInv, SetsOK, EachInOnePlace
<1>2. DOMAIN sets = 1 .. Len(sets) /\ Len(sets) \in Nat
  BY <1>1, LenProperties
<1>3. ASSUME NEW k \in DOMAIN sets
      PROVE  /\ sets[k] \in SetOf /\ sets[k].members \in Seq(Scanned)
             /\ sets[k].members # <<>> /\ Len(sets[k].members) \in Nat
             /\ Head(sets[k].members) \in Scanned
             /\ Head(sets[k].members) \in Members(sets[k])
  <2>1. sets[k] \in SetOf
    BY <1>1, <1>2, ElementOfSeq
  <2>2. sets[k].members \in Seq(Scanned)
    BY <2>1 DEF SetOf
  <2>3. Len(sets[k].members) \in 2 .. MaxSetMembers
    BY DEF SeasonalInv, EachInOnePlace
  <2> DEFINE ms == sets[k].members
  <2> HIDE DEF ms
  <2>4. ms \in Seq(Scanned) /\ Len(ms) \in 2 .. MaxSetMembers
    BY <2>2, <2>3 DEF ms
  <2>5. ms # <<>> /\ Head(ms) = ms[1] /\ DOMAIN ms = 1 .. Len(ms) /\ Len(ms) \in Nat /\ 1 \in 1 .. Len(ms)
    BY <2>4, LenProperties, EmptySeq
  <2>6. Head(ms) \in Scanned /\ Head(ms) \in Range(ms)
    BY <2>4, <2>5, ElementOfSeq DEF Range
  <2> QED
    BY <2>1, <2>4, <2>5, <2>6 DEF ms, Members
<1>4. \A i \in DOMAIN unmatched : unmatched[i] \in Scanned /\ unmatched[i] \in Range(unmatched)
  BY <1>1, LenProperties, ElementOfSeq DEF Range
<1>5. waiting # <<>> =>
              /\ Head(waiting) \in Scanned /\ Head(waiting) \in Range(waiting)
              /\ Tail(waiting) \in Seq(Scanned) /\ IsInjective(Tail(waiting))
              /\ Range(Tail(waiting)) = Range(waiting) \ {Head(waiting)}
  BY <1>1, TailOnce
<1> QED
  BY <1>2, <1>3, <1>4, <1>5

\* The set that is chosen is one that fits.
LEMMA BestOK ==
  ASSUME SeasonalAssumption, SeasonalInv, pass = "rescue", NEW p \in Scanned,
         NEW ks \in SUBSET DOMAIN sets, ks # {}
  PROVE  Best(p, ks) \in ks
<1> DEFINE common(k) == Common[<<p, Head(sets[k].members)>>]
           V == {common(k) : k \in ks}
           f == [k \in ks |-> common(k)]
           best == {k \in ks : \A j \in ks : common(j) <= common(k)}
<1>1. \A k \in ks : common(k) \in Nat
  BY NextOK DEF SeasonalAssumption
<1>2. IsFiniteSet(ks)
  <2>1. IsFiniteSet(1 .. Len(sets)) /\ ks \in SUBSET (1 .. Len(sets))
    BY NextOK, FS_Interval
  <2> QED
    BY <2>1, FS_Subset
<1> HIDE DEF common
<1>3. IsFiniteSet(V) /\ V \in SUBSET Int /\ V # {}
  <2>1. f \in Surjection(ks, V)
    BY DEF Surjection
  <2>2. IsFiniteSet(V)
    BY <1>2, <2>1, FS_Surjection
  <2> QED
    BY <1>1, <2>2
<1>4. \E b \in V : \A x \in V : x <= b
  <2> HIDE DEF V
  <2> QED
    BY <1>3, LeastAndGreatest
<1>5. best # {}
  BY <1>4
<1>6. Best(p, ks) = Min(best)
  BY DEF Best, common
<1>7. sets \in Seq(SetOf) /\ best \in SUBSET DOMAIN sets
  BY DEF SeasonalInv, SetsOK
<1>8. Min(best) \in best
  <2> HIDE DEF best
  <2> QED
    BY <1>5, <1>7, FirstIn
<1> QED
  BY <1>6, <1>8

\* A prop that joins a set leaves the waiting ones, and shrinks the room of that set only.
LEMMA JoinKeeps ==
  ASSUME SeasonalAssumption, SeasonalInv, pass = "rescue", waiting # <<>>,
         NEW ks \in SUBSET DOMAIN sets, ks # {}, \A k \in ks : Fits(Head(waiting), sets[k]),
         Join(Head(waiting), ks), waiting' = Tail(waiting), UNCHANGED <<windowOf, pass>>
  PROVE  SeasonalInv'
<1> DEFINE p == Head(waiting)
           b == Best(p, ks)
           ms == sets[b].members
<1>1. b \in DOMAIN sets /\ Fits(p, sets[b]) /\ p \in Scanned /\ p \in Range(waiting)
  BY NextOK, BestOK
<1>2. /\ UNCHANGED <<unmatched, windowOf>> /\ pass' = "rescue"
      /\ sets' = [sets EXCEPT ![b] = [members |-> Append(ms, p), confidence |-> 1]]
  BY DEF Join
<1>3. ms \in Seq(Scanned) /\ ms # <<>> /\ Len(ms) \in Nat /\ Len(ms) < MaxSetMembers
      /\ Group[Head(ms)] = Group[p] /\ Head(ms) \in Members(sets[b])
  BY <1>1, NextOK DEF Fits
<1>4. p \notin Range(ms) /\ IsInjective(ms) /\ p \notin Range(unmatched) /\ Len(ms) \in 2 .. MaxSetMembers
  BY <1>1 DEF SeasonalInv, EachInOnePlace, Members
<1> HIDE DEF b, p, ms
<1>5. /\ Append(ms, p) \in Seq(Scanned) /\ Len(Append(ms, p)) = Len(ms) + 1
      /\ Append(ms, p)[1] = ms[1] /\ Head(Append(ms, p)) = Head(ms)
  <2>1. /\ Append(ms, p) \in Seq(Scanned) /\ Len(Append(ms, p)) = Len(ms) + 1
        /\ \A k \in 1 .. Len(ms) : Append(ms, p)[k] = ms[k]
    BY <1>1, <1>3, AppendProperties
  <2>2. 1 \in 1 .. Len(ms)
    BY <1>3, <1>4
  <2>3. Head(ms) = ms[1] /\ Head(Append(ms, p)) = Append(ms, p)[1]
    BY <1>3, <2>1
  <2> QED
    BY <2>1, <2>2, <2>3
<1>6. Range(Append(ms, p)) = Range(ms) \cup {p} /\ IsInjective(Append(ms, p))
  BY <1>1, <1>3, <1>4, AppendOnce
<1>7. /\ DOMAIN sets' = DOMAIN sets
      /\ \A k \in DOMAIN sets : k # b => sets'[k] = sets[k]
      /\ sets'[b].members = Append(ms, p) /\ sets'[b].confidence = 1
  BY <1>1, <1>2
<1>8. /\ Members(sets'[b]) = Members(sets[b]) \cup {p}
      /\ \A k \in DOMAIN sets : k # b => Members(sets'[k]) = Members(sets[k])
  BY <1>6, <1>7 DEF Members, ms
<1>9. SetsOK'
  <2>1. [members |-> Append(ms, p), confidence |-> 1] \in SetOf
    BY <1>5 DEF SetOf
  <2>2. sets' \in Seq(SetOf)
    BY <1>1, <1>2, <2>1, NextOK, ExceptSeq DEF SeasonalInv, SetsOK
  <2> QED
    BY <1>2, <2>2, NextOK DEF SeasonalInv, SetsOK
<1>10. AloneOK'
  <2>1. ASSUME NEW u, Fits(u, sets'[b]) PROVE Fits(u, sets[b])
    <3>1. WindowFits(u, Append(ms, p)) => WindowFits(u, ms)
      BY <1>6 DEF WindowFits
    <3>2. sets[b].members = ms
      BY DEF ms
    <3> QED
      BY <1>1, <1>3, <1>5, <1>7, <2>1, <3>1, <3>2 DEF Fits
  <2>2. \A u : \A k \in DOMAIN sets' : Fits(u, sets'[k]) => Fits(u, sets[k])
    BY <1>7, <2>1
  <2>3. \A u, q : Pairs(u, q)' <=> Pairs(u, q)
    BY <1>2 DEF Pairs, NameMatches, WindowFits, OverlapDays
  <2>4. \A u, set : Fits(u, set)' <=> Fits(u, set)
    BY <1>2 DEF Fits, NameMatches, WindowFits, OverlapDays
  <2>5. \A i \in DOMAIN unmatched :
          /\ \A j \in DOMAIN unmatched \ {i} : ~Pairs(unmatched[i], unmatched[j])
          /\ \A k \in DOMAIN sets : ~Fits(unmatched[i], sets[k])
    BY DEF SeasonalInv, AloneOK
  <2> QED
    BY <1>2, <1>7, <2>2, <2>3, <2>4, <2>5 DEF AloneOK
<1>11. EachInOnePlace'
  <2>1. /\ (UNION {Members(sets[k]) : k \in DOMAIN sets}) \cup Range(waiting) \cup Range(unmatched) = Candidates
        /\ IsInjective(waiting) /\ IsInjective(unmatched) /\ Range(waiting) \cap Range(unmatched) = {}
        /\ \A k \in DOMAIN sets :
             /\ IsInjective(sets[k].members)
             /\ Members(sets[k]) \cap (Range(waiting) \cup Range(unmatched)) = {}
             /\ \A l \in DOMAIN sets \ {k} : Members(sets[k]) \cap Members(sets[l]) = {}
             /\ Len(sets[k].members) \in 2 .. MaxSetMembers
             /\ \A q, r \in Members(sets[k]) : Group[q] = Group[r]
             /\ sets[k].confidence = 0 => WindowsLookSeasonal(Members(sets[k]))
    BY DEF SeasonalInv, EachInOnePlace
  <2>2. Range(waiting') = Range(waiting) \ {p} /\ IsInjective(waiting')
    BY NextOK DEF p
  <2>3. UNION {Members(sets'[k]) : k \in DOMAIN sets'} = (UNION {Members(sets[k]) : k \in DOMAIN sets}) \cup {p}
    BY <1>1, <1>7, <1>8
  <2>4. (UNION {Members(sets'[k]) : k \in DOMAIN sets'}) \cup Range(waiting') \cup Range(unmatched') = Candidates'
    <3>1. Candidates' = Candidates
      BY <1>2 DEF Candidates
    <3>2. Range(waiting) = Range(waiting') \cup {p}
      BY <1>1, <2>2
    <3> HIDE DEF p
    <3> QED
      BY <1>2, <2>1, <2>3, <3>1, <3>2
  <2>5. ASSUME NEW k \in DOMAIN sets'
        PROVE  /\ IsInjective(sets'[k].members)
               /\ Members(sets'[k]) \cap (Range(waiting') \cup Range(unmatched')) = {}
               /\ \A l \in DOMAIN sets' \ {k} : Members(sets'[k]) \cap Members(sets'[l]) = {}
               /\ Len(sets'[k].members) \in 2 .. MaxSetMembers
               /\ \A q, r \in Members(sets'[k]) : Group[q] = Group[r]
               /\ sets'[k].confidence = 0 => WindowsLookSeasonal(Members(sets[k]))'
    <3>1. IsInjective(sets'[k].members)
      BY <1>6, <1>7, <2>1, <2>5
    <3>2. Members(sets'[k]) \cap (Range(waiting') \cup Range(unmatched')) = {}
      <4>1. Members(sets[k]) \cap (Range(waiting) \cup Range(unmatched)) = {}
        BY <1>7, <2>1, <2>5
      <4>2. p \notin Range(waiting') /\ p \notin Range(unmatched') /\ Range(waiting') \subseteq Range(waiting)
        BY <1>2, <1>4, <2>2
      <4>3. Members(sets'[k]) \subseteq Members(sets[k]) \cup {p}
        BY <1>7, <1>8, <2>5
      <4> QED
        BY <1>2, <4>1, <4>2, <4>3
    <3>3. ASSUME NEW l \in DOMAIN sets' \ {k}
          PROVE  Members(sets'[k]) \cap Members(sets'[l]) = {}
      <4>1. Members(sets[k]) \cap Members(sets[l]) = {}
        BY <1>7, <2>1, <2>5, <3>3
      <4>2. p \notin Members(sets[k]) /\ p \notin Members(sets[l])
        BY <1>1, <1>7, <2>1, <2>5, <3>3
      <4>3. CASE k # b /\ l # b
        BY <1>7, <1>8, <2>5, <3>3, <4>1, <4>3
      <4>4. CASE k = b
        BY <1>7, <1>8, <2>5, <3>3, <4>1, <4>2, <4>4
      <4>5. CASE l = b
        BY <1>7, <1>8, <2>5, <3>3, <4>1, <4>2, <4>5
      <4> QED
        BY <4>3, <4>4, <4>5
    <3>4. Len(sets'[k].members) \in 2 .. MaxSetMembers
      <4>1. MaxSetMembers \in Nat
        BY DEF SeasonalAssumption
      <4>2. CASE k = b
        BY <1>3, <1>4, <1>5, <1>7, <4>1, <4>2
      <4>3. CASE k # b
        BY <1>7, <2>1, <2>5, <4>3
      <4> QED
        BY <4>2, <4>3
    <3>5. \A q, r \in Members(sets'[k]) : Group[q] = Group[r]
      BY <1>1, <1>3, <1>7, <1>8, <2>1, <2>5
    <3>6. sets'[k].confidence = 0 => WindowsLookSeasonal(Members(sets[k]))'
      BY <1>2, <1>7, <2>1, <2>5 DEF WindowsLookSeasonal
    <3> QED
      BY <3>1, <3>2, <3>3, <3>4, <3>5, <3>6
  <2>6. Range(waiting') \cap Range(unmatched') = {} /\ IsInjective(unmatched')
    BY <1>2, <2>1, <2>2
  <2> QED
    BY <2>2, <2>4, <2>5, <2>6 DEF EachInOnePlace
<1> QED
  BY <1>9, <1>10, <1>11 DEF SeasonalInv

\* A new pair keeps away what its first member alone kept away.
LEMMA PairKeeps ==
  ASSUME SeasonalAssumption, SeasonalInv, pass = "rescue", waiting # <<>>,
         NEW ks \in SUBSET DOMAIN unmatched, ks # {}, \A k \in ks : Pairs(Head(waiting), unmatched[k]),
         \A k \in DOMAIN sets : ~Fits(Head(waiting), sets[k]),
         Pair(Head(waiting), ks), waiting' = Tail(waiting), UNCHANGED <<windowOf, pass>>
  PROVE  SeasonalInv'
<1> DEFINE p == Head(waiting)
           i == Min(ks)
           q == unmatched[i]
           new == [members |-> <<q, p>>, confidence |-> 1]
           n == Len(sets)
<1>1. /\ p \in Scanned /\ p \in Range(waiting) /\ i \in DOMAIN unmatched
      /\ q \in Scanned /\ q \in Range(unmatched) /\ Pairs(p, q)
  <2>1. i \in ks
    BY FirstIn DEF SeasonalInv, SetsOK
  <2> QED
    BY <2>1, NextOK
<1>2. /\ UNCHANGED windowOf /\ pass' = "rescue"
      /\ sets' = Append(sets, new) /\ unmatched' = RemoveAt(unmatched, i)
  BY DEF Pair
<1>3. /\ sets \in Seq(SetOf) /\ unmatched \in Seq(Scanned) /\ DOMAIN unmatched = 1 .. Len(unmatched)
      /\ Len(unmatched) \in Nat /\ DOMAIN sets = 1 .. n /\ n \in Nat
  BY LenProperties, NextOK DEF SeasonalInv, SetsOK
<1>4. /\ (UNION {Members(sets[k]) : k \in DOMAIN sets}) \cup Range(waiting) \cup Range(unmatched) = Candidates
      /\ IsInjective(waiting) /\ IsInjective(unmatched) /\ Range(waiting) \cap Range(unmatched) = {}
      /\ \A k \in DOMAIN sets :
           /\ IsInjective(sets[k].members)
           /\ Members(sets[k]) \cap (Range(waiting) \cup Range(unmatched)) = {}
           /\ \A l \in DOMAIN sets \ {k} : Members(sets[k]) \cap Members(sets[l]) = {}
           /\ Len(sets[k].members) \in 2 .. MaxSetMembers
           /\ \A r, t \in Members(sets[k]) : Group[r] = Group[t]
           /\ sets[k].confidence = 0 => WindowsLookSeasonal(Members(sets[k]))
  BY DEF SeasonalInv, EachInOnePlace
<1>5. /\ Range(waiting') = Range(waiting) \ {p} /\ IsInjective(waiting') /\ waiting' \in Seq(Scanned)
      /\ Range(unmatched') = Range(unmatched) \ {q} /\ IsInjective(unmatched') /\ unmatched' \in Seq(Scanned)
      /\ DOMAIN unmatched' = 1 .. Len(unmatched) - 1
      /\ \A k \in 1 .. Len(unmatched) - 1 : unmatched'[k] = IF k < i THEN unmatched[k] ELSE unmatched[k + 1]
  <2>1. waiting' \in Seq(Scanned) /\ IsInjective(waiting') /\ Range(waiting') = Range(waiting) \ {p}
    BY NextOK
  <2> HIDE DEF i, p
  <2>2. i \in 1 .. Len(unmatched)
    BY <1>1, <1>3
  <2>3. /\ unmatched' \in Seq(Scanned) /\ DOMAIN unmatched' = 1 .. Len(unmatched) - 1
        /\ \A k \in 1 .. Len(unmatched) - 1 : unmatched'[k] = IF k < i THEN unmatched[k] ELSE unmatched[k + 1]
    BY <1>2, <1>3, <2>2, RemoveAtOK
  <2>4. Range(unmatched') = Range(unmatched) \ {q} /\ IsInjective(unmatched')
    BY <1>2, <1>3, <1>4, <2>2, RemoveAtOnce
  <2> QED
    BY <2>1, <2>3, <2>4
<1>6. p # q /\ Group[p] = Group[q]
  BY <1>1, <1>4 DEF Pairs
<1> HIDE DEF i, p, q
<1>7. /\ <<q, p>> \in Seq(Scanned) /\ Len(<<q, p>>) = 2 /\ Range(<<q, p>>) = {q, p}
      /\ IsInjective(<<q, p>>) /\ Head(<<q, p>>) = q /\ new \in SetOf
  <2>1. <<q, p>> \in Seq(Scanned) /\ Len(<<q, p>>) = 2 /\ DOMAIN <<q, p>> = 1 .. 2 /\ Head(<<q, p>>) = q
    BY <1>1
  <2>2. <<q, p>>[1] = q /\ <<q, p>>[2] = p
    OBVIOUS
  <2>3. 1 .. 2 = {1, 2}
    OBVIOUS
  <2> DEFINE s == <<q, p>>
  <2>4. s[1] = q /\ s[2] = p /\ DOMAIN s = {1, 2}
    BY <2>1, <2>2, <2>3
  <2> HIDE DEF s
  <2>5. Range(s) = {q, p} /\ IsInjective(s)
    BY <1>6, <2>4 DEF Range, IsInjective
  <2> QED
    BY <2>1, <2>5 DEF s, SetOf
<1>8. Members(new) = {q, p} /\ new.confidence = 1 /\ new.members = <<q, p>> /\ Len(new.members) = 2
  BY <1>7 DEF Members
<1> HIDE DEF new
<1>9. /\ sets' \in Seq(SetOf) /\ DOMAIN sets' = 1 .. n + 1
      /\ \A k \in 1 .. n : sets'[k] = sets[k]
      /\ sets'[n + 1] = new
  <2>1. /\ sets' \in Seq(SetOf) /\ Len(sets') = n + 1 /\ sets'[n + 1] = new
        /\ \A k \in 1 .. n : sets'[k] = sets[k]
    BY <1>2, <1>3, <1>7, AppendProperties DEF new
  <2> QED
    BY <2>1, LenProperties
<1> HIDE DEF n
<1>10. SetsOK'
  BY <1>2, <1>5, <1>9, NextOK DEF SeasonalInv, SetsOK
<1>11. \A k \in DOMAIN sets' : (k \in 1 .. n /\ sets'[k] = sets[k]) \/ (k = n + 1 /\ sets'[k] = new)
  BY <1>3, <1>9
<1>12. AloneOK'
  <2>1. \A u, t : Pairs(u, t)' <=> Pairs(u, t)
    BY <1>2 DEF Pairs, NameMatches, WindowFits, OverlapDays
  <2>2. \A u, set : Fits(u, set)' <=> Fits(u, set)
    BY <1>2 DEF Fits, NameMatches, WindowFits, OverlapDays
  <2>3. \A j \in DOMAIN unmatched :
          /\ \A l \in DOMAIN unmatched \ {j} : ~Pairs(unmatched[j], unmatched[l])
          /\ \A k \in DOMAIN sets : ~Fits(unmatched[j], sets[k])
    BY DEF SeasonalInv, AloneOK
  <2>4. ASSUME NEW j \in DOMAIN unmatched' PROVE \E a \in DOMAIN unmatched \ {i} : unmatched'[j] = unmatched[a]
    <3>1. j \in 1 .. Len(unmatched) - 1 /\ i \in 1 .. Len(unmatched)
      BY <1>1, <1>3, <1>5, <2>4
    <3>2. CASE j < i
      BY <1>3, <1>5, <3>1, <3>2
    <3>3. CASE ~(j < i)
      <4>1. j + 1 \in DOMAIN unmatched \ {i} /\ unmatched'[j] = unmatched[j + 1]
        BY <1>3, <1>5, <3>1, <3>3
      <4> QED
        BY <4>1
    <3> QED
      BY <3>2, <3>3
  <2>5. ASSUME NEW a \in DOMAIN unmatched \ {i} PROVE ~Fits(unmatched[a], new)
    <3>1. unmatched[a] \in Scanned /\ ~Pairs(unmatched[a], q)
      BY <1>1, <2>3, <2>5, NextOK DEF q
    <3>2. Fits(unmatched[a], new) => Pairs(unmatched[a], q)
      <4>1. Range(<<q>>) \subseteq Range(<<q, p>>)
        <5>1. Range(<<q>>) = {q}
          BY DEF Range
        <5> QED
          BY <1>7, <5>1
      <4>2. WindowFits(unmatched[a], <<q, p>>) => WindowFits(unmatched[a], <<q>>)
        BY <4>1 DEF WindowFits
      <4> QED
        BY <1>7, <1>8, <4>2 DEF Fits, Pairs
    <3> QED
      BY <3>1, <3>2
  <2>6. ASSUME NEW j \in DOMAIN unmatched', NEW l \in DOMAIN unmatched' \ {j}
        PROVE  ~Pairs(unmatched'[j], unmatched'[l])
    <3>1. PICK a \in DOMAIN unmatched \ {i} : unmatched'[j] = unmatched[a]
      BY <2>4
    <3>2. PICK b \in DOMAIN unmatched \ {i} : unmatched'[l] = unmatched[b]
      BY <2>4, <2>6
    <3>3. a # b
      BY <1>5, <2>6, <3>1, <3>2 DEF IsInjective
    <3> QED
      BY <2>3, <3>1, <3>2, <3>3
  <2>7. ASSUME NEW j \in DOMAIN unmatched', NEW k \in DOMAIN sets'
        PROVE  ~Fits(unmatched'[j], sets'[k])
    <3>1. PICK a \in DOMAIN unmatched \ {i} : unmatched'[j] = unmatched[a]
      BY <2>4
    <3> QED
      BY <1>3, <1>11, <2>3, <2>5, <3>1
  <2> QED
    BY <2>1, <2>2, <2>6, <2>7 DEF AloneOK
<1>13. EachInOnePlace'
  <2>1. (UNION {Members(sets'[k]) : k \in DOMAIN sets'}) = (UNION {Members(sets[k]) : k \in DOMAIN sets}) \cup {q, p}
    <3>1. \A x : (\E k \in DOMAIN sets' : x \in Members(sets'[k]))
                   <=> (\E k \in DOMAIN sets : x \in Members(sets[k])) \/ x \in {q, p}
      <4> SUFFICES ASSUME NEW x
                   PROVE  (\E k \in DOMAIN sets' : x \in Members(sets'[k]))
                            <=> (\E k \in DOMAIN sets : x \in Members(sets[k])) \/ x \in {q, p}
        OBVIOUS
      <4>1. ASSUME NEW k \in DOMAIN sets', x \in Members(sets'[k])
            PROVE  (\E j \in DOMAIN sets : x \in Members(sets[j])) \/ x \in {q, p}
        BY <1>3, <1>8, <1>11, <4>1
      <4>2. ASSUME NEW k \in DOMAIN sets, x \in Members(sets[k])
            PROVE  \E j \in DOMAIN sets' : x \in Members(sets'[j])
        <5>1. k \in DOMAIN sets' /\ sets'[k] = sets[k]
          BY <1>3, <1>9
        <5> QED
          BY <4>2, <5>1
      <4>3. x \in {q, p} => \E j \in DOMAIN sets' : x \in Members(sets'[j])
        <5>1. n + 1 \in DOMAIN sets'
          BY <1>3, <1>9
        <5> QED
          BY <1>8, <1>9, <5>1
      <4> QED
        BY <4>1, <4>2, <4>3
    <3> QED
      BY <3>1
  <2>2. (UNION {Members(sets'[k]) : k \in DOMAIN sets'}) \cup Range(waiting') \cup Range(unmatched') = Candidates'
    <3>1. Candidates' = Candidates
      BY <1>2 DEF Candidates
    <3> QED
      BY <1>1, <1>4, <1>5, <2>1, <3>1
  <2>3. Range(waiting') \cap Range(unmatched') = {}
    BY <1>4, <1>5
  <2>4. \A k \in 1 .. n : p \notin Members(sets[k]) /\ q \notin Members(sets[k])
    BY <1>1, <1>3, <1>4
  <2>5. ASSUME NEW k \in DOMAIN sets'
        PROVE  /\ IsInjective(sets'[k].members)
               /\ Members(sets'[k]) \cap (Range(waiting') \cup Range(unmatched')) = {}
               /\ \A l \in DOMAIN sets' \ {k} : Members(sets'[k]) \cap Members(sets'[l]) = {}
               /\ Len(sets'[k].members) \in 2 .. MaxSetMembers
               /\ \A r, t \in Members(sets'[k]) : Group[r] = Group[t]
               /\ sets'[k].confidence = 0 => WindowsLookSeasonal(Members(sets[k]))'
    <3>1. IsInjective(sets'[k].members)
      BY <1>3, <1>4, <1>7, <1>8, <1>11
    <3>2. Members(sets'[k]) \cap (Range(waiting') \cup Range(unmatched')) = {}
      <4>1. CASE k \in 1 .. n /\ sets'[k] = sets[k]
        BY <1>3, <1>4, <1>5, <4>1
      <4>2. CASE k = n + 1 /\ sets'[k] = new
        BY <1>1, <1>4, <1>5, <1>8, <4>2
      <4> QED
        BY <1>11, <4>1, <4>2
    <3>3. ASSUME NEW l \in DOMAIN sets' \ {k}
          PROVE  Members(sets'[k]) \cap Members(sets'[l]) = {}
      <4>1. CASE k \in 1 .. n /\ l \in 1 .. n
        BY <1>3, <1>4, <1>9, <3>3, <4>1
      <4>2. CASE k \in 1 .. n /\ l = n + 1
        BY <1>8, <1>9, <2>4, <4>2
      <4>3. CASE k = n + 1 /\ l \in 1 .. n
        BY <1>8, <1>9, <2>4, <4>3
      <4> QED
        BY <1>3, <1>9, <2>5, <3>3, <4>1, <4>2, <4>3
    <3>4. Len(sets'[k].members) \in 2 .. MaxSetMembers
      <4>1. 2 \in 2 .. MaxSetMembers
        BY DEF SeasonalAssumption
      <4>2. CASE k \in 1 .. n /\ sets'[k] = sets[k]
        BY <1>3, <1>4, <4>2
      <4>3. CASE k = n + 1 /\ sets'[k] = new
        BY <1>8, <4>1, <4>3
      <4> QED
        BY <1>11, <4>2, <4>3
    <3>5. \A r, t \in Members(sets'[k]) : Group[r] = Group[t]
      <4>1. CASE k \in 1 .. n /\ sets'[k] = sets[k]
        BY <1>3, <1>4, <4>1
      <4>2. CASE k = n + 1 /\ sets'[k] = new
        BY <1>6, <1>8, <4>2
      <4> QED
        BY <1>11, <4>1, <4>2
    <3>6. sets'[k].confidence = 0 => WindowsLookSeasonal(Members(sets[k]))'
      BY <1>2, <1>3, <1>4, <1>8, <1>11 DEF WindowsLookSeasonal
    <3> QED
      BY <3>1, <3>2, <3>3, <3>4, <3>5, <3>6
  <2> QED
    BY <1>5, <2>2, <2>3, <2>5 DEF EachInOnePlace
<1> QED
  BY <1>10, <1>12, <1>13 DEF SeasonalInv

\* A prop is left alone only if nothing fits.
LEMMA AppendKeeps ==
  ASSUME SeasonalAssumption, SeasonalInv, pass = "rescue", waiting # <<>>,
         \A k \in DOMAIN unmatched : ~Pairs(Head(waiting), unmatched[k]),
         \A k \in DOMAIN sets : ~Fits(Head(waiting), sets[k]),
         unmatched' = Append(unmatched, Head(waiting)), waiting' = Tail(waiting),
         UNCHANGED <<windowOf, pass, sets>>
  PROVE  SeasonalInv'
<1> DEFINE p == Head(waiting)
           n == Len(unmatched)
<1>1. p \in Scanned /\ p \in Range(waiting)
  BY NextOK
<1>2. /\ (UNION {Members(sets[k]) : k \in DOMAIN sets}) \cup Range(waiting) \cup Range(unmatched) = Candidates
      /\ IsInjective(waiting) /\ IsInjective(unmatched) /\ Range(waiting) \cap Range(unmatched) = {}
      /\ \A k \in DOMAIN sets :
           /\ IsInjective(sets[k].members)
           /\ Members(sets[k]) \cap (Range(waiting) \cup Range(unmatched)) = {}
           /\ \A l \in DOMAIN sets \ {k} : Members(sets[k]) \cap Members(sets[l]) = {}
           /\ Len(sets[k].members) \in 2 .. MaxSetMembers
           /\ \A r, t \in Members(sets[k]) : Group[r] = Group[t]
           /\ sets[k].confidence = 0 => WindowsLookSeasonal(Members(sets[k]))
  BY DEF SeasonalInv, EachInOnePlace
<1>3. unmatched \in Seq(Scanned) /\ DOMAIN unmatched = 1 .. n /\ n \in Nat
  BY LenProperties DEF SeasonalInv, SetsOK
<1>4. /\ Range(waiting') = Range(waiting) \ {p} /\ IsInjective(waiting') /\ waiting' \in Seq(Scanned)
  BY NextOK
<1> HIDE DEF p
<1>5. Range(unmatched') = Range(unmatched) \cup {p} /\ IsInjective(unmatched')
  BY <1>1, <1>2, <1>3, AppendOnce DEF p
<1>6. /\ unmatched' \in Seq(Scanned) /\ DOMAIN unmatched' = 1 .. n + 1
      /\ \A k \in 1 .. n : unmatched'[k] = unmatched[k]
      /\ unmatched'[n + 1] = p
  <2>1. /\ unmatched' \in Seq(Scanned) /\ Len(unmatched') = n + 1 /\ unmatched'[n + 1] = p
        /\ \A k \in 1 .. n : unmatched'[k] = unmatched[k]
    BY <1>1, <1>3, AppendProperties DEF p
  <2> QED
    BY <2>1, LenProperties
<1> HIDE DEF n
<1>7. SetsOK'
  BY <1>4, <1>6 DEF SeasonalInv, SetsOK
<1>8. AloneOK'
  <2>1. \A u, t : Pairs(u, t)' <=> Pairs(u, t)
    BY DEF Pairs, NameMatches, WindowFits, OverlapDays
  <2>2. \A u, set : Fits(u, set)' <=> Fits(u, set)
    BY DEF Fits, NameMatches, WindowFits, OverlapDays
  <2>3. \A j \in 1 .. n :
          /\ \A l \in 1 .. n : l # j => ~Pairs(unmatched[j], unmatched[l])
          /\ \A k \in DOMAIN sets : ~Fits(unmatched[j], sets[k])
    BY <1>3 DEF SeasonalInv, AloneOK
  <2>4. \A j \in 1 .. n : ~Pairs(unmatched[j], p) /\ ~Pairs(p, unmatched[j])
    BY <1>1, <1>3, NextOK, PairsBothWays DEF p
  <2>5. \A k \in DOMAIN sets : ~Fits(p, sets[k])
    BY DEF p
  <2>6. \A j \in DOMAIN unmatched' : (j \in 1 .. n /\ unmatched'[j] = unmatched[j]) \/ (j = n + 1 /\ unmatched'[j] = p)
    BY <1>3, <1>6
  <2>7. ASSUME NEW j \in DOMAIN unmatched', NEW l \in DOMAIN unmatched' \ {j}
        PROVE  ~Pairs(unmatched'[j], unmatched'[l])
    BY <2>3, <2>4, <2>6, <2>7
  <2>8. ASSUME NEW j \in DOMAIN unmatched', NEW k \in DOMAIN sets
        PROVE  ~Fits(unmatched'[j], sets[k])
    BY <2>3, <2>5, <2>6
  <2> QED
    BY <2>1, <2>2, <2>7, <2>8 DEF AloneOK
<1>9. EachInOnePlace'
  <2>1. Candidates' = Candidates
    BY DEF Candidates
  <2>2. (UNION {Members(sets'[k]) : k \in DOMAIN sets'}) \cup Range(waiting') \cup Range(unmatched') = Candidates'
    BY <1>1, <1>2, <1>4, <1>5, <2>1
  <2>3. Range(waiting') \cap Range(unmatched') = {}
    BY <1>2, <1>4, <1>5
  <2>4. \A k \in DOMAIN sets : Members(sets[k]) \cap (Range(waiting') \cup Range(unmatched')) = {}
    BY <1>1, <1>2, <1>4, <1>5
  <2>5. \A k \in DOMAIN sets : sets[k].confidence = 0 => WindowsLookSeasonal(Members(sets[k]))'
    BY <1>2 DEF WindowsLookSeasonal
  <2> QED
    BY <1>2, <1>4, <1>5, <2>2, <2>3, <2>4, <2>5 DEF EachInOnePlace
<1> QED
  BY <1>7, <1>8, <1>9 DEF SeasonalInv

\* One step of the second pass.
LEMMA RescueKeeps ==
  ASSUME SeasonalAssumption, SeasonalInv, Rescue
  PROVE  SeasonalInv'
<1> DEFINE p == Head(waiting)
           open == {k \in DOMAIN sets : Fits(p, sets[k])}
           alone == {k \in DOMAIN unmatched : Pairs(p, unmatched[k])}
<1>1. pass = "rescue" /\ waiting # <<>> /\ waiting' = Tail(waiting) /\ UNCHANGED <<windowOf, pass>>
  BY DEF Rescue
<1>2. CASE open # {} /\ Join(p, open)
  BY <1>1, <1>2, JoinKeeps
<1>3. CASE open = {} /\ alone # {} /\ Pair(p, alone)
  BY <1>1, <1>3, PairKeeps
<1>4. CASE open = {} /\ alone = {} /\ unmatched' = Append(unmatched, p) /\ UNCHANGED sets
  <2>1. \A k \in DOMAIN sets : ~Fits(p, sets[k])
    BY <1>4
  <2>2. \A k \in DOMAIN unmatched : ~Pairs(p, unmatched[k])
    BY <1>4
  <2> QED
    BY <1>1, <1>4, <2>1, <2>2, AppendKeeps
<1> QED
  BY <1>2, <1>3, <1>4 DEF Rescue

-----------------------------------------------------------------------------
(* The end.                                                                *)

\* The members of a set, in the order of their seasons: the same, each once.
LEMMA InSeasonOK ==
  ASSUME SeasonalAssumption, SetsOK, NEW ms \in Seq(Scanned), IsInjective(ms),
         Range(ms) \in SUBSET Candidates, \A p, q \in Range(ms) : Group[p] = Group[q]
  PROVE  /\ InSeason(Range(ms)) \in Seq(Scanned) /\ IsInjective(InSeason(Range(ms)))
         /\ Range(InSeason(Range(ms))) = Range(ms) /\ Len(InSeason(Range(ms))) = Len(ms)
<1> DEFINE ps == Range(ms)
           before(p, q) ==
             \/ windowOf[p].start < windowOf[q].start
             \/ windowOf[p].start = windowOf[q].start /\ Instance[p] < Instance[q]
           R == {pq \in ps \X ps : before(pq[1], pq[2])}
<1>1. IsFiniteSet(ps) /\ Cardinality(ps) = Len(ms)
  BY OnceCounted
<1>2. ps \in SUBSET Scanned /\ \A p \in ps : windowOf[p].start \in Int /\ Instance[p] \in Int
  BY CandidatesOK DEF SeasonalAssumption
<1>3. \A p, q \in ps : Group[p] = Group[q]
  OBVIOUS
<1>4. \A p, q \in ps : p # q => Instance[p] # Instance[q]
  BY <1>2, <1>3 DEF SeasonalAssumption
<1>5. InSeason(ps) = Sorted(ps, R)
  BY DEF InSeason
<1> HIDE DEF ps
<1>6. StrictlyOrders(R, ps)
  <2>1. \A p, q \in ps : <<p, q>> \in R <=> before(p, q)
    OBVIOUS
  <2>2. \A p \in ps : ~before(p, p)
    BY <1>2
  <2>3. \A p, q \in ps : p # q => before(p, q) \/ before(q, p)
    BY <1>2, <1>4
  <2>4. \A p, q, r \in ps : before(p, q) /\ before(q, r) => before(p, r)
    BY <1>2
  <2> HIDE DEF R, before
  <2> QED
    BY <2>1, <2>2, <2>3, <2>4 DEF StrictlyOrders
<1> HIDE DEF R
<1>7. /\ Sorted(ps, R) \in Seq(ps) /\ Len(Sorted(ps, R)) = Cardinality(ps)
      /\ Range(Sorted(ps, R)) = ps /\ IsInjective(Sorted(ps, R))
      /\ Sorted(ps, R) \in [1 .. Cardinality(ps) -> ps] /\ Cardinality(ps) \in Nat
  BY <1>1, <1>6, SortedOK, SortedOnce
<1>8. Sorted(ps, R) \in Seq(Scanned)
  <2>1. Sorted(ps, R) \in [1 .. Cardinality(ps) -> Scanned]
    BY <1>2, <1>7
  <2> QED
    BY <1>7, <2>1, SeqDef
<1> QED
  BY <1>1, <1>5, <1>7, <1>8 DEF ps

\* Sorting its members leaves a set the set it was.
LEMMA FinishKeeps ==
  ASSUME SeasonalAssumption, SeasonalInv, Finish
  PROVE  SeasonalInv'
<1>1. /\ pass = "rescue" /\ waiting = <<>> /\ pass' = "done" /\ UNCHANGED <<windowOf, waiting, unmatched>>
      /\ sets' = [k \in DOMAIN sets |-> [members |-> InSeason(Range(sets[k].members)),
                                         confidence |-> sets[k].confidence]]
  BY DEF Finish
<1>2. /\ (UNION {Members(sets[k]) : k \in DOMAIN sets}) \cup Range(waiting) \cup Range(unmatched) = Candidates
      /\ IsInjective(waiting) /\ IsInjective(unmatched) /\ Range(waiting) \cap Range(unmatched) = {}
      /\ \A k \in DOMAIN sets :
           /\ IsInjective(sets[k].members)
           /\ Members(sets[k]) \cap (Range(waiting) \cup Range(unmatched)) = {}
           /\ \A l \in DOMAIN sets \ {k} : Members(sets[k]) \cap Members(sets[l]) = {}
           /\ Len(sets[k].members) \in 2 .. MaxSetMembers
           /\ \A r, t \in Members(sets[k]) : Group[r] = Group[t]
           /\ sets[k].confidence = 0 => WindowsLookSeasonal(Members(sets[k]))
  BY <1>1 DEF SeasonalInv, EachInOnePlace
<1>3. /\ DOMAIN sets' = DOMAIN sets
      /\ \A k \in DOMAIN sets : sets'[k].members = InSeason(Range(sets[k].members))
                                /\ sets'[k].confidence = sets[k].confidence
      /\ \A k \in DOMAIN sets : sets'[k] = [members |-> InSeason(Range(sets[k].members)),
                                            confidence |-> sets[k].confidence]
  BY <1>1
<1>4. ASSUME NEW k \in DOMAIN sets
      PROVE  /\ sets'[k] \in SetOf /\ IsInjective(sets'[k].members)
             /\ Members(sets'[k]) = Members(sets[k])
             /\ Len(sets'[k].members) = Len(sets[k].members)
  <2>1. sets[k] \in SetOf /\ sets[k].members \in Seq(Scanned) /\ IsInjective(sets[k].members)
    BY <1>1, <1>2, NextOK
  <2>2. Range(sets[k].members) \in SUBSET Candidates
    BY <1>2 DEF Members
  <2>3. \A p, q \in Range(sets[k].members) : Group[p] = Group[q]
    BY <1>2 DEF Members
  <2>4. SetsOK
    BY DEF SeasonalInv
  <2>5. sets[k].confidence \in {0, 1}
    BY <2>1 DEF SetOf
  <2> DEFINE ms == sets[k].members
  <2>6. ms \in Seq(Scanned) /\ IsInjective(ms) /\ Range(ms) \in SUBSET Candidates
        /\ \A p, q \in Range(ms) : Group[p] = Group[q]
    BY <2>1, <2>2, <2>3
  <2> HIDE DEF ms
  <2>7. /\ InSeason(Range(ms)) \in Seq(Scanned) /\ IsInjective(InSeason(Range(ms)))
        /\ Range(InSeason(Range(ms))) = Range(ms) /\ Len(InSeason(Range(ms))) = Len(ms)
    BY <2>4, <2>6, InSeasonOK
  <2> QED
    BY <1>3, <2>5, <2>7 DEF ms, SetOf, Members
<1>5. SetsOK'
  <2>1. DOMAIN sets = 1 .. Len(sets) /\ Len(sets) \in Nat
    BY <1>1, NextOK
  <2>2. sets' \in [1 .. Len(sets) -> SetOf]
    BY <1>1, <1>4, <2>1
  <2>3. sets' \in Seq(SetOf)
    BY <2>1, <2>2, SeqDef
  <2> QED
    BY <1>1, <2>3 DEF SeasonalInv, SetsOK
<1>6. AloneOK'
  BY <1>1 DEF AloneOK
<1>7. EachInOnePlace'
  <2>1. Candidates' = Candidates
    BY <1>1 DEF Candidates
  <2>2. UNION {Members(sets'[k]) : k \in DOMAIN sets'} = UNION {Members(sets[k]) : k \in DOMAIN sets}
    BY <1>3, <1>4
  <2>3. (UNION {Members(sets'[k]) : k \in DOMAIN sets'}) \cup Range(waiting') \cup Range(unmatched') = Candidates'
    BY <1>1, <1>2, <2>1, <2>2
  <2>4. ASSUME NEW k \in DOMAIN sets'
        PROVE  /\ IsInjective(sets'[k].members)
               /\ Members(sets'[k]) \cap (Range(waiting') \cup Range(unmatched')) = {}
               /\ \A l \in DOMAIN sets' \ {k} : Members(sets'[k]) \cap Members(sets'[l]) = {}
               /\ Len(sets'[k].members) \in 2 .. MaxSetMembers
               /\ \A r, t \in Members(sets'[k]) : Group[r] = Group[t]
               /\ sets'[k].confidence = 0 => WindowsLookSeasonal(Members(sets[k]))'
    <3>1. k \in DOMAIN sets
      BY <1>3
    <3>2. /\ IsInjective(sets'[k].members) /\ Members(sets'[k]) = Members(sets[k])
          /\ Len(sets'[k].members) = Len(sets[k].members)
      BY <1>4, <3>1
    <3>3. \A l \in DOMAIN sets' \ {k} : Members(sets'[k]) \cap Members(sets'[l]) = {}
      BY <1>2, <1>3, <1>4, <3>1, <3>2
    <3>4. \A r, t \in Members(sets'[k]) : Group[r] = Group[t]
      BY <1>2, <3>1, <3>2
    <3>5. sets'[k].confidence = 0 => WindowsLookSeasonal(Members(sets[k]))'
      <4>1. WindowsLookSeasonal(Members(sets[k]))' <=> WindowsLookSeasonal(Members(sets[k]))
        BY <1>1, <3>2 DEF WindowsLookSeasonal
      <4> QED
        BY <1>2, <1>3, <3>1, <4>1
    <3> QED
      BY <1>1, <1>2, <3>1, <3>2, <3>3, <3>4, <3>5
  <2> QED
    BY <1>1, <1>2, <2>3, <2>4 DEF EachInOnePlace
<1> QED
  BY <1>5, <1>6, <1>7 DEF SeasonalInv

-----------------------------------------------------------------------------

\* Before the passes nothing is in any place.
LEMMA SeasonalStart ==
  ASSUME SeasonalAssumption, SeasonalInit
  PROVE  SeasonalInv
<1>1. <<>> \in Seq(SetOf) /\ <<>> \in Seq(Scanned) /\ DOMAIN <<>> = {}
  BY EmptySeq, LenProperties
<1> QED
  BY <1>1 DEF SeasonalInit, SeasonalInv, SetsOK, EachInOnePlace, AloneOK

\* The invariant is about the variables of the detection.
LEMMA SeasonalStutters ==
  ASSUME SeasonalInv, UNCHANGED seasonalVars
  PROVE  SeasonalInv'
<1>1. UNCHANGED <<windowOf, pass, sets, waiting, unmatched>>
  BY DEF seasonalVars
<1>2. \A u, t : Pairs(u, t)' <=> Pairs(u, t)
  BY <1>1 DEF Pairs, NameMatches, WindowFits, OverlapDays
<1>3. \A u, set : Fits(u, set)' <=> Fits(u, set)
  BY <1>1 DEF Fits, NameMatches, WindowFits, OverlapDays
<1>4. \A ps : WindowsLookSeasonal(ps)' <=> WindowsLookSeasonal(ps)
  BY <1>1 DEF WindowsLookSeasonal
<1>5. Candidates' = Candidates
  BY <1>1 DEF Candidates
<1>6. SetsOK' /\ AloneOK'
  BY <1>1, <1>2, <1>3 DEF SeasonalInv, SetsOK, AloneOK
<1>7. EachInOnePlace'
  BY <1>1, <1>4, <1>5 DEF SeasonalInv, EachInOnePlace
<1> QED
  BY <1>6, <1>7 DEF SeasonalInv

\* Every pass keeps the invariant.
LEMMA SeasonalKeeps ==
  ASSUME SeasonalAssumption, SeasonalInv, SeasonalNext
  PROVE  SeasonalInv'
BY ClusterKeeps, RescueKeeps, FinishKeeps DEF SeasonalNext

\* Nothing fits, because nothing that was left alone ever fits again.
LEMMA NothingFits ==
  ASSUME SeasonalAssumption, SeasonalInv
  PROVE  NothingLeftThatFits
<1> SUFFICES ASSUME pass = "rescue", waiting = <<>>, NEW p \in Range(unmatched)
             PROVE  /\ \A q \in Range(unmatched) \ {p} : ~Pairs(p, q)
                    /\ \A k \in DOMAIN sets : ~Fits(p, sets[k])
  BY DEF NothingLeftThatFits
<1>1. PICK i \in DOMAIN unmatched : unmatched[i] = p
  BY DEF Range
<1>2. \A j \in DOMAIN unmatched \ {i} : ~Pairs(p, unmatched[j])
  BY <1>1 DEF SeasonalInv, AloneOK
<1>3. \A q \in Range(unmatched) \ {p} : \E j \in DOMAIN unmatched \ {i} : unmatched[j] = q
  BY <1>1 DEF Range
<1>4. \A k \in DOMAIN sets : ~Fits(p, sets[k])
  BY <1>1 DEF SeasonalInv, AloneOK
<1> QED
  BY <1>2, <1>3, <1>4

\* The invariant of the detection.
THEOREM SeasonalAlways ==
  ASSUME SeasonalAssumption
  PROVE  SeasonalSpec => []SeasonalInv
<1>1. SeasonalInit => SeasonalInv
  BY SeasonalStart
<1>2. SeasonalInv /\ [SeasonalNext]_seasonalVars => SeasonalInv'
  BY SeasonalKeeps, SeasonalStutters
<1> QED
  BY <1>1, <1>2, PTL DEF SeasonalSpec

-----------------------------------------------------------------------------
(* The table of props (PropsTable).                                        *)

SortSpec == [column : {"name", "size"}, descending : BOOLEAN]

\* A comparison of the table.
LEMMA BeforeOrders ==
  ASSUME PropsTableAssumption, NEW specs \in Seq(SortSpec)
  PROVE  StrictlyOrders({pq \in Props \X Props : Before(specs, pq[1], pq[2])}, Props)
<1> DEFINE all == NameLast(specs)
           n == Len(all)
           d(a, b) == Differ(all, a, b)
           less(a, b, k) == (ValueOf(a, all[k]) < ValueOf(b, all[k])) # all[k].descending
<1>1. n \in Nat /\ DOMAIN all = 1 .. n /\ \A k \in 1 .. n : all[k].descending \in BOOLEAN
  <2>1. [column |-> "name", descending |-> FALSE] \in SortSpec
    BY DEF SortSpec
  <2>2. all \in Seq(SortSpec)
    BY <2>1, AppendProperties DEF NameLast
  <2>3. n \in Nat /\ DOMAIN all = 1 .. n /\ \A k \in 1 .. n : all[k] \in SortSpec
    BY <2>2, LenProperties, ElementOfSeq
  <2> QED
    BY <2>3 DEF SortSpec
<1> HIDE DEF all
<1>2. \A p \in Props, k \in 1 .. n : ValueOf(p, all[k]) \in Int
  BY DEF ValueOf, PropsTableAssumption
<1>3. ASSUME NEW a \in Props, NEW b \in Props, d(a, b) # {}
      PROVE  /\ Min(d(a, b)) \in d(a, b) /\ Min(d(a, b)) \in 1 .. n
             /\ \A k \in d(a, b) : Min(d(a, b)) <= k
  <2> DEFINE I == d(a, b)
  <2>1. I \in SUBSET (1 .. n) /\ IsFiniteSet(1 .. n)
    BY <1>1, FiniteUpTo DEF Differ
  <2> HIDE DEF I
  <2>2. IsFiniteSet(I) /\ I \in SUBSET Int
    <3>1. \A k \in I : k \in Int
      BY <2>1
    <3> QED
      BY <2>1, <3>1, FS_Subset
  <2>3. I # {}
    BY <1>3 DEF I
  <2>4. \E k \in I : \A j \in I : k <= j
    BY <2>2, <2>3, LeastAndGreatest
  <2>5. Min(I) \in I /\ \A k \in I : Min(I) <= k
    BY <2>4 DEF Min
  <2> QED
    BY <2>1, <2>5 DEF I
<1>4. \A a, b \in Props : Before(specs, a, b) <=>
        IF d(a, b) = {} THEN Key[a] < Key[b] ELSE less(a, b, Min(d(a, b)))
  BY DEF Before, all
<1>5. \A a, b \in Props, k \in 1 .. n : k \in d(a, b) <=> ValueOf(a, all[k]) # ValueOf(b, all[k])
  BY <1>1 DEF Differ
<1>6. \A a, b \in Props : d(a, b) = d(b, a) /\ d(a, a) = {}
  BY DEF Differ
<1>7. \A a \in Props : Key[a] \in Int /\ \A b \in Props : Key[a] = Key[b] => a = b
  BY DEF PropsTableAssumption, IsInjective
<1> HIDE DEF less, d
<1>8. \A a, b \in Props, k \in 1 .. n : less(a, b, k) <=>
        IF all[k].descending THEN ~(ValueOf(a, all[k]) < ValueOf(b, all[k]))
                             ELSE ValueOf(a, all[k]) < ValueOf(b, all[k])
  BY <1>1 DEF less
<1>9. ASSUME NEW a \in Props PROVE ~Before(specs, a, a)
  BY <1>4, <1>6, <1>7
<1>10. ASSUME NEW a \in Props, NEW b \in Props, a # b
       PROVE  Before(specs, a, b) \/ Before(specs, b, a)
  <2>1. CASE d(a, b) = {}
    BY <1>4, <1>6, <1>7, <1>10, <2>1
  <2>2. CASE d(a, b) # {}
    <3>1. PICK k \in 1 .. n : k = Min(d(a, b)) /\ k \in d(a, b)
      BY <1>3, <2>2
    <3>2. ValueOf(a, all[k]) # ValueOf(b, all[k])
      BY <1>5, <3>1
    <3>3. less(a, b, k) \/ less(b, a, k)
      BY <1>2, <1>8, <3>2
    <3> QED
      BY <1>4, <1>6, <2>2, <3>1, <3>3
  <2> QED
    BY <2>1, <2>2
<1>11. ASSUME NEW a \in Props, NEW b \in Props, NEW c \in Props,
              Before(specs, a, b), Before(specs, b, c)
       PROVE  Before(specs, a, c)
  <2>1. CASE d(a, b) = {} /\ d(b, c) = {}
    <3>1. \A k \in 1 .. n : k \notin d(a, c)
      BY <1>5, <2>1
    <3>2. d(a, c) \subseteq 1 .. n
      BY <1>1 DEF d, Differ
    <3>3. d(a, c) = {}
      BY <3>1, <3>2
    <3> QED
      BY <1>4, <1>7, <1>11, <2>1, <3>3
  <2>2. ASSUME NEW k \in 1 .. n, less(a, c, k), ValueOf(a, all[k]) # ValueOf(c, all[k]),
               \A j \in 1 .. n : j < k => ValueOf(a, all[j]) = ValueOf(c, all[j])
        PROVE  Before(specs, a, c)
    <3>1. k \in d(a, c)
      BY <1>5, <2>2
    <3>2. Min(d(a, c)) \in d(a, c) /\ Min(d(a, c)) \in 1 .. n /\ Min(d(a, c)) <= k
      BY <1>3, <3>1
    <3>3. ~(Min(d(a, c)) < k)
      BY <1>5, <2>2, <3>2
    <3>4. Min(d(a, c)) = k
      BY <3>2, <3>3
    <3> QED
      BY <1>4, <2>2, <3>1, <3>4
  <2>3. ASSUME NEW x \in Props, NEW y \in Props, d(x, y) # {}, Before(specs, x, y)
        PROVE  \E k \in 1 .. n :
                 /\ less(x, y, k) /\ ValueOf(x, all[k]) # ValueOf(y, all[k])
                 /\ \A j \in 1 .. n : j < k => ValueOf(x, all[j]) = ValueOf(y, all[j])
    <3>1. PICK k \in 1 .. n : k = Min(d(x, y)) /\ k \in d(x, y) /\ \A j \in d(x, y) : k <= j
      BY <1>3, <2>3
    <3>2. \A j \in 1 .. n : j < k => j \notin d(x, y)
      BY <3>1
    <3>3. \A j \in 1 .. n : j < k => ValueOf(x, all[j]) = ValueOf(y, all[j])
      BY <1>5, <3>2
    <3> QED
      BY <1>4, <1>5, <2>3, <3>1, <3>3
  <2>4. ASSUME NEW x \in Props, NEW y \in Props, d(x, y) = {}
        PROVE  \A j \in 1 .. n : ValueOf(x, all[j]) = ValueOf(y, all[j])
    BY <1>5, <2>4
  <2>5. CASE d(a, b) # {} /\ d(b, c) = {}
    <3>1. PICK k \in 1 .. n :
                 /\ less(a, b, k) /\ ValueOf(a, all[k]) # ValueOf(b, all[k])
                 /\ \A j \in 1 .. n : j < k => ValueOf(a, all[j]) = ValueOf(b, all[j])
      BY <1>11, <2>3, <2>5
    <3> QED
      BY <1>8, <2>2, <2>4, <2>5, <3>1
  <2>6. CASE d(a, b) = {} /\ d(b, c) # {}
    <3>1. PICK k \in 1 .. n :
                 /\ less(b, c, k) /\ ValueOf(b, all[k]) # ValueOf(c, all[k])
                 /\ \A j \in 1 .. n : j < k => ValueOf(b, all[j]) = ValueOf(c, all[j])
      BY <1>11, <2>3, <2>6
    <3> QED
      BY <1>8, <2>2, <2>4, <2>6, <3>1
  <2>7. CASE d(a, b) # {} /\ d(b, c) # {}
    <3>1. PICK i \in 1 .. n :
                 /\ less(a, b, i) /\ ValueOf(a, all[i]) # ValueOf(b, all[i])
                 /\ \A j \in 1 .. n : j < i => ValueOf(a, all[j]) = ValueOf(b, all[j])
      BY <1>11, <2>3, <2>7
    <3>2. PICK k \in 1 .. n :
                 /\ less(b, c, k) /\ ValueOf(b, all[k]) # ValueOf(c, all[k])
                 /\ \A j \in 1 .. n : j < k => ValueOf(b, all[j]) = ValueOf(c, all[j])
      BY <1>11, <2>3, <2>7
    <3>3. CASE i < k
      <4>1. ValueOf(b, all[i]) = ValueOf(c, all[i])
        BY <3>2, <3>3
      <4>2. less(a, c, i)
        BY <1>8, <3>1, <4>1
      <4>3. \A j \in 1 .. n : j < i => ValueOf(a, all[j]) = ValueOf(c, all[j])
        BY <3>1, <3>2, <3>3
      <4> QED
        BY <2>2, <3>1, <4>1, <4>2, <4>3
    <3>4. CASE k < i
      <4>1. ValueOf(a, all[k]) = ValueOf(b, all[k])
        BY <3>1, <3>4
      <4>2. less(a, c, k)
        BY <1>8, <3>2, <4>1
      <4>3. \A j \in 1 .. n : j < k => ValueOf(a, all[j]) = ValueOf(c, all[j])
        BY <3>1, <3>2, <3>4
      <4> QED
        BY <2>2, <3>2, <4>1, <4>2, <4>3
    <3>5. CASE i = k
      <4>1. less(a, c, i) /\ ValueOf(a, all[i]) # ValueOf(c, all[i])
        BY <1>2, <1>8, <3>1, <3>2, <3>5
      <4>2. \A j \in 1 .. n : j < i => ValueOf(a, all[j]) = ValueOf(c, all[j])
        BY <3>1, <3>2, <3>5
      <4> QED
        BY <2>2, <4>1, <4>2
    <3> QED
      BY <3>3, <3>4, <3>5
  <2> QED
    BY <2>1, <2>5, <2>6, <2>7
<1> QED
  BY <1>9, <1>10, <1>11 DEF StrictlyOrders

\* Every prop that passes is in the list that is built.
LEMMA BuiltHas ==
  ASSUME PropsTableAssumption, NEW specs \in Seq(SortSpec), NEW f, NEW p \in Props,
         Passes(p, f), ~f.favorites
  PROVE  p \in Range(Built(f, specs))
<1> DEFINE S == {q \in Props : Passes(q, f) /\ (f.favorites => q \in favoriteProps)}
           R == {pq \in Props \X Props : Before(specs, pq[1], pq[2])}
<1>1. IsFiniteSet(Props) /\ S \in SUBSET Props
  BY DEF PropsTableAssumption
<1>2. p \in S
  OBVIOUS
<1>3. StrictlyOrders(R, Props)
  BY BeforeOrders
<1>4. Built(f, specs) = Sorted(S, R)
  BY DEF Built
<1> HIDE DEF S, R
<1>5. IsFiniteSet(S) /\ StrictlyOrders(R, S)
  BY <1>1, <1>3, FS_Subset DEF StrictlyOrders
<1>6. Range(Sorted(S, R)) = S
  <2>1. /\ Sorted(S, R) \in [1 .. Cardinality(S) -> S]
        /\ \A x \in S : \E k \in 1 .. Cardinality(S) : Sorted(S, R)[k] = x
    BY <1>5, SortedOK
  <2> QED
    BY <2>1 DEF Range
<1> QED
  BY <1>2, <1>4, <1>6

SoughtOK ==
  sought # NoProp =>
    /\ sought \in Props /\ prop = sought /\ propFilter = ForLabel(sought)
    /\ (queued \/ propDialog) /\ (propDialog => ~dirty)

TableInv == TableIsCurrent /\ SoughtOK /\ order \in Seq(SortSpec)

\* Whatever makes the rows stale marks them so.
LEMMA TableKept ==
  ASSUME PropsTableAssumption, TableInv, [PropsTableNext]_propsTableVars
  PROVE  TableInv'
<1> USE DEF TableInv
<1>1. order' \in Seq(SortSpec)
  BY DEF PropsTableAssumption, SortSpec, PropsTableNext, propsTableVars, listed, SetPropFilters, SetPropFilter,
         SetOrder, TableFrame, SetPropStyle, LeavePropDialog, SwitchTab, StopPropPainting, Star, Paint, HandlePickedProp
<1>2. Ensured = Built(propFilter, order)
  BY DEF Ensured, TableIsCurrent
<1>3. TableIsCurrent'
  <2>1. CASE UNCHANGED listed
    BY <2>1 DEF listed, TableIsCurrent, Built
  <2>2. CASE SetPropFilters
    BY <2>2 DEF SetPropFilters, SetPropFilter, TableIsCurrent, Built
  <2>3. CASE dirty'
    BY <2>3 DEF TableIsCurrent
  <2>4. CASE UNCHANGED <<propFilter, order, favoriteProps>> /\ rows' = Ensured
    BY <1>2, <2>4 DEF TableIsCurrent, Built
  <2>5. ASSUME NEW p \in Props, Star(p), ~dirty' PROVE TableIsCurrent'
    <3>1. ~propFilter.favorites /\ UNCHANGED <<propFilter, order>> /\ rows' = Built(propFilter, order)
      BY <1>2, <2>5 DEF Star, TableDrawn
    <3> QED
      BY <3>1 DEF TableIsCurrent, Built
  <2> QED
    BY <2>1, <2>2, <2>3, <2>4, <2>5
       DEF PropsTableNext, propsTableVars, SetOrder, TableFrame, SetPropStyle, LeavePropDialog, SwitchTab,
           StopPropPainting, Paint, HandlePickedProp, TableDrawn
<1>4. SoughtOK'
  <2>1. CASE sought' = NoProp
    BY <2>1 DEF SoughtOK
  <2>2. CASE UNCHANGED <<sought, prop, propFilter, queued, propDialog, dirty>>
    BY <2>2 DEF SoughtOK, ForLabel
  <2>3. ASSUME NEW p \in Props, HandlePickedProp(p)
        PROVE  SoughtOK'
    BY <2>3 DEF SoughtOK, HandlePickedProp, ForLabel
  <2>4. CASE TableFrame
    BY <2>4 DEF SoughtOK, TableFrame, ForLabel
  <2> QED
    BY <2>1, <2>2, <2>3, <2>4
       DEF PropsTableNext, propsTableVars, listed, asked, SetPropFilters, SetPropFilter, SetOrder,
           SetPropStyle, LeavePropDialog, SwitchTab, StopPropPainting, Star, Paint, TableDrawn
<1> QED
  BY <1>1, <1>3, <1>4

\* The invariant of the table.
LEMMA TableAlways ==
  ASSUME PropsTableAssumption
  PROVE  PropsTableSpec => []TableInv
<1>1. PropsTableInit => TableInv
  BY EmptySeq DEF PropsTableInit, TableInv, TableIsCurrent, SoughtOK
<1>2. TableInv /\ [PropsTableNext]_propsTableVars => TableInv'
  BY TableKept
<1> QED
  BY <1>1, <1>2, PTL DEF PropsTableSpec

\* The rows on screen are those of the filters, the order and the stars of the moment.
THEOREM TableTheorem ==
  ASSUME PropsTableAssumption
  PROVE  PropsTableSpec => []TableIsCurrent
<1>1. TableInv => TableIsCurrent
  BY DEF TableInv
<1> QED
  BY <1>1, TableAlways, PTL

\* What was picked on the map is in the rows, whatever the filters were.
THEOREM FoundTheorem ==
  ASSUME PropsTableAssumption
  PROVE  PropsTableSpec => []PickedIsFound
<1>1. TableInv => PickedIsFound
  <2> SUFFICES ASSUME TableInv, sought # NoProp, propDialog, Label[sought] \in InName[sought],
                      SizeOf[sought] <= MaxSize
               PROVE  prop = sought /\ sought \in Range(rows)
    BY DEF PickedIsFound
  <2>1. /\ sought \in Props /\ prop = sought /\ propFilter = ForLabel(sought)
        /\ rows = Built(ForLabel(sought), order) /\ order \in Seq(SortSpec)
    BY DEF TableInv, SoughtOK, TableIsCurrent
  <2>2. 0 \in Int /\ MaxSize \in Int /\ 0 <= MaxSize /\ 0 <= SizeOf[sought]
    BY <2>1 DEF PropsTableAssumption
  <2>3. Passes(sought, ForLabel(sought)) /\ ~ForLabel(sought).favorites
    BY <2>2, LesserOfTwo DEF Passes, ForLabel
  <2> QED
    BY <2>1, <2>3, BuiltHas
<1> QED
  BY <1>1, TableAlways, PTL

-----------------------------------------------------------------------------
(* The families (FamiliesTab).                                             *)

Source == ({"prop"} \X FamilyProps) \cup ({"builtin", "family"} \X Nat)
PaintEntry == [source : Source, type : FamilyProps, palette : Seq(FamilyProps)]

\* A prop alone, or a family with a prop of it.
Proper(e) == IF e.source[1] = "prop" THEN e.palette = <<>> /\ e.type = e.source[2]
                                     ELSE e.type \in Range(e.palette)

FamiliesOK == families \in Seq(Family)
PlanOK == \A e \in plan : e \in PaintEntry /\ e.source[1] # "prop" /\ Proper(e)
SourcesDiffer(r) == \A i, j \in DOMAIN r : r[i].source = r[j].source => i = j
RecentsOK ==
  /\ recents \in Seq(PaintEntry) /\ SourcesDiffer(recents)
  /\ \A k \in DOMAIN recents : Proper(recents[k])
PaintingOK == \A e \in familyPainting : recents # <<>> /\ recents[1] = e
DeletesListed == popup = "delete" => chosen \in ListedFamilies /\ ~IsAuto(chosen)

FamiliesInv == FamiliesOK /\ PlanOK /\ RecentsOK /\ PaintingOK /\ DeletesListed

-----------------------------------------------------------------------------

\* The list of all families: the built-in ones, then those of the player.
LEMMA AllOK ==
  ASSUME FamiliesTabAssumption, FamiliesOK
  PROVE  /\ All \in Seq(Family) /\ DOMAIN All = 1 .. Len(All)
         /\ Len(AutoFamilies) \in Nat /\ Len(families) \in Nat
         /\ Len(All) = Len(AutoFamilies) + Len(families)
         /\ \A k \in DOMAIN All : All[k] \in Family
         /\ DOMAIN families = 1 .. Len(families)
         /\ \A k \in DOMAIN families : families[k] \in Family
<1>1. AutoFamilies \in Seq(Family) /\ families \in Seq(Family)
  BY DEF FamiliesTabAssumption, FamiliesOK
<1>2. All \in Seq(Family) /\ Len(All) = Len(AutoFamilies) + Len(families)
  BY <1>1, ConcatProperties DEF All
<1> QED
  BY <1>1, <1>2, LenProperties, ElementOfSeq

\* What the player sees selected is in the list, if there is a list.
LEMMA SelectedIsListed ==
  ASSUME FamiliesTabAssumption, FamiliesOK, FamiliesCalm, ListedFamilies # {}
  PROVE  chosen \in ListedFamilies
<1>1. ListedFamilies \in SUBSET (1 .. Len(All)) /\ Len(All) \in Nat
  BY AllOK DEF ListedFamilies
<1>2. IsFiniteSet(1 .. Len(All))
  BY <1>1, FS_Interval
<1>3. IsFiniteSet(ListedFamilies) /\ ListedFamilies \in SUBSET Int
  <2>1. IsFiniteSet(ListedFamilies)
    BY <1>1, <1>2, FS_Subset
  <2>2. \A k \in ListedFamilies : k \in Int
    BY <1>1
  <2> QED
    BY <2>1, <2>2
<1>4. \E a \in ListedFamilies : \A x \in ListedFamilies : a <= x
  BY <1>3, LeastAndGreatest
<1>5. Min(ListedFamilies) \in ListedFamilies
  BY <1>4 DEF Min
<1> QED
  BY <1>5 DEF FamiliesCalm, Moved

\* RecentPaintHistory::Push
LEMMA PushedOK ==
  ASSUME FamiliesTabAssumption, RecentsOK, NEW e \in PaintEntry, Proper(e)
  PROVE  /\ Pushed(e) \in Seq(PaintEntry) /\ SourcesDiffer(Pushed(e))
         /\ \A k \in DOMAIN Pushed(e) : Proper(Pushed(e)[k])
         /\ Pushed(e) # <<>> /\ Pushed(e)[1] = e
<1> DEFINE I == {k \in DOMAIN recents : recents[k].source # e.source}
           n == Cardinality(I)
           rest == Picked(recents, I)
           all == <<e>> \o rest
           m == Min({MaxRecents, Len(all)})
<1>0. recents \in Seq(PaintEntry) /\ I \in SUBSET DOMAIN recents
  BY DEF RecentsOK
<1>1. /\ n \in Nat /\ rest \in Seq(PaintEntry) /\ Len(rest) = n
      /\ Ascending(I) \in [1 .. n -> I]
      /\ \A k \in 1 .. n : rest[k] = recents[Ascending(I)[k]]
      /\ \A j, k \in 1 .. n : j < k <=> Ascending(I)[j] < Ascending(I)[k]
  <2> HIDE DEF I
  <2> QED
    BY <1>0, PickedOK
<1>2. \A k \in 1 .. n : Ascending(I)[k] \in DOMAIN recents
                        /\ recents[Ascending(I)[k]].source # e.source
  BY <1>1
<1> HIDE DEF rest, I, n
<1>3. /\ \A k \in 1 .. n : Proper(rest[k]) /\ rest[k].source # e.source
      /\ \A j, k \in 1 .. n : rest[j].source = rest[k].source => j = k
  <2>1. \A k \in 1 .. n : Proper(rest[k]) /\ rest[k].source # e.source
    BY <1>1, <1>2 DEF RecentsOK
  <2>2. ASSUME NEW j \in 1 .. n, NEW k \in 1 .. n, rest[j].source = rest[k].source
        PROVE  j = k
    <3>1. Ascending(I)[j] = Ascending(I)[k]
      BY <1>1, <1>2, <2>2 DEF RecentsOK, SourcesDiffer
    <3>2. Ascending(I)[j] \in Nat
      BY <1>2, LenProperties DEF RecentsOK
    <3> QED
      BY <1>1, <3>1, <3>2
  <2> QED
    BY <2>1, <2>2
<1>4. /\ all \in Seq(PaintEntry) /\ Len(all) = n + 1
      /\ all[1] = e /\ \A k \in 2 .. n + 1 : all[k] = rest[k - 1]
  <2>1. <<e>> \in Seq(PaintEntry) /\ Len(<<e>>) = 1 /\ <<e>>[1] = e
    OBVIOUS
  <2>2. /\ all \in Seq(PaintEntry) /\ Len(all) = 1 + n
        /\ \A k \in 1 .. 1 + n : all[k] = IF k <= 1 THEN <<e>>[k] ELSE rest[k - 1]
    BY <1>1, <2>1, ConcatProperties
  <2> HIDE DEF all
  <2> QED
    BY <1>1, <2>1, <2>2
<1> HIDE DEF all
<1>5. /\ \A k \in 1 .. n + 1 : all[k] \in PaintEntry /\ Proper(all[k])
      /\ \A j, k \in 1 .. n + 1 : all[j].source = all[k].source => j = k
  <2>1. ASSUME NEW k \in 1 .. n + 1
        PROVE  /\ all[k] \in PaintEntry /\ Proper(all[k])
               /\ k # 1 => all[k].source # e.source
    <3>1. CASE k = 1
      BY <3>1, <1>4
    <3>2. CASE k # 1
      <4>1. k - 1 \in 1 .. n /\ k \in 2 .. n + 1
        BY <3>2, <1>1
      <4>2. rest[k - 1] \in PaintEntry
        BY <4>1, <1>1, ElementOfSeq
      <4> QED
        BY <4>1, <4>2, <1>3, <1>4
    <3> QED
      BY <3>1, <3>2
  <2>2. ASSUME NEW j \in 1 .. n + 1, NEW k \in 1 .. n + 1, all[j].source = all[k].source
        PROVE  j = k
    <3>1. CASE j = 1 \/ k = 1
      BY <3>1, <2>1, <2>2, <1>4
    <3>2. CASE j # 1 /\ k # 1
      <4>1. j - 1 \in 1 .. n /\ k - 1 \in 1 .. n /\ all[j] = rest[j - 1] /\ all[k] = rest[k - 1]
        BY <3>2, <1>1, <1>4
      <4>2. j - 1 = k - 1
        BY <4>1, <2>2, <1>3
      <4> QED
        BY <4>2
    <3> QED
      BY <3>1, <3>2
  <2> QED
    BY <2>1, <2>2
<1>6. m \in Nat /\ 1 <= m /\ m <= n + 1
  <2>1. MaxRecents \in Nat \ {0} /\ Len(all) = n + 1 /\ n \in Nat
    BY <1>1, <1>4 DEF FamiliesTabAssumption
  <2>2. m = IF MaxRecents <= n + 1 THEN MaxRecents ELSE n + 1
    BY <2>1, LesserOfTwo
  <2> QED
    BY <2>1, <2>2
<1> HIDE DEF m
<1>7. /\ SubSeq(all, 1, m) \in Seq(PaintEntry) /\ Len(SubSeq(all, 1, m)) = m
      /\ \A k \in 1 .. m : SubSeq(all, 1, m)[k] = all[k]
  <2>1. 1 \in Int /\ m \in Int /\ \A k \in 1 .. m : all[k] \in PaintEntry
    BY <1>5, <1>6, <1>1
  <2>2. /\ SubSeq(all, 1, m) \in Seq(PaintEntry)
        /\ Len(SubSeq(all, 1, m)) = IF 1 <= m THEN m - 1 + 1 ELSE 0
        /\ \A k \in 1 .. m - 1 + 1 : SubSeq(all, 1, m)[k] = all[1 + k - 1]
    BY <2>1, SubSeqProperties
  <2> QED
    BY <1>6, <2>2
<1>8. Pushed(e) = SubSeq(all, 1, m)
  BY DEF Pushed, all, rest, I, m
<1>9. DOMAIN Pushed(e) = 1 .. m /\ Len(Pushed(e)) = m
  BY <1>7, <1>8, LenProperties
<1>10. /\ Pushed(e) \in Seq(PaintEntry) /\ Pushed(e) # <<>>
       /\ \A k \in 1 .. m : Pushed(e)[k] = all[k] /\ k \in 1 .. n + 1
       /\ 1 \in 1 .. m
  <2>1. 1 \in 1 .. m /\ \A k \in 1 .. m : k \in 1 .. n + 1
    BY <1>1, <1>6
  <2>2. Pushed(e) # <<>>
    BY <2>1, <1>9
  <2> QED
    BY <2>1, <2>2, <1>7, <1>8
<1> QED
  BY <1>4, <1>5, <1>9, <1>10 DEF SourcesDiffer

\* What is painted and what was painted last, after a start or a refusal.
LEMMA StartOK ==
  ASSUME FamiliesTabAssumption, RecentsOK, PaintingOK,
         NEW source \in Source, NEW type \in FamilyProps, NEW palette \in Seq(FamilyProps),
         IF source[1] = "prop" THEN type = source[2] ELSE type \in Range(palette),
         StartPropPainting(source, type, palette)
  PROVE  RecentsOK' /\ PaintingOK'
<1> DEFINE e == EntryFor(source, type, palette)
<1>1. e \in PaintEntry /\ Proper(e)
  <2>1. NormalPalette(source, palette) \in Seq(FamilyProps)
    BY EmptySeq DEF NormalPalette
  <2> QED
    BY <2>1 DEF EntryFor, PaintEntry, Proper, NormalPalette
<1>2. CASE familyPainting' = {e} /\ recents' = Pushed(e)
  <2> HIDE DEF e
  <2> QED
    BY <1>1, <1>2, PushedOK DEF RecentsOK, PaintingOK, SourcesDiffer
<1>3. CASE UNCHANGED director
  BY <1>3 DEF director, RecentsOK, PaintingOK, SourcesDiffer
<1> QED
  BY <1>2, <1>3 DEF StartPropPainting

\* Switching what is painted leaves a proper entry at the front.
LEMMA SwitchOK ==
  ASSUME FamiliesTabAssumption, RecentsOK, PaintingOK,
         NEW source \in Source, NEW type \in FamilyProps,
         source[1] = "prop" /\ type = source[2], SwitchTarget(source, type)
  PROVE  RecentsOK' /\ PaintingOK'
<1>1. PICK p \in familyPainting : StartPropPainting(source, type, p.palette)
  BY DEF SwitchTarget
<1>2. p \in PaintEntry
  BY EmptySeq, LenProperties, ElementOfSeq DEF PaintingOK, RecentsOK
<1>3. p.palette \in Seq(FamilyProps)
  BY <1>2 DEF PaintEntry
<1> QED
  BY <1>1, <1>3, StartOK

-----------------------------------------------------------------------------

\* A new family gets an id that none has.
LEMMA NewIdOK ==
  ASSUME FamiliesTabAssumption, FamiliesOK
  PROVE  NextFamilyId \in Nat
<1> DEFINE ids == {families[k].id : k \in DOMAIN families}
           f == [k \in DOMAIN families |-> families[k].id]
<1>1. /\ DOMAIN families = 1 .. Len(families) /\ Len(families) \in Nat
      /\ \A k \in DOMAIN families : families[k].id \in Nat
  BY AllOK DEF Family
<1>2. IsFiniteSet(ids)
  <2>1. f \in Surjection(DOMAIN families, ids)
    BY DEF Surjection
  <2>2. IsFiniteSet(DOMAIN families)
    BY <1>1, FiniteUpTo
  <2> QED
    BY <2>1, <2>2, FS_Surjection
<1>3. IsFiniteSet({0} \cup ids) /\ {0} \cup ids # {} /\ {0} \cup ids \in SUBSET Int
  <2>1. IsFiniteSet(ids \cup {0})
    BY <1>2, FS_AddElement
  <2>2. ids \cup {0} = {0} \cup ids
    OBVIOUS
  <2>3. ids \in SUBSET Nat
    BY <1>1
  <2> HIDE DEF ids
  <2> QED
    BY <2>1, <2>2, <2>3
<1>4. {0} \cup ids \in SUBSET Nat
  BY <1>1
<1> HIDE DEF ids
<1>5. \E b \in {0} \cup ids : \A x \in {0} \cup ids : x <= b
  BY <1>3, LeastAndGreatest
<1>6. Max({0} \cup ids) \in {0} \cup ids
  <2>1. \E b \in {0} \cup ids : \A x \in {0} \cup ids : b >= x
    BY <1>4, <1>5
  <2> QED
    BY <2>1 DEF Max
<1>7. NextFamilyId \in Nat
  <2>1. NextFamilyId = Max({0} \cup ids) + 1
    BY DEF NextFamilyId, ids
  <2>2. Max({0} \cup ids) \in Nat
    BY <1>4, <1>6
  <2> QED
    BY <2>1, <2>2
<1> QED
  BY <1>7

\* A family that the player changes is one of the user.
LEMMA UsersOwn ==
  ASSUME FamiliesTabAssumption, FamiliesOK, chosen \in ListedFamilies, ~IsAuto(chosen)
  PROVE  /\ chosen - Len(AutoFamilies) \in 1 .. Len(families)
         /\ All[chosen] = families[chosen - Len(AutoFamilies)]
<1>1. chosen \in 1 .. Len(AutoFamilies) + Len(families)
  BY AllOK DEF ListedFamilies
<1>2. AutoFamilies \in Seq(Family) /\ families \in Seq(Family)
  BY DEF FamiliesTabAssumption, FamiliesOK
<1>3. All[chosen] = IF chosen <= Len(AutoFamilies) THEN AutoFamilies[chosen]
                    ELSE families[chosen - Len(AutoFamilies)]
  BY <1>1, <1>2, ConcatProperties DEF All
<1> QED
  BY <1>1, <1>3, AllOK DEF IsAuto

\* A family with other entries is a family.
LEMMA WithEntriesOK ==
  ASSUME FamiliesOK, NEW k \in 1 .. Len(families), NEW es \in Seq(FamilyProps)
  PROVE  [families EXCEPT ![k] = WithEntries(families[k], es)] \in Seq(Family)
<1>1. families \in Seq(Family) /\ families[k] \in Family
  BY ElementOfSeq DEF FamiliesOK
<1>2. WithEntries(families[k], es) \in Family
  BY <1>1 DEF WithEntries, Family
<1> QED
  BY <1>1, <1>2, ExceptSeq

\* Every step leaves families.
LEMMA FamiliesKept ==
  ASSUME FamiliesTabAssumption, FamiliesInv, [FamiliesTabNext]_familiesTabVars
  PROVE  FamiliesOK'
<1> USE DEF FamiliesInv
<1>1. families \in Seq(Family)
  BY DEF FamiliesOK
<1>2. ASSUME NEW n \in FamilyNames, Create(n)
      PROVE  families' \in Seq(Family)
  <2>1. [id |-> NextFamilyId, name |-> n, entries |-> <<>>] \in Family
    BY NewIdOK, EmptySeq DEF Family, FamiliesTabAssumption
  <2> QED
    BY <1>1, <1>2, <2>1, AppendProperties DEF Create
<1>3. CASE Delete
  <2>1. chosen - Len(AutoFamilies) \in 1 .. Len(families)
    BY <1>3, UsersOwn DEF Delete, DeletesListed
  <2> QED
    BY <1>1, <1>3, <2>1, RemoveAtOK DEF Delete, FamiliesOK
<1>4. ASSUME NEW i \in 1 .. Cardinality(FamilyProps), RemoveEntry(i)
      PROVE  families' \in Seq(Family)
  <2> DEFINE k == chosen - Len(AutoFamilies)
  <2>1. k \in 1 .. Len(families) /\ All[chosen] = families[k]
    BY <1>4, SelectedIsListed, UsersOwn DEF RemoveEntry
  <2>2. families[k].entries \in Seq(FamilyProps)
    <3>1. families[k] \in Family
      BY <1>1, <2>1, ElementOfSeq
    <3> QED
      BY <3>1 DEF Family
  <2>3. i \in 1 .. Len(families[k].entries)
    BY <1>4, <2>1, <2>2, LenProperties DEF RemoveEntry
  <2>4. RemoveAt(families[k].entries, i) \in Seq(FamilyProps)
    BY <2>2, <2>3, RemoveAtOK
  <2>5. families' = [families EXCEPT ![k] =
                       WithEntries(families[k], RemoveAt(families[k].entries, i))]
    BY <1>4 DEF RemoveEntry
  <2> HIDE DEF k
  <2> QED
    BY <2>1, <2>4, <2>5, WithEntriesOK
<1>5. ASSUME NEW p \in FamilyProps, NEW k \in 1 .. MaxFamilies, AddProp(p, k)
      PROVE  families' \in Seq(Family)
  <2>1. k \in 1 .. Len(families)
    BY <1>1, <1>5, LenProperties DEF AddProp
  <2>2. families[k].entries \in Seq(FamilyProps)
    <3>1. families[k] \in Family
      BY <1>1, <2>1, ElementOfSeq
    <3> QED
      BY <3>1 DEF Family
  <2>3. Append(families[k].entries, p) \in Seq(FamilyProps)
    BY <2>2, AppendProperties
  <2>4. families' = [families EXCEPT ![k] =
                       WithEntries(families[k], Append(families[k].entries, p))]
    BY <1>5 DEF AddProp
  <2> QED
    BY <2>1, <2>3, <2>4, WithEntriesOK
<1>6. CASE UNCHANGED families
  BY <1>1, <1>6 DEF FamiliesOK
<1>7. \/ UNCHANGED families \/ Delete \/ \E n \in FamilyNames : Create(n)
      \/ \E i \in 1 .. Cardinality(FamilyProps) : RemoveEntry(i)
      \/ \E p \in FamilyProps, k \in 1 .. MaxFamilies : AddProp(p, k)
  BY DEF FamiliesTabNext, familiesTabVars, FamiliesFrame, SetFamilyFilter, OpenCreate, OpenDelete, LeaveOptions,
         StopFamilyPainting, SelectFamily, Queue, PaintProp, PaintRecent
<1> QED
  BY <1>2, <1>3, <1>4, <1>5, <1>6, <1>7 DEF FamiliesOK

\* What the director is asked to paint.
LEMMA DirectorKept ==
  ASSUME FamiliesTabAssumption, FamiliesInv, [FamiliesTabNext]_familiesTabVars
  PROVE  RecentsOK' /\ PaintingOK'
<1> USE DEF FamiliesInv
<1>1. CASE UNCHANGED director
  BY <1>1 DEF director, RecentsOK, PaintingOK, SourcesDiffer
<1>2. ASSUME NEW p \in FamilyProps, PaintProp(p)
      PROVE  RecentsOK' /\ PaintingOK'
  <2>1. <<"prop", p>> \in Source /\ <<"prop", p>>[1] = "prop" /\ p = <<"prop", p>>[2]
    BY DEF Source
  <2>2. <<>> \in Seq(FamilyProps)
    BY EmptySeq
  <2> QED
    BY <1>2, <2>1, <2>2, StartOK, SwitchOK DEF PaintProp
<1>3. ASSUME NEW k \in 2 .. MaxRecents, PaintRecent(k)
      PROVE  RecentsOK' /\ PaintingOK'
  <2> DEFINE e == recents[k]
  <2>1. e \in PaintEntry /\ Proper(e)
    BY <1>3, LenProperties, ElementOfSeq DEF PaintRecent, RecentsOK
  <2>2. e.source \in Source /\ e.type \in FamilyProps /\ e.palette \in Seq(FamilyProps)
    BY <2>1 DEF PaintEntry
  <2>3. CASE e.palette = <<>> /\ SwitchTarget(e.source, e.type)
    <3>1. e.source[1] = "prop" /\ e.type = e.source[2]
      BY <2>1, <2>3 DEF Proper, Range
    <3> HIDE DEF e
    <3> QED
      BY <2>2, <2>3, <3>1, SwitchOK
  <2>4. CASE StartPropPainting(e.source, e.type, e.palette)
    <3>1. IF e.source[1] = "prop" THEN e.type = e.source[2] ELSE e.type \in Range(e.palette)
      BY <2>1 DEF Proper
    <3> HIDE DEF e
    <3> QED
      BY <2>2, <2>4, <3>1, StartOK
  <2> QED
    BY <1>3, <2>3, <2>4 DEF PaintRecent
<1>4. CASE LeaveOptions
  <2>1. ASSUME NEW p \in plan, StartPropPainting(p.source, p.type, p.palette)
        PROVE  RecentsOK' /\ PaintingOK'
    <3>1. /\ p.source \in Source /\ p.type \in FamilyProps /\ p.palette \in Seq(FamilyProps)
          /\ IF p.source[1] = "prop" THEN p.type = p.source[2] ELSE p.type \in Range(p.palette)
      BY DEF PlanOK, PaintEntry, Proper
    <3> QED
      BY <2>1, <3>1, StartOK
  <2> QED
    BY <1>1, <1>4, <2>1 DEF LeaveOptions
<1>5. CASE StopFamilyPainting
  BY <1>5 DEF StopFamilyPainting, RecentsOK, PaintingOK, SourcesDiffer
<1>6. \/ UNCHANGED director \/ (\E p \in FamilyProps : PaintProp(p)) \/ LeaveOptions \/ StopFamilyPainting
      \/ \E k \in 2 .. MaxRecents : PaintRecent(k)
  BY DEF FamiliesTabNext, familiesTabVars, FamiliesFrame, SetFamilyFilter, OpenCreate, OpenDelete, Delete,
         SelectFamily, Queue, Create, RemoveEntry, AddProp
<1> QED
  BY <1>1, <1>2, <1>3, <1>4, <1>5, <1>6

\* What the options are about is a family and a prop of it.
LEMMA PlanKept ==
  ASSUME FamiliesTabAssumption, FamiliesInv, [FamiliesTabNext]_familiesTabVars
  PROVE  PlanOK'
<1> USE DEF FamiliesInv
<1>1. CASE UNCHANGED plan
  BY <1>1 DEF PlanOK
<1>2. CASE plan' = {}
  BY <1>2 DEF PlanOK
<1>3. ASSUME NEW k \in DOMAIN All, Queue(k)
      PROVE  PlanOK'
  <2>1. All[k].id \in Nat /\ All[k].entries \in Seq(FamilyProps) /\ All[k].entries # <<>>
    BY <1>3, AllOK DEF Queue, Family
  <2>2. /\ Head(All[k].entries) \in FamilyProps
        /\ Head(All[k].entries) \in Range(All[k].entries)
    <3>1. 1 \in DOMAIN All[k].entries /\ Head(All[k].entries) = All[k].entries[1]
      BY <2>1
    <3>2. All[k].entries[1] \in FamilyProps
      BY <2>1, <3>1, LenProperties, ElementOfSeq
    <3> QED
      BY <3>1, <3>2 DEF Range
  <2>3. \A e \in plan' :
          /\ e.source = <<IF IsAuto(k) THEN "builtin" ELSE "family", All[k].id>>
          /\ e.type = Head(All[k].entries) /\ e.palette = All[k].entries
          /\ e = [source |-> e.source, type |-> e.type, palette |-> e.palette]
    BY <1>3 DEF Queue
  <2>4. ASSUME NEW e \in plan'
        PROVE  e \in PaintEntry /\ e.source[1] # "prop" /\ Proper(e)
    <3>1. e.source \in Source /\ e.source[1] # "prop"
      <4>1. PICK s \in {"builtin", "family"} : e.source = <<s, All[k].id>>
        BY <2>3, <2>4
      <4>2. <<s, All[k].id>> \in {"builtin", "family"} \X Nat
        BY <2>1
      <4> QED
        BY <4>1, <4>2 DEF Source
    <3>2. e.type \in FamilyProps /\ e.palette \in Seq(FamilyProps) /\ e.type \in Range(e.palette)
      BY <2>1, <2>2, <2>3, <2>4
    <3>3. e \in PaintEntry
      <4>1. [source |-> e.source, type |-> e.type, palette |-> e.palette] \in PaintEntry
        BY <3>1, <3>2 DEF PaintEntry
      <4> QED
        BY <2>3, <2>4, <4>1
    <3> QED
      BY <3>1, <3>2, <3>3 DEF Proper
  <2> QED
    BY <2>4 DEF PlanOK
<1>4. UNCHANGED plan \/ plan' = {} \/ \E k \in DOMAIN All : Queue(k)
  BY DEF FamiliesTabNext, familiesTabVars, FamiliesFrame, SetFamilyFilter, OpenCreate, OpenDelete, Delete,
         LeaveOptions, StopFamilyPainting, SelectFamily, Create, RemoveEntry, AddProp, PaintProp, PaintRecent
<1> QED
  BY <1>1, <1>2, <1>3, <1>4

\* While the player is asked about deleting, the selected family is listed and is their own.
LEMMA DeleteKept ==
  ASSUME FamiliesTabAssumption, FamiliesInv, [FamiliesTabNext]_familiesTabVars
  PROVE  DeletesListed'
<1> USE DEF FamiliesInv
<1>1. CASE popup' # "delete"
  BY <1>1 DEF DeletesListed
<1>2. CASE popup = "delete" /\ UNCHANGED <<families, looks, popup>>
  BY <1>2 DEF looks, DeletesListed, ListedFamilies, Matches, All, IsAuto
<1>3. CASE OpenDelete
  <2>1. chosen \in ListedFamilies /\ ~IsAuto(chosen)
    BY <1>3, SelectedIsListed DEF OpenDelete
  <2> QED
    BY <1>3, <2>1 DEF OpenDelete, looks, DeletesListed, ListedFamilies, Matches, All, IsAuto
<1>4. \/ popup' # "delete" \/ OpenDelete
      \/ popup = "delete" /\ UNCHANGED <<families, looks, popup>>
  BY DEF FamiliesTabNext, familiesTabVars, FamiliesFrame, SetFamilyFilter, OpenCreate, Delete, LeaveOptions, looks,
         StopFamilyPainting, SelectFamily, Queue, Create, RemoveEntry, AddProp, PaintProp, PaintRecent, FamiliesCalm
<1> QED
  BY <1>1, <1>2, <1>3, <1>4

\* Nothing is selected, planned or painted at first.
LEMMA FamiliesStart ==
  ASSUME FamiliesTabAssumption, FamiliesTabInit
  PROVE  FamiliesInv
<1>1. <<>> \in Seq(Family) /\ <<>> \in Seq(PaintEntry) /\ DOMAIN <<>> = {}
  OBVIOUS
<1> QED
  BY <1>1 DEF FamiliesTabInit, FamiliesInv, FamiliesOK, PlanOK, RecentsOK, SourcesDiffer,
              PaintingOK, DeletesListed

\* The invariant of the families.
LEMMA FamiliesAlways ==
  ASSUME FamiliesTabAssumption
  PROVE  FamiliesTabSpec => []FamiliesInv
<1>1. FamiliesTabInit => FamiliesInv
  BY FamiliesStart
<1>2. FamiliesInv /\ [FamiliesTabNext]_familiesTabVars => FamiliesInv'
  BY FamiliesKept, DirectorKept, PlanKept, DeleteKept DEF FamiliesInv
<1> QED
  BY <1>1, <1>2, PTL DEF FamiliesTabSpec

\* Entries that differ in their source are as many as their sources.
LEMMA SourcesCounted ==
  ASSUME RecentsOK
  PROVE  Cardinality({recents[k].source : k \in DOMAIN recents}) = Len(recents)
<1> DEFINE S == {recents[k].source : k \in DOMAIN recents}
           f == [k \in DOMAIN recents |-> recents[k].source]
<1>1. DOMAIN recents = 1 .. Len(recents) /\ Len(recents) \in Nat
  BY LenProperties DEF RecentsOK
<1>2. f \in Surjection(1 .. Len(recents), S) /\ f \in Injection(1 .. Len(recents), S)
  <2>1. f \in [1 .. Len(recents) -> S]
    BY <1>1
  <2>2. \A y \in S : \E k \in 1 .. Len(recents) : f[k] = y
    BY <1>1
  <2>3. \A j, k \in 1 .. Len(recents) : f[j] = f[k] => j = k
    BY <1>1 DEF RecentsOK, SourcesDiffer
  <2> QED
    BY <2>1, <2>2, <2>3 DEF Injection, Surjection, IsInjective
<1>3. 1 \in Int /\ Len(recents) \in Int
  BY <1>1
<1>4. /\ IsFiniteSet(1 .. Len(recents))
      /\ Cardinality(1 .. Len(recents)) = IF 1 > Len(recents) THEN 0 ELSE Len(recents) - 1 + 1
  BY <1>3, FS_Interval
<1>5. Cardinality(S) = Cardinality(1 .. Len(recents))
  BY <1>2, <1>4, FS_Surjection
<1> QED
  BY <1>1, <1>4, <1>5

\* The newest of the recent paints is what is painted, and none is listed twice.
THEOREM NewestTheorem ==
  ASSUME FamiliesTabAssumption
  PROVE  FamiliesTabSpec => []NewestIsPainted
<1>1. FamiliesInv => NewestIsPainted
  <2> SUFFICES ASSUME FamiliesInv, NEW p \in familyPainting
               PROVE  /\ recents # <<>> /\ Head(recents) = p
                      /\ Proper(p)
                      /\ Cardinality({recents[k].source : k \in DOMAIN recents}) = Len(recents)
    BY DEF NewestIsPainted, Proper
  <2>1. recents # <<>> /\ recents[1] = p /\ recents \in Seq(PaintEntry)
    BY DEF FamiliesInv, PaintingOK, RecentsOK
  <2>2. Head(recents) = p /\ 1 \in DOMAIN recents
    BY <2>1
  <2> QED
    BY <2>1, <2>2, SourcesCounted DEF FamiliesInv, RecentsOK
<1> QED
  BY <1>1, FamiliesAlways, PTL

\* What a deletion leaves: every family but the one at the selected position.
LEMMA OthersStay ==
  ASSUME FamiliesTabAssumption, FamiliesInv, [FamiliesTabNext]_familiesTabVars,
         Len(families') < Len(families)
  PROVE  /\ chosen \in ListedFamilies
         /\ \A k \in DOMAIN families : Len(AutoFamilies) + k # chosen =>
              families[k] \in Range(families')
<1> USE DEF FamiliesInv
<1>1. families \in Seq(Family) /\ DOMAIN families = 1 .. Len(families) /\ Len(families) \in Nat
      /\ Len(AutoFamilies) \in Nat
  BY AllOK DEF FamiliesOK
<1>2. ~UNCHANGED families
  BY <1>1
<1>3. ASSUME NEW n \in FamilyNames, Create(n) PROVE FALSE
  <2>1. PICK f : families' = Append(families, f)
    BY <1>2, <1>3 DEF Create
  <2>2. Len(Append(families, f)) = Len(families) + 1
    BY <1>1, AppendProperties
  <2> QED
    BY <1>1, <2>1, <2>2
<1>4. ASSUME NEW k, NEW f, families' = [families EXCEPT ![k] = f] PROVE FALSE
  <2>1. DOMAIN families' = DOMAIN families
    BY <1>4
  <2>2. Len(families') = Len(families)
    BY <1>1, <1>4, <2>1
  <2> QED
    BY <1>1, <2>2
<1>5. Delete
  <2>1. \/ UNCHANGED families \/ Delete \/ (\E n \in FamilyNames : Create(n))
        \/ \E k, f : families' = [families EXCEPT ![k] = f]
    BY DEF FamiliesTabNext, familiesTabVars, FamiliesFrame, SetFamilyFilter, OpenCreate, OpenDelete, LeaveOptions,
           StopFamilyPainting, SelectFamily, Queue, PaintProp, PaintRecent, RemoveEntry, AddProp
  <2> QED
    BY <1>2, <1>3, <1>4, <2>1
<1> DEFINE d == chosen - Len(AutoFamilies)
<1>6. chosen \in ListedFamilies /\ ~IsAuto(chosen) /\ d \in 1 .. Len(families)
  BY <1>5, UsersOwn DEF Delete, DeletesListed
<1>7. families' = RemoveAt(families, d)
  BY <1>2, <1>5 DEF Delete
<1>8. chosen \in Int
  BY <1>1, <1>6, AllOK DEF ListedFamilies
<1>9. ASSUME NEW k \in DOMAIN families, Len(AutoFamilies) + k # chosen
      PROVE  families[k] \in Range(families')
  <2>1. k # d /\ k \in 1 .. Len(families)
    BY <1>1, <1>8, <1>9
  <2> HIDE DEF d
  <2>2. /\ DOMAIN families' = 1 .. Len(families) - 1
        /\ \A j \in 1 .. Len(families) - 1 :
             families'[j] = IF j < d THEN families[j] ELSE families[j + 1]
    BY <1>1, <1>6, <1>7, RemoveAtOK
  <2>3. CASE k < d
    <3>1. k \in 1 .. Len(families) - 1 /\ families'[k] = families[k]
      BY <1>1, <1>6, <2>1, <2>2, <2>3
    <3> QED
      BY <2>2, <3>1 DEF Range
  <2>4. CASE d < k
    <3>1. k - 1 \in 1 .. Len(families) - 1 /\ ~(k - 1 < d) /\ k - 1 + 1 = k
      BY <1>1, <1>6, <2>1, <2>4
    <3>2. families'[k - 1] = families[k]
      BY <2>2, <3>1
    <3> QED
      BY <2>2, <3>1, <3>2 DEF Range
  <2> QED
    BY <1>6, <2>1, <2>3, <2>4
<1> QED
  BY <1>6, <1>9

\* What an edit leaves: no family but the selected one of the list loses an entry.
LEMMA OnlySelectedLoses ==
  ASSUME FamiliesTabAssumption, FamiliesInv, [FamiliesTabNext]_familiesTabVars,
         Len(families') = Len(families), NEW k \in DOMAIN families,
         Len(families'[k].entries) < Len(families[k].entries)
  PROVE  Len(AutoFamilies) + k = chosen /\ chosen \in ListedFamilies
<1> USE DEF FamiliesInv
<1>1. families \in Seq(Family) /\ DOMAIN families = 1 .. Len(families) /\ Len(families) \in Nat
      /\ Len(AutoFamilies) \in Nat
  BY AllOK DEF FamiliesOK
<1>2. families[k].entries \in Seq(FamilyProps) /\ Len(families[k].entries) \in Nat
  <2>1. families[k] \in Family
    BY <1>1, ElementOfSeq
  <2>2. families[k].entries \in Seq(FamilyProps)
    BY <2>1 DEF Family
  <2> QED
    BY <2>2, LenProperties
<1>3. families'[k] # families[k]
  BY <1>2
<1>4. ASSUME NEW n \in FamilyNames, Create(n) PROVE FALSE
  <2>1. PICK f : families' = Append(families, f)
    BY <1>3, <1>4 DEF Create
  <2>2. Len(Append(families, f)) = Len(families) + 1
    BY <1>1, AppendProperties
  <2> QED
    BY <1>1, <2>1, <2>2
<1>5. ASSUME Delete PROVE FALSE
  <2>1. chosen - Len(AutoFamilies) \in 1 .. Len(families)
    BY <1>5, UsersOwn DEF Delete, DeletesListed
  <2>2. families' = RemoveAt(families, chosen - Len(AutoFamilies))
    BY <1>3, <1>5 DEF Delete
  <2> HIDE DEF FamiliesInv
  <2>3. Len(families') = Len(families) - 1
    BY <1>1, <2>1, <2>2, RemoveAtOK
  <2> QED
    BY <1>1, <2>3
<1>6. ASSUME NEW i \in 1 .. Cardinality(FamilyProps), RemoveEntry(i)
      PROVE  Len(AutoFamilies) + k = chosen /\ chosen \in ListedFamilies
  <2> DEFINE d == chosen - Len(AutoFamilies)
  <2>1. chosen \in ListedFamilies /\ d \in 1 .. Len(families)
    BY <1>6, SelectedIsListed, UsersOwn DEF RemoveEntry
  <2>2. chosen \in Int
    BY <1>1, <2>1, AllOK DEF ListedFamilies
  <2>3. families' = [families EXCEPT ![d] = WithEntries(families[d], RemoveAt(families[d].entries, i))]
    BY <1>6 DEF RemoveEntry
  <2>4. k # d => families'[k] = families[k]
    BY <2>3
  <2> QED
    BY <1>1, <1>3, <2>1, <2>2, <2>4
<1>7. ASSUME NEW p \in FamilyProps, NEW j \in 1 .. MaxFamilies, AddProp(p, j) PROVE FALSE
  <2>1. families' = [families EXCEPT ![j] = WithEntries(families[j], Append(families[j].entries, p))]
    BY <1>7 DEF AddProp
  <2>2. j = k
    BY <1>3, <2>1
  <2>3. families'[k].entries = Append(families[k].entries, p)
    BY <2>1, <2>2 DEF WithEntries
  <2>4. Len(Append(families[k].entries, p)) = Len(families[k].entries) + 1
    BY <1>2, AppendProperties
  <2> QED
    BY <1>2, <2>3, <2>4
<1>8. \/ UNCHANGED families \/ Delete \/ \E n \in FamilyNames : Create(n)
      \/ \E i \in 1 .. Cardinality(FamilyProps) : RemoveEntry(i)
      \/ \E p \in FamilyProps, j \in 1 .. MaxFamilies : AddProp(p, j)
  BY DEF FamiliesTabNext, familiesTabVars, FamiliesFrame, SetFamilyFilter, OpenCreate, OpenDelete, LeaveOptions,
         StopFamilyPainting, SelectFamily, Queue, PaintProp, PaintRecent
<1> QED
  BY <1>3, <1>4, <1>5, <1>6, <1>7, <1>8

\* Only the selected family of the list is deleted, edited or painted.
THEOREM ActsTheorem ==
  ASSUME FamiliesTabAssumption
  PROVE  FamiliesTabSpec => ActsOnWhatIsListed
<1> DEFINE Deleted == Len(families') < Len(families) \/ popup' = "delete" => chosen \in ListedFamilies
           Queued == (popup # "options" /\ popup' = "options") =>
                       chosen' \in ListedFamilies /\ \A p \in plan' : p.palette = All[chosen'].entries
           Stay == Len(families') < Len(families) =>
                     \A k \in DOMAIN families : Len(AutoFamilies) + k # chosen =>
                       families[k] \in Range(families')
           Edited == Len(families') = Len(families) =>
                       \A k \in DOMAIN families : Len(families'[k].entries) < Len(families[k].entries) =>
                         Len(AutoFamilies) + k = chosen /\ chosen \in ListedFamilies
<1>1. FamiliesInv /\ [FamiliesTabNext]_familiesTabVars
        => [Deleted /\ Queued /\ Stay /\ Edited]_familiesTabVars
  <2> SUFFICES ASSUME FamiliesInv, [FamiliesTabNext]_familiesTabVars
               PROVE  Deleted /\ Queued /\ Stay /\ Edited
    OBVIOUS
  <2>1. popup' = "delete" => chosen \in ListedFamilies
    <3>1. popup' = "delete" => OpenDelete \/ popup = "delete"
      BY DEF FamiliesTabNext, familiesTabVars, FamiliesFrame, SetFamilyFilter, OpenCreate, Delete, LeaveOptions, looks,
         StopFamilyPainting, SelectFamily, Queue, Create, RemoveEntry, AddProp, PaintProp, PaintRecent, FamiliesCalm
    <3>2. OpenDelete => chosen \in ListedFamilies
      BY SelectedIsListed DEF OpenDelete, FamiliesInv
    <3> QED
      BY <3>1, <3>2 DEF FamiliesInv, DeletesListed
  <2>2. Queued
    <3>1. popup # "options" /\ popup' = "options" => \E k \in DOMAIN All : Queue(k)
      BY DEF FamiliesTabNext, familiesTabVars, FamiliesFrame, SetFamilyFilter, OpenCreate, OpenDelete, Delete,
         LeaveOptions, StopFamilyPainting, SelectFamily, Create, RemoveEntry, AddProp, PaintProp, PaintRecent, FamiliesCalm
    <3>2. ASSUME NEW k \in DOMAIN All, Queue(k)
          PROVE  chosen' \in ListedFamilies /\ \A p \in plan' : p.palette = All[chosen'].entries
      BY <3>2 DEF Queue
    <3> QED
      BY <3>1, <3>2
  <2> QED
    BY <2>1, <2>2, OthersStay, OnlySelectedLoses
<1> QED
  BY <1>1, FamiliesAlways, PTL DEF FamiliesTabSpec, ActsOnWhatIsListed

-----------------------------------------------------------------------------
(* The decals (DecalPanel).                                                *)

Window == [on : BOOLEAN, lo : 0 .. Unit, hi : 0 .. Unit]
Preset == [name : Names, style : DecalStyles, window : Window, default : BOOLEAN]

\* A window that may be painted or saved with the decal d.
Fine(d, w) == w.on /\ Pixels[d] > 0 => OnPixels(w, Pixels[d])

TemplateOK ==
  /\ selected \in Ids \cup {NoId} /\ id \in Ids \cup {NoId}
  /\ decalStyle \in DecalStyles /\ window \in Window /\ name \in Names \cup {NoName}
  /\ \A d \in drag : d.from \in 0 .. Unit /\ d.before \in Window
PresetsOK ==
  /\ presets \in [Ids -> Seq(Preset)]
  /\ \A d \in Ids : \A k \in DOMAIN presets[d] : Fine(d, presets[d][k].window)
DialogOK ==
  /\ decalDialog => id \in Ids /\ key = id /\ (index # 0 => index \in DOMAIN presets[id])
  /\ texture \in {NoId, id} /\ (texture # NoId => texture \in Ids /\ Pixels[texture] # 0)
  /\ (name # NoName => typedFor = id)
PaintedOK == \A p \in decalPainting : p.key = p.id
PickOK == (scroll \in Textures => ~decalDialog /\ scroll \in ListedDecals(decalFilter)) /\ shown

DecalInv == TemplateOK /\ PresetsOK /\ DialogOK /\ PaintedOK /\ PickOK

-----------------------------------------------------------------------------

\* Edges on the pixels of a texture that is n wide.
LEMMA PixelOK ==
  ASSUME DecalPanelAssumption, NEW n \in Nat \ {0}, Unit % n = 0
  PROVE  /\ Unit \in Nat \ {0} /\ Unit \div n \in Nat \ {0} /\ Unit = (Unit \div n) * n
         /\ \A e \in 0 .. Unit : Pixel(e, n) \in 0 .. n
         /\ \A p \in 0 .. n : /\ p * (Unit \div n) \in 0 .. Unit
                              /\ (p * (Unit \div n) * n) % Unit = 0
                              /\ Pixel(p * (Unit \div n), n) = p
<1>1. Unit \in Nat \ {0}
  BY DEF DecalPanelAssumption
<1> DEFINE u == Unit \div n
<1>2. u \in Nat \ {0} /\ Unit = u * n
  BY <1>1
<1>3. \A e \in 0 .. Unit : Pixel(e, n) \in 0 .. n
  BY <1>1 DEF Pixel
<1>4. ASSUME NEW p \in 0 .. n
      PROVE  p * u \in 0 .. Unit /\ (p * u * n) % Unit = 0 /\ Pixel(p * u, n) = p
  <2> HIDE DEF u
  <2>1. p * u \in 0 .. u * n
    BY <1>2
  <2>2. p * u * n = p * Unit
    BY <1>2
  <2>3. (p * Unit) % Unit = 0
    BY <1>1
  <2>4. 2 * (p * u) * n = 2 * p * Unit
    BY <2>2, <1>2
  <2>5. (2 * p * Unit + Unit) \div (2 * Unit) = p
    BY <1>1
  <2> QED
    BY <1>2, <2>1, <2>2, <2>3, <2>4, <2>5 DEF Pixel
<1> QED
  BY <1>1, <1>2, <1>3, <1>4

\* Snapping moves an edge to a pixel, and leaves one that is on a pixel.
LEMMA SnappedOK ==
  ASSUME DecalPanelAssumption, NEW n \in Nat \ {0}, Unit % n = 0, NEW w \in Window
  PROVE  \E p, q \in 0 .. n : /\ p <= q
                              /\ Snapped(w, n) = [on |-> w.on, lo |-> p * (Unit \div n), hi |-> q * (Unit \div n)]
                              /\ \A r \in 0 .. n : w.lo = r * (Unit \div n) /\ w.hi >= w.lo => p = r
                              /\ \A r \in 0 .. n : w.hi = r * (Unit \div n) /\ w.hi >= w.lo => q = r
<1> DEFINE u == Unit \div n
           a == Pixel(w.lo, n)
           b == Pixel(w.hi, n)
<1>1. u \in Nat \ {0} /\ Unit \in Nat \ {0} /\ Unit = u * n
  BY PixelOK
<1>2. w.lo \in 0 .. Unit /\ w.hi \in 0 .. Unit
  BY DEF Window
<1>3. a \in 0 .. n /\ b \in 0 .. n
  BY <1>2, PixelOK
<1>4. /\ \A r \in 0 .. n : w.lo = r * u => a = r
      /\ \A r \in 0 .. n : w.hi = r * u => b = r
  <2>1. \A r \in 0 .. n : Pixel(r * u, n) = r
    BY PixelOK
  <2> HIDE DEF u
  <2> QED
    BY <2>1
<1>5. w.hi >= w.lo => b >= a
  <2>1. ASSUME w.hi >= w.lo
        PROVE  2 * w.lo * n + Unit <= 2 * w.hi * n + Unit
    BY <1>1, <1>2, <2>1
  <2>2. \A x, y \in Int : x <= y => x \div (2 * Unit) <= y \div (2 * Unit)
    BY <1>1
  <2> QED
    BY <1>1, <1>2, <2>1, <2>2 DEF Pixel
<1>6. Snapped(w, n) = [on |-> w.on, lo |-> Min({a * u, b * u}), hi |-> Max({a * u, b * u})]
  BY DEF Snapped, Normal
<1> HIDE DEF a, b, u
<1>7. a * u \in Int /\ b * u \in Int
  BY <1>1, <1>3
<1>8. CASE a <= b
  <2>1. a * u <= b * u
    BY <1>1, <1>3, <1>8
  <2>2. Min({a * u, b * u}) = a * u /\ Max({a * u, b * u}) = b * u
    BY <1>7, <2>1, LesserOfTwo
  <2> QED
    BY <1>3, <1>4, <1>6, <1>8, <2>2 DEF u
<1>9. CASE ~(a <= b)
  <2>1. b * u <= a * u
    BY <1>1, <1>3, <1>9
  <2>2. Min({a * u, b * u}) = b * u /\ Max({a * u, b * u}) = a * u
    BY <1>7, <2>1, LesserOfTwo
  <2>3. ~(w.hi >= w.lo) /\ b <= a
    BY <1>3, <1>5, <1>9
  <2> QED
    BY <1>3, <1>6, <2>2, <2>3 DEF u
<1> QED
  BY <1>8, <1>9

\* QuantizeUvWindowToPixels: one pixel at least, and inside the texture.
LEMMA QuantizedOK ==
  ASSUME DecalPanelAssumption, NEW n \in Nat \ {0}, Unit % n = 0, NEW w \in Window
  PROVE  Quantized(w, n) \in Window /\ OnPixels(Quantized(w, n), n)
<1> DEFINE u == Unit \div n
           s == Snapped(Normal(w), n)
           hi == Min({Unit, s.hi})
<1>1. u \in Nat \ {0} /\ Unit \in Nat \ {0} /\ Unit = u * n
  BY PixelOK
<1>2. Normal(w) \in Window
  <2>1. w.lo \in 0 .. Unit /\ w.hi \in 0 .. Unit /\ w.on \in BOOLEAN
    BY DEF Window
  <2>2. Min({w.lo, w.hi}) \in 0 .. Unit /\ Max({w.lo, w.hi}) \in 0 .. Unit
    BY <2>1, LesserOfTwo
  <2> QED
    BY <2>1, <2>2 DEF Normal, Window
<1>3. PICK p \in 0 .. n, q \in 0 .. n :
        p <= q /\ s = [on |-> Normal(w).on, lo |-> p * u, hi |-> q * u]
  BY <1>2, SnappedOK
<1>4. ASSUME NEW on \in BOOLEAN, NEW a \in 0 .. n, NEW b \in 0 .. n, a < b
      PROVE  LET r == [on |-> on, lo |-> a * u, hi |-> b * u] IN r \in Window /\ OnPixels(r, n)
  <2>1. a * u \in 0 .. Unit /\ b * u \in 0 .. Unit /\ (a * u * n) % Unit = 0 /\ (b * u * n) % Unit = 0
    BY PixelOK
  <2>2. a * u < b * u
    BY <1>1, <1>4
  <2> HIDE DEF u
  <2> QED
    BY <2>1, <2>2 DEF Window, OnPixels
<1>5. Normal(w).on \in BOOLEAN
  BY <1>2 DEF Window
<1>6. s.lo = p * u /\ s.hi = q * u /\ s.on = Normal(w).on
  BY <1>3
<1> HIDE DEF s, u
<1>7. CASE p < q
  <2>1. q * u - p * u >= u
    BY <1>1, <1>7
  <2>2. Quantized(w, n) = s
    BY <1>6, <2>1 DEF Quantized, s, u
  <2> QED
    BY <1>3, <1>4, <1>5, <1>7, <2>2
<1>8. CASE p = q
  <2> DEFINE top == Min({Unit, s.lo + u})
             low == Max({0, top - u})
             e == [on |-> s.on, lo |-> low, hi |-> top]
             c == IF p = n THEN n - 1 ELSE p
  <2>1. c \in 0 .. n /\ c + 1 \in 0 .. n
    BY <1>1
  <2>2. p * u \in Int /\ n * u = Unit /\ c * u \in Int /\ (p + 1) * u = p * u + u
        /\ (c + 1) * u = c * u + u
    BY <1>1, <2>1
  <2>3. top = (c + 1) * u
    <3>1. CASE p = n
      <4>1. ~(Unit > p * u + u) /\ Unit = (c + 1) * u /\ p * u + u \in Int
        BY <1>1, <2>2, <3>1
      <4>2. Unit <= p * u + u
        BY <1>1, <4>1
      <4> QED
        BY <1>1, <1>6, <4>1, <4>2, LesserOfTwo
    <3>2. CASE p # n
      <4>1. (p + 1) * u <= n * u
        BY <1>1, <3>2
      <4>2. p * u + u <= Unit /\ p * u + u \in Int /\ c = p
        BY <1>1, <2>2, <3>2, <4>1
      <4> QED
        BY <1>1, <1>6, <2>2, <4>2, LesserOfTwo
    <3> QED
      BY <3>1, <3>2
  <2>4. low = c * u
    <3>1. top - u = c * u
      BY <2>2, <2>3, <1>1
    <3>2. 0 <= c * u
      BY <1>1, <2>1
    <3> HIDE DEF top, c
    <3>3. ASSUME NEW x \in Int, 0 <= x
          PROVE  Max({0, x}) = x
      <4>1. 0 \in Int
        OBVIOUS
      <4> QED
        BY <3>3, <4>1, LesserOfTwo
    <3>4. Max({0, c * u}) = c * u
      BY <2>2, <3>2, <3>3
    <3> QED
      BY <3>1, <3>4
  <2>5. c * u \in 0 .. Unit /\ (c + 1) * u \in 0 .. Unit
    BY <2>1, PixelOK DEF u
  <2> HIDE DEF top, low, c
  <2>6. e \in Window /\ e.lo = c * u /\ e.hi = (c + 1) * u /\ e.hi >= e.lo /\ e.on = s.on
    BY <1>1, <1>5, <1>6, <2>2, <2>3, <2>4, <2>5 DEF Window
  <2> HIDE DEF e
  <2>7. Snapped(e, n) = [on |-> s.on, lo |-> c * u, hi |-> (c + 1) * u]
    BY <2>1, <2>6, SnappedOK DEF u
  <2>8. ~(s.hi - s.lo >= u)
    BY <1>1, <1>6, <1>8, <2>2
  <2>9. Quantized(w, n) = Snapped(e, n)
    BY <2>8 DEF Quantized, s, u, e, top, low
  <2> QED
    BY <1>4, <1>5, <1>6, <2>1, <2>7, <2>9
<1> QED
  BY <1>3, <1>7, <1>8

\* The end of RenderUvPicker_
LEMMA FittedOK ==
  ASSUME DecalPanelAssumption, NEW d \in Ids, NEW w \in Window
  PROVE  /\ Fitted(d, w) \in Window /\ Fine(d, Fitted(d, w))
         /\ Pixels[d] \in Nat /\ (Pixels[d] > 0 <=> TextureOf(d) # NoId)
         /\ TextureOf(d) \in {NoId, d}
<1>1. Pixels[d] \in Nat /\ (Pixels[d] # 0 => Unit % Pixels[d] = 0)
  BY DEF DecalPanelAssumption
<1>2. (Pixels[d] > 0 <=> TextureOf(d) # NoId) /\ TextureOf(d) \in {NoId, d}
  BY DEF TextureOf, DecalPanelAssumption
<1>5. w.on \in BOOLEAN
  BY DEF Window
<1>3. CASE w.on /\ TextureOf(d) # NoId
  BY <1>1, <1>2, <1>3, QuantizedOK DEF Fitted, Fine
<1>4. CASE ~(w.on /\ TextureOf(d) # NoId)
  <2>1. Fitted(d, w) = w
    BY <1>4 DEF Fitted
  <2>2. w.on => ~(Pixels[d] > 0)
    BY <1>2, <1>4
  <2> QED
    BY <1>1, <1>2, <2>1, <2>2 DEF Fine
<1> QED
  BY <1>1, <1>2, <1>3, <1>4

\* The index of the presets, after a frame has drawn it.
LEMMA ChosenOK ==
  ASSUME PresetsOK, NEW d \in Ids, NEW k
  PROVE  Chosen(d, k) # 0 => Chosen(d, k) \in DOMAIN presets[d]
<1>1. presets[d] \in Seq(Preset)
  BY DEF PresetsOK
<1>2. presets[d] # <<>> => 1 \in DOMAIN presets[d]
  BY <1>1
<1> QED
  BY <1>2 DEF Chosen

\* A number is put between two others.
LEMMA WithinOK ==
  ASSUME NEW x \in Int, NEW lo \in Int, NEW hi \in Int, lo <= hi
  PROVE  Within(x, lo, hi) \in lo .. hi
<1>1. Min({hi, x}) \in Int /\ Min({hi, x}) <= hi
  BY LesserOfTwo
<1>2. \A z \in Int : Max({lo, z}) = IF lo <= z THEN z ELSE lo
  BY LesserOfTwo
<1>3. {x, hi} = {hi, x}
  OBVIOUS
<1> QED
  BY <1>1, <1>2, <1>3 DEF Within

\* The window that the player sets in numbers.
LEMMA BoundsOK ==
  ASSUME DecalPanelAssumption, DecalInv, decalDialog, SetBounds \/ \E n \in -1 .. 3 : SetPixels(n)
  PROVE  window' \in Window
<1>0. id \in Ids /\ window \in Window
  BY DEF DecalInv, DialogOK, TemplateOK
<1>1. Pixels[id] \in Nat /\ (Pixels[id] # 0 => Unit % Pixels[id] = 0) /\ Unit \in Nat \ {0}
      /\ (TextureOf(id) # NoId => Pixels[id] \in Nat \ {0})
  BY <1>0 DEF DecalPanelAssumption, TextureOf
<1>2. ASSUME NEW w \in Window, Bound(w)
      PROVE  window' \in Window
  <2>1. CASE TextureOf(id) = NoId
    <3>1. w.lo \in 0 .. Unit /\ w.hi \in 0 .. Unit /\ w.on \in BOOLEAN
      BY DEF Window
    <3>2. Min({w.lo, w.hi}) \in 0 .. Unit /\ Max({w.lo, w.hi}) \in 0 .. Unit
      <4>1. w.lo \in Int /\ w.hi \in Int
        BY <3>1
      <4>2. Min({w.lo, w.hi}) \in {w.lo, w.hi} /\ Max({w.lo, w.hi}) \in {w.lo, w.hi}
        BY <4>1, LesserOfTwo
      <4> QED
        BY <3>1, <4>2
    <3>3. Normal(w) \in Window
      BY <3>1, <3>2 DEF Normal, Window
    <3> QED
      BY <1>2, <2>1, <3>3 DEF Bound
  <2>2. CASE TextureOf(id) # NoId
    BY <1>1, <1>2, <2>2, QuantizedOK DEF Bound
  <2> QED
    BY <2>1, <2>2
<1>3. CASE SetBounds
  <2>1. window.on \in BOOLEAN /\ window.lo \in 0 .. Unit /\ window.hi \in 0 .. Unit
    BY <1>0 DEF Window
  <2>2. PICK e \in Edges : \/ Bound([on |-> window.on, lo |-> e, hi |-> window.hi])
                           \/ Bound([on |-> window.on, lo |-> window.lo, hi |-> e])
    BY <1>3 DEF SetBounds
  <2>3. e \in 0 .. Unit
    BY DEF DecalPanelAssumption
  <2>4. /\ [on |-> window.on, lo |-> e, hi |-> window.hi] \in Window
        /\ [on |-> window.on, lo |-> window.lo, hi |-> e] \in Window
    BY <2>1, <2>3 DEF Window
  <2> QED
    BY <1>2, <2>2, <2>4
<1>4. ASSUME NEW n \in Int, SetPixels(n)
      PROVE  window' \in Window
  <2> DEFINE m == Pixels[id]
             r == PixelRect(Fitted(id, window), m)
  <2>1. m \in Nat \ {0} /\ Unit % m = 0
    BY <1>1, <1>4 DEF SetPixels
  <2>2. m \in Int /\ m - 1 \in Int /\ 0 \in Int /\ 1 \in Int /\ 0 <= m - 1
    BY <2>1
  <2>3. r.x \in Int /\ r.width \in Int
    <3>1. Fitted(id, window).lo \in 0 .. Unit /\ Fitted(id, window).hi \in 0 .. Unit
      BY <1>0, FittedOK DEF Window
    <3>2. Pixel(Fitted(id, window).lo, m) \in 0 .. m /\ Pixel(Fitted(id, window).hi, m) \in 0 .. m
      BY <2>1, <3>1, PixelOK
    <3>6. Pixel(Fitted(id, window).lo, m) \in Int /\ Pixel(Fitted(id, window).hi, m) \in Int
      BY <3>2
    <3>3. Within(Pixel(Fitted(id, window).lo, m), 0, m - 1) \in 0 .. m - 1
      BY <2>2, <3>6, WithinOK
    <3> DEFINE x == Within(Pixel(Fitted(id, window).lo, m), 0, m - 1)
    <3> HIDE DEF x
    <3>4. Within(Pixel(Fitted(id, window).hi, m), x + 1, m) \in x + 1 .. m
      <4>1. x + 1 \in Int /\ x + 1 <= m
        BY <2>2, <3>3 DEF x
      <4> QED
        BY <2>2, <3>6, <4>1, WithinOK
    <3>5. r = [x |-> x, width |-> Within(Pixel(Fitted(id, window).hi, m), x + 1, m) - x]
      BY DEF PixelRect, x
    <3> HIDE DEF r
    <3> QED
      BY <3>3, <3>4, <3>5, <2>1 DEF x
  <2>4. ASSUME NEW x \in Int, NEW width \in Int
        PROVE  FromPixelRect(window, m, x, width) \in Window
    <3> DEFINE left == Within(x, 0, m - 1)
               wide == Within(width, 1, m - left)
               u == Unit \div m
               w == [on |-> TRUE, lo |-> left * u, hi |-> (left + wide) * u]
    <3>1. left \in 0 .. m - 1
      BY <2>2, WithinOK
    <3> HIDE DEF left
    <3>2. wide \in 1 .. m - left
      <4>1. m - left \in Int /\ 1 <= m - left
        BY <2>2, <3>1
      <4> QED
        BY <2>2, <4>1, WithinOK
    <3> HIDE DEF wide
    <3>3. left \in 0 .. m /\ left + wide \in 0 .. m
      BY <2>1, <3>1, <3>2
    <3>4. left * u \in 0 .. Unit /\ (left + wide) * u \in 0 .. Unit
      BY <2>1, <3>3, PixelOK
    <3>5. w \in Window
      BY <3>4 DEF Window
    <3>6. Quantized(w, m) \in Window
      <4> HIDE DEF w
      <4> QED
        BY <2>1, <3>5, QuantizedOK
    <3> QED
      BY <3>6 DEF FromPixelRect, left, wide
  <2> HIDE DEF r
  <2>5. \/ Bound(FromPixelRect(window, m, n, r.width))
        \/ Bound(FromPixelRect(window, m, r.x, n))
    BY <1>4 DEF SetPixels, r
  <2> QED
    BY <1>2, <2>3, <2>4, <2>5
<1>5. \A n \in -1 .. 3 : n \in Int
  OBVIOUS
<1> QED
  BY <1>3, <1>4, <1>5

\* The template keeps its types, whatever is typed, dragged or loaded.
LEMMA TemplateKept ==
  ASSUME DecalPanelAssumption, DecalInv, [DecalPanelNext]_decalPanelVars
  PROVE  TemplateOK'
<1>0. /\ TemplateOK /\ (decalDialog => id \in Ids)
      /\ window \in Window /\ drag' = drag => \A d \in drag' : d.from \in 0 .. Unit /\ d.before \in Window
  BY DEF DecalInv, DialogOK, TemplateOK
<1>1. selected' \in Ids \cup {NoId} /\ id' \in Ids \cup {NoId}
  BY <1>0
     DEF TemplateOK, DecalPanelNext, ChooseNext, DialogNext, decalPanelVars, list, template, picker, input,
         kept, SetDecalFilter, Scroll, Reset, ToggleFavorite, StopDecalPainting, DeviceReset, Pick, Click,
         SelectDecal, QueuePaint, StartPainting, ListedDecals, InDialog, SetDecalStyle, ToggleWindow, SetBounds,
         Bound, LoadPreset, DeletePreset, Start, Cancel, Press, Pull, Release, SetPixels,
         ChoosePreset, TypeName, SavePreset, Unlisted, DecalPanelAssumption
<1>2. decalStyle' \in DecalStyles
  <2>1. CASE LoadPreset
    <3>1. Chosen(id, index) \in DOMAIN presets[id] /\ presets[id] \in Seq(Preset)
      BY <1>0, <2>1, ChosenOK DEF LoadPreset, InDialog, DecalInv, PresetsOK
    <3>2. presets[id][Chosen(id, index)] \in Preset
      BY <3>1, LenProperties, ElementOfSeq
    <3> QED
      BY <2>1, <3>2 DEF LoadPreset, Preset
  <2>2. \/ LoadPreset \/ decalStyle' \in DecalStyles
    BY <1>0
       DEF TemplateOK, DecalPanelAssumption, DecalPanelNext, ChooseNext, DialogNext, decalPanelVars,
           template, SetDecalFilter, Scroll, Reset, ToggleFavorite, StopDecalPainting, DeviceReset, Pick,
           Click, SelectDecal, QueuePaint, StartPainting, SetDecalStyle, ToggleWindow, SetBounds, Bound,
           DeletePreset, Start, Cancel, Press, Pull, Release, SetPixels, ChoosePreset, TypeName,
           SavePreset
  <2> QED
    BY <2>1, <2>2
<1>3. name' \in Names \cup {NoName}
  <2>1. ASSUME NEW k, name' = presets[id][k].name, decalDialog, k \in DOMAIN presets[id]
        PROVE  name' \in Names
    <3>1. presets[id] \in Seq(Preset)
      BY <1>0, <2>1 DEF DecalInv, PresetsOK
    <3>2. presets[id][k] \in Preset
      BY <2>1, <3>1, LenProperties, ElementOfSeq
    <3> QED
      BY <2>1, <3>2 DEF Preset
  <2>2. CASE LoadPreset
    BY <1>0, <2>1, <2>2, ChosenOK DEF LoadPreset, InDialog, DecalInv
  <2>3. CASE \E k \in 1 .. MaxPresets : ChoosePreset(k)
    BY <2>1, <2>3 DEF ChoosePreset, InDialog
  <2>4. \/ LoadPreset \/ (\E k \in 1 .. MaxPresets : ChoosePreset(k)) \/ name' \in Names \cup {NoName}
    BY <1>0
       DEF TemplateOK, DecalPanelNext, ChooseNext, DialogNext, decalPanelVars, input, Steady, Another,
           SetDecalFilter, Scroll, Reset, ToggleFavorite, StopDecalPainting, DeviceReset, Pick, Click,
           SelectDecal, QueuePaint, StartPainting, SetDecalStyle, ToggleWindow, SetBounds, Bound,
           DeletePreset, Start, Cancel, Press, Pull, Release, SetPixels, TypeName, SavePreset
  <2> QED
    BY <2>2, <2>3, <2>4
<1>4. window' \in Window
  <2>1. ASSUME NEW d \in Ids, NEW w \in Window, window' = Fitted(d, w)
        PROVE  window' \in Window
    BY <2>1, FittedOK
  <2>2. Whole \in Window
    BY DEF Whole, Window, DecalPanelAssumption
  <2>3. window \in Window
    BY <1>0 DEF TemplateOK
  <2>4. CASE Reset \/ UNCHANGED window
    BY <2>2, <2>3, <2>4 DEF Reset
  <2>5. CASE \E d \in {selected} \cup ListedDecals(decalFilter) : d # NoId /\ QueuePaint(d)
    BY <1>0, <2>1, <2>3, <2>5 DEF TemplateOK, ListedDecals, QueuePaint, DialogDrawn, DecalPanelAssumption
  <2>6. CASE SetDecalStyle \/ DeletePreset \/ Start \/ Cancel
             \/ (\E x \in Edges : Press(x)) \/ (\E k \in 1 .. MaxPresets : ChoosePreset(k))
             \/ (\E n \in Names : TypeName(n)) \/ (\E asDefault \in BOOLEAN : SavePreset(asDefault))
    BY <1>0, <2>1, <2>3, <2>6
       DEF InDialog, SetDecalStyle, DeletePreset, Start, Cancel, Press, ChoosePreset, TypeName,
           SavePreset, DialogDrawn
  <2>7. CASE ToggleWindow
    <3>1. [on |-> TRUE, lo |-> window.lo, hi |-> window.hi] \in Window
      BY <2>3 DEF Window
    <3> QED
      BY <1>0, <2>1, <2>2, <2>7, <3>1 DEF ToggleWindow, InDialog, DialogDrawn
  <2>8. CASE \E x \in Edges : Pull(x)
    <3>1. PICK x \in Edges, d \in drag :
            /\ decalDialog /\ texture = id
            /\ window' = Fitted(id, Quantized([on |-> TRUE, lo |-> d.from, hi |-> x], Pixels[id]))
      BY <2>8 DEF Pull, DialogDrawn, InDialog
    <3>2. [on |-> TRUE, lo |-> d.from, hi |-> x] \in Window
      BY <1>0 DEF TemplateOK, Window, DecalPanelAssumption
    <3>3. id \in Ids /\ Pixels[id] # 0
      BY <1>0, <3>1 DEF DecalPanelAssumption, DecalInv, DialogOK
    <3>4. Pixels[id] \in Nat \ {0} /\ Unit % Pixels[id] = 0
      BY <3>3 DEF DecalPanelAssumption
    <3> QED
      BY <2>1, <3>1, <3>2, <3>3, <3>4, QuantizedOK
  <2>9. CASE \E x \in Edges : Release(x)
    <3>1. PICK d \in drag : decalDialog /\ window' \in {Fitted(id, window), Fitted(id, d.before)}
      BY <2>9 DEF Release, InDialog, DialogDrawn
    <3> QED
      BY <1>0, <2>1, <2>3, <3>1 DEF TemplateOK
  <2>10. CASE SetBounds \/ \E n \in -1 .. 3 : SetPixels(n)
    <3>1. decalDialog
      BY <2>10 DEF SetBounds, SetPixels, Bound, InDialog
    <3> QED
      BY <2>10, <3>1, BoundsOK
  <2>11. CASE LoadPreset
    <3>1. Chosen(id, index) \in DOMAIN presets[id] /\ presets[id] \in Seq(Preset)
      BY <1>0, <2>11, ChosenOK DEF LoadPreset, InDialog, DecalInv, PresetsOK
    <3>2. presets[id][Chosen(id, index)] \in Preset
      BY <3>1, LenProperties, ElementOfSeq
    <3> QED
      BY <2>11, <3>2 DEF LoadPreset, Preset
  <2> QED
    BY <2>4, <2>5, <2>6, <2>7, <2>8, <2>9, <2>10, <2>11
       DEF DecalPanelNext, ChooseNext, DialogNext, decalPanelVars, template, SetDecalFilter, Scroll,
           ToggleFavorite, StopDecalPainting, DeviceReset, Pick, Click, SelectDecal, StartPainting
<1>5. \A d \in drag' : d.from \in 0 .. Unit /\ d.before \in Window
  <2>1. CASE \E x \in Edges : Press(x)
    <3>1. PICK x \in Edges : drag' = {[from |-> x, before |-> window]}
      BY <2>1 DEF Press
    <3> QED
      BY <1>0, <3>1 DEF TemplateOK, DecalPanelAssumption
  <2>2. \/ (\E x \in Edges : Press(x)) \/ drag' \in {drag, {}}
    BY DEF DecalPanelNext, ChooseNext, DialogNext, decalPanelVars, picker, Steady, Another, Pick,
           SetDecalFilter, Scroll, Reset, ToggleFavorite, StopDecalPainting, DeviceReset, Click, LoadPreset,
           SelectDecal, QueuePaint, StartPainting, SetDecalStyle, ToggleWindow, SetBounds, Bound, ChoosePreset,
           DeletePreset, Start, Cancel, Pull, Release, SetPixels, TypeName, SavePreset
  <2> QED
    BY <1>0, <2>1, <2>2 DEF TemplateOK
<1> QED
  BY <1>1, <1>2, <1>3, <1>4, <1>5 DEF TemplateOK

\* Presets with one default among them are presets still.
LEMMA SettledOK ==
  ASSUME NEW ps \in Seq(Preset)
  PROVE  /\ Settled(ps) \in Seq(Preset) /\ DOMAIN Settled(ps) = DOMAIN ps
         /\ \A k \in DOMAIN ps : Settled(ps)[k].window = ps[k].window
<1> DEFINE taken == SelectInSeq(ps, LAMBDA p : p.default)
<1>1. \A k \in DOMAIN ps : ps[k] \in Preset
  BY LenProperties, ElementOfSeq
<1>2. \A k \in DOMAIN ps, b \in BOOLEAN :
        WithDefault(ps[k], b) \in Preset /\ WithDefault(ps[k], b).window = ps[k].window
  BY <1>1 DEF WithDefault, Preset
<1>3. Settled(ps) = [k \in DOMAIN ps |-> WithDefault(ps[k], k = IF taken = 0 THEN 1 ELSE taken)]
  BY DEF Settled
<1> HIDE DEF taken
<1>4. DOMAIN Settled(ps) = 1 .. Len(ps) /\ Len(ps) \in Nat
  BY <1>3, LenProperties
<1>5. \A k \in 1 .. Len(ps) : Settled(ps)[k] \in Preset /\ Settled(ps)[k].window = ps[k].window
  <2> SUFFICES ASSUME NEW k \in 1 .. Len(ps)
               PROVE  Settled(ps)[k] \in Preset /\ Settled(ps)[k].window = ps[k].window
    OBVIOUS
  <2>1. PICK b \in BOOLEAN : Settled(ps)[k] = WithDefault(ps[k], b)
    BY <1>3, <1>4
  <2> QED
    BY <1>2, <1>3, <1>4, <2>1
<1>6. Settled(ps) \in Seq(Preset)
  BY <1>3, <1>4, <1>5, IsASeq
<1> QED
  BY <1>3, <1>4, <1>5, <1>6

\* The presets of a decal once one of them is gone, and once one is saved.
LEMMA DeletedOK ==
  ASSUME PresetsOK, NEW d \in Ids, NEW k \in DOMAIN presets[d]
  PROVE  LET ps == Settled(RemoveAt(presets[d], k))
         IN ps \in Seq(Preset) /\ \A j \in DOMAIN ps : Fine(d, ps[j].window)
<1> DEFINE old == presets[d]
           rest == RemoveAt(old, k)
<1>1. old \in Seq(Preset) /\ DOMAIN old = 1 .. Len(old) /\ Len(old) \in Nat
      /\ \A j \in DOMAIN old : Fine(d, old[j].window)
  BY LenProperties DEF PresetsOK
<1>2. /\ rest \in Seq(Preset) /\ DOMAIN rest = 1 .. Len(old) - 1
      /\ \A j \in 1 .. Len(old) - 1 : rest[j] = IF j < k THEN old[j] ELSE old[j + 1]
  <2> HIDE DEF old
  <2> QED
    BY <1>1, RemoveAtOK DEF old
<1> HIDE DEF old, rest
<1>3. ASSUME NEW j \in DOMAIN rest PROVE Fine(d, rest[j].window)
  <2>1. CASE j < k
    BY <1>1, <1>2, <1>3, <2>1
  <2>2. CASE ~(j < k)
    <3>1. rest[j] = old[j + 1] /\ j + 1 \in DOMAIN old
      BY <1>1, <1>2, <1>3, <2>2
    <3> QED
      BY <1>1, <3>1
  <2> QED
    BY <2>1, <2>2
<1>4. Settled(rest) \in Seq(Preset) /\ \A j \in DOMAIN Settled(rest) : Fine(d, Settled(rest)[j].window)
  BY <1>2, <1>3, SettledOK
<1> QED
  BY <1>4 DEF rest, old

\* Presets with the one that is saved.
LEMMA SavedOK ==
  ASSUME DecalPanelAssumption, DecalInv, decalDialog, NEW asDefault \in BOOLEAN, SavePreset(asDefault)
  PROVE  /\ presets' \in [Ids -> Seq(Preset)] /\ index' \in DOMAIN presets'[id]
         /\ \A j \in DOMAIN presets'[id] : Fine(id, presets'[id][j].window)
         /\ \A d \in Ids \ {id} : presets'[d] = presets[d]
<1> DEFINE old == presets[id]
           known == SelectInSeq(old, LAMBDA p : p.name = name)
           I == {i \in 1 .. Len(old) : old[i].name = name}
           k == IF known = 0 THEN Len(old) + 1 ELSE known
           default == asDefault \/ old = <<>>
           p == [name |-> name, style |-> decalStyle, window |-> Fitted(id, window),
                 default |-> default \/ (known # 0 /\ old[known].default)]
           others == [j \in DOMAIN old |-> WithDefault(old[j], old[j].default /\ ~default)]
           all == IF known = 0 THEN Append(others, p) ELSE [others EXCEPT ![k] = p]
<1>1. /\ id \in Ids /\ window \in Window /\ decalStyle \in DecalStyles /\ name \in Names
      /\ presets \in [Ids -> Seq(Preset)]
      /\ \A j \in DOMAIN old : Fine(id, old[j].window)
  BY DEF DecalInv, DialogOK, TemplateOK, PresetsOK, SavePreset
<1>2. /\ presets' = [presets EXCEPT ![id] = Settled(all)] /\ index' = k
  BY DEF SavePreset
<1>3. old \in Seq(Preset) /\ DOMAIN old = 1 .. Len(old) /\ Len(old) \in Nat
      /\ \A j \in DOMAIN old : old[j] \in Preset
  BY <1>1, LenProperties, ElementOfSeq
<1> HIDE DEF old
<1>4. known \in 0 .. Len(old)
  <2>1. known = IF I # {} THEN Min(I) ELSE 0
    BY DEF SelectInSeq
  <2>2. IsFiniteSet(I) /\ I \in SUBSET Int /\ I \in SUBSET (1 .. Len(old))
    <3>1. I \in SUBSET (1 .. Len(old)) /\ IsFiniteSet(1 .. Len(old))
      BY <1>3, FS_Interval
    <3>2. IsFiniteSet(I)
      <4> HIDE DEF I
      <4> QED
        BY <3>1, FS_Subset
    <3>3. \A i \in I : i \in Int
      BY <1>3
    <3> HIDE DEF I
    <3> QED
      BY <3>1, <3>2, <3>3
  <2> HIDE DEF known, I
  <2>3. CASE I # {}
    <3>1. \E a \in I : \A x \in I : a <= x
      BY <2>2, <2>3, LeastAndGreatest
    <3>2. Min(I) \in I
      BY <3>1 DEF Min
    <3>3. Min(I) \in 1 .. Len(old)
      BY <2>2, <3>2
    <3>4. known = Min(I)
      BY <2>1, <2>3
    <3> QED
      BY <1>3, <3>3, <3>4
  <2> QED
    BY <1>3, <2>1, <2>3
<1> HIDE DEF known
<1>5. p \in Preset /\ Fine(id, p.window)
  <2>1. Fitted(id, window) \in Window /\ Fine(id, Fitted(id, window))
    BY <1>1, FittedOK
  <2>2. (default \/ (known # 0 /\ old[known].default)) \in BOOLEAN
    OBVIOUS
  <2> HIDE DEF default
  <2> QED
    BY <1>1, <2>1, <2>2 DEF Preset
<1> HIDE DEF p
<1>6. /\ others \in Seq(Preset) /\ DOMAIN others = 1 .. Len(old) /\ Len(others) = Len(old)
      /\ \A j \in 1 .. Len(old) : others[j] \in Preset /\ others[j].window = old[j].window
  <2> HIDE DEF default
  <2>1. \A j \in 1 .. Len(old) : others[j] = WithDefault(old[j], old[j].default /\ ~default)
    BY <1>3
  <2>2. \A j \in 1 .. Len(old), b \in BOOLEAN : WithDefault(old[j], b) \in Preset
                                                /\ WithDefault(old[j], b).window = old[j].window
    BY <1>3 DEF WithDefault, Preset
  <2>3. \A j \in 1 .. Len(old) : (old[j].default /\ ~default) \in BOOLEAN
    OBVIOUS
  <2>4. DOMAIN others = 1 .. Len(old)
    BY <1>3
  <2>5. \A j \in 1 .. Len(old) : others[j] \in Preset /\ others[j].window = old[j].window
    BY <2>1, <2>2, <2>3
  <2>6. others \in Seq(Preset)
    BY <1>3, <2>5, IsASeq
  <2> HIDE DEF others
  <2> QED
    BY <1>3, <2>4, <2>5, <2>6, LenProperties
<1> HIDE DEF others, default
<1>7. /\ all \in Seq(Preset) /\ k \in DOMAIN all
      /\ \A j \in DOMAIN all : Fine(id, all[j].window)
  <2>1. CASE known = 0
    <3>1. /\ Append(others, p) \in Seq(Preset) /\ Len(Append(others, p)) = Len(old) + 1
          /\ Append(others, p)[Len(old) + 1] = p
          /\ \A j \in 1 .. Len(old) : Append(others, p)[j] = others[j]
      BY <1>5, <1>6, AppendProperties
    <3>2. DOMAIN Append(others, p) = 1 .. Len(old) + 1
      BY <3>1, LenProperties
    <3>3. \A j \in 1 .. Len(old) + 1 : j \in 1 .. Len(old) \/ j = Len(old) + 1
      BY <1>3
    <3>4. \A j \in 1 .. Len(old) + 1 : Fine(id, Append(others, p)[j].window)
      BY <1>1, <1>3, <1>5, <1>6, <3>1, <3>3
    <3> QED
      BY <1>3, <2>1, <3>1, <3>2, <3>4
  <2>2. CASE known # 0
    <3>1. known \in 1 .. Len(old)
      BY <1>3, <1>4, <2>2
    <3>2. /\ [others EXCEPT ![known] = p] \in Seq(Preset)
          /\ DOMAIN [others EXCEPT ![known] = p] = 1 .. Len(old)
          /\ \A j \in 1 .. Len(old) :
               [others EXCEPT ![known] = p][j] = IF j = known THEN p ELSE others[j]
      BY <1>5, <1>6, <3>1, ExceptSeq
    <3>3. \A j \in 1 .. Len(old) : Fine(id, [others EXCEPT ![known] = p][j].window)
      BY <1>1, <1>3, <1>5, <1>6, <3>2
    <3> QED
      BY <2>2, <3>1, <3>2, <3>3
  <2> QED
    BY <2>1, <2>2
<1> HIDE DEF all, k
<1>8. /\ Settled(all) \in Seq(Preset) /\ k \in DOMAIN Settled(all)
      /\ \A j \in DOMAIN Settled(all) : Fine(id, Settled(all)[j].window)
  BY <1>7, SettledOK
<1> QED
  BY <1>1, <1>2, <1>8

\* Every preset is of whole pixels of the texture of its decal.
LEMMA PresetsKept ==
  ASSUME DecalPanelAssumption, DecalInv, [DecalPanelNext]_decalPanelVars
  PROVE  PresetsOK'
<1>0. /\ presets \in [Ids -> Seq(Preset)] /\ PresetsOK
      /\ \A d \in Ids : \A k \in DOMAIN presets[d] : Fine(d, presets[d][k].window)
  BY DEF DecalInv, PresetsOK
<1>1. CASE UNCHANGED presets
  BY <1>0, <1>1 DEF PresetsOK
<1>2. CASE ToggleFavorite
  <2>1. <<>> \in Seq(Preset) /\ DOMAIN <<>> = {}
    BY EmptySeq
  <2>2. selected \in Ids
    BY <1>2 DEF ToggleFavorite, DecalInv, TemplateOK
  <2>3. presets' \in {presets, [presets EXCEPT ![selected] = <<>>]}
    BY <1>2 DEF ToggleFavorite
  <2> QED
    BY <1>0, <2>1, <2>2, <2>3 DEF PresetsOK
<1>3. CASE DeletePreset
  <2>1. /\ id \in Ids /\ Chosen(id, index) \in DOMAIN presets[id]
        /\ presets' = [presets EXCEPT ![id] = Settled(RemoveAt(presets[id], Chosen(id, index)))]
    BY <1>0, <1>3, ChosenOK DEF DeletePreset, InDialog, DecalInv, DialogOK
  <2> DEFINE ps == Settled(RemoveAt(presets[id], Chosen(id, index)))
  <2>2. ps \in Seq(Preset) /\ \A j \in DOMAIN ps : Fine(id, ps[j].window)
    BY <1>0, <2>1, DeletedOK
  <2> HIDE DEF ps
  <2>3. presets' = [presets EXCEPT ![id] = ps]
    BY <2>1 DEF ps
  <2> QED
    BY <1>0, <2>1, <2>2, <2>3 DEF PresetsOK
<1>4. ASSUME NEW asDefault \in BOOLEAN, SavePreset(asDefault)
      PROVE  PresetsOK'
  <2>1. decalDialog
    BY <1>4 DEF SavePreset, InDialog
  <2> QED
    BY <1>0, <1>4, <2>1, SavedOK DEF PresetsOK
<1>5. \/ UNCHANGED presets \/ ToggleFavorite \/ DeletePreset
      \/ \E asDefault \in BOOLEAN : SavePreset(asDefault)
  BY DEF DecalPanelNext, ChooseNext, DialogNext, decalPanelVars, kept, SetDecalFilter, Scroll, Reset,
         StopDecalPainting, DeviceReset, Pick, Click, SelectDecal, QueuePaint, StartPainting, SetDecalStyle,
         ToggleWindow, SetBounds, Bound, LoadPreset, Start, Cancel, Press, Pull, Release,
         SetPixels, ChoosePreset, TypeName
<1> QED
  BY <1>1, <1>2, <1>3, <1>4, <1>5

\* The dialog, its texture, its preset and its name are about one decal.
LEMMA DialogKept ==
  ASSUME DecalPanelAssumption, DecalInv, [DecalPanelNext]_decalPanelVars
  PROVE  DialogOK' /\ PaintedOK'
<1>0. PresetsOK /\ DialogOK /\ PaintedOK /\ selected \in Ids \cup {NoId}
  BY DEF DecalInv, TemplateOK
<1>1. CASE UNCHANGED <<template, decalDialog, picker, input, presets, decalPainting>>
  BY <1>0, <1>1 DEF template, picker, input, DialogOK, PaintedOK
<1>2. CASE SetDecalFilter \/ Scroll \/ SelectDecal(selected) \/ \E d \in Ids : Pick(d) \/ SelectDecal(d)
  BY <1>1, <1>2 DEF SetDecalFilter, Scroll, SelectDecal, Pick, kept
<1>3. CASE Reset \/ ToggleFavorite
  BY <1>0, <1>3 DEF Reset, ToggleFavorite, DecalsCalm, picker, input, template, kept, DialogOK, PaintedOK
<1>4. CASE StopDecalPainting \/ DeviceReset
  BY <1>0, <1>4 DEF StopDecalPainting, DeviceReset, picker, input, template, kept, DialogOK, PaintedOK
<1>5. ASSUME NEW d \in Ids, NEW k
      PROVE  /\ TextureOf(d) \in {NoId, d} /\ (TextureOf(d) # NoId => Pixels[d] # 0)
             /\ Chosen(d, k) # 0 => Chosen(d, k) \in DOMAIN presets[d]
  BY <1>0, ChosenOK DEF TextureOf, DecalPanelAssumption
<1>6. ASSUME NEW d \in Ids, QueuePaint(d)
      PROVE  DialogOK' /\ PaintedOK'
  BY <1>0, <1>5, <1>6 DEF QueuePaint, Another, DialogDrawn, kept, DialogOK, PaintedOK
<1>7. ASSUME NEW d \in Ids, StartPainting(d)
      PROVE  DialogOK' /\ PaintedOK'
  BY <1>0, <1>5, <1>7 DEF StartPainting, DecalsCalm, Another, Begun, kept, DialogOK, PaintedOK
<1>8. CASE decalDialog /\ UNCHANGED <<id, key, presets>> /\ texture' = TextureOf(id)
           /\ (decalDialog' => (index' # 0 => index' \in DOMAIN presets[id]))
           /\ (name' # NoName => typedFor' = id) /\ decalPainting' \in {decalPainting, {[id |-> id, key |-> key]}}
  BY <1>0, <1>5, <1>8 DEF DialogOK, PaintedOK
<1>9. CASE SetDecalStyle \/ ToggleWindow \/ SetBounds \/ LoadPreset
  BY <1>0, <1>5, <1>8, <1>9
     DEF InDialog, SetDecalStyle, ToggleWindow, SetBounds, Bound, LoadPreset, DialogDrawn, Steady, kept, DialogOK
<1>10. CASE Start \/ Cancel
  BY <1>0, <1>5, <1>8, <1>10
     DEF InDialog, Start, Cancel, Begun, DialogDrawn, Steady, kept, DialogOK
<1>11. CASE (\E x \in Edges : Press(x) \/ Pull(x) \/ Release(x)) \/ \E n \in -1 .. 3 : SetPixels(n)
  BY <1>0, <1>5, <1>8, <1>11
     DEF InDialog, Press, Pull, Release, SetPixels, Bound, DialogDrawn, Steady, kept, DialogOK
<1>12. CASE (\E k \in 1 .. MaxPresets : ChoosePreset(k)) \/ \E n \in Names : TypeName(n)
  BY <1>0, <1>5, <1>8, <1>12 DEF InDialog, ChoosePreset, TypeName, DialogDrawn, kept, DialogOK
<1>13. CASE DeletePreset
  BY <1>0, <1>5, <1>13 DEF InDialog, DeletePreset, DialogOK, PaintedOK
<1>14. ASSUME NEW asDefault \in BOOLEAN, SavePreset(asDefault)
       PROVE  DialogOK' /\ PaintedOK'
  <2>1. decalDialog /\ UNCHANGED <<id, key, decalDialog, name, typedFor, decalPainting>> /\ texture' = TextureOf(id)
    BY <1>14 DEF SavePreset, InDialog
  <2>2. index' \in DOMAIN presets'[id]
    BY <1>14, <2>1, SavedOK
  <2> QED
    BY <1>0, <1>5, <2>1, <2>2 DEF DialogOK, PaintedOK
<1>15. \A d \in ListedDecals(decalFilter) : d \in Ids
  BY DEF ListedDecals, DecalPanelAssumption
<1> QED
  BY <1>0, <1>1, <1>2, <1>3, <1>4, <1>6, <1>7, <1>9, <1>10, <1>11, <1>12, <1>13, <1>14, <1>15
     DEF DecalPanelNext, ChooseNext, DialogNext, Click, decalPanelVars, kept

\* What is to be scrolled to is listed, if the grid has it at all.
LEMMA PickKept ==
  ASSUME DecalPanelAssumption, DecalInv, [DecalPanelNext]_decalPanelVars
  PROVE  PickOK'
<1>0. PickOK
  BY DEF DecalInv
<1>1. scroll \in Textures => ~DecalsCalm
  BY <1>0 DEF DecalsCalm, PickOK, DecalPanelAssumption
<1>2. CASE UNCHANGED <<decalFilter, scroll, shown>>
           /\ (scroll \notin Textures \/ (UNCHANGED favoriteDecals /\ ~decalDialog'))
  BY <1>0, <1>2 DEF PickOK, ListedDecals
<1>3. CASE SetDecalFilter
  BY <1>0, <1>1, <1>3 DEF SetDecalFilter, PickOK
<1>4. ASSUME NEW d \in Ids, Pick(d)
      PROVE  PickOK'
  BY <1>0, <1>4 DEF Pick, PickOK, ListedDecals, kept
<1>5. CASE Scroll
  BY <1>0, <1>5 DEF Scroll, PickOK, DecalPanelAssumption
<1>6. UNCHANGED <<decalFilter, scroll, shown>> \/ SetDecalFilter \/ Scroll \/ \E d \in Ids : Pick(d)
  BY DEF DecalPanelNext, ChooseNext, DialogNext, decalPanelVars, list, Unlisted, InDialog, Reset,
         ToggleFavorite, StopDecalPainting, DeviceReset, Click, SelectDecal, QueuePaint, StartPainting,
         SetDecalStyle, ToggleWindow, SetBounds, Bound, LoadPreset, DeletePreset, Start, Cancel, Press,
         Pull, Release, SetPixels, ChoosePreset, TypeName, SavePreset
<1>7. (UNCHANGED favoriteDecals /\ (decalDialog' => decalDialog)) \/ DecalsCalm \/ decalDialog
  BY DEF DecalPanelNext, ChooseNext, DialogNext, decalPanelVars, kept, InDialog, Reset, SetDecalFilter, Scroll, Pick,
         ToggleFavorite, StopDecalPainting, DeviceReset, Click, SelectDecal, QueuePaint, StartPainting,
         SetDecalStyle, ToggleWindow, SetBounds, Bound, LoadPreset, DeletePreset, Start, Cancel, Press,
         Pull, Release, SetPixels, ChoosePreset, TypeName, SavePreset
<1> QED
  BY <1>0, <1>1, <1>2, <1>3, <1>4, <1>5, <1>6, <1>7 DEF PickOK

\* Nothing is selected, open or painted at first.
LEMMA DecalStart ==
  ASSUME DecalPanelAssumption, DecalPanelInit
  PROVE  DecalInv
<1>1. Whole \in Window
  BY DEF Whole, Window, DecalPanelAssumption
<1>2. <<>> \in Seq(Preset) /\ DOMAIN <<>> = {}
  BY EmptySeq
<1>3. TemplateOK
  BY <1>1 DEF DecalPanelInit, TemplateOK, DecalPanelAssumption
<1>4. PresetsOK
  BY <1>2 DEF DecalPanelInit, PresetsOK
<1> QED
  BY <1>3, <1>4 DEF DecalPanelInit, DecalInv, DialogOK, PaintedOK, PickOK, DecalPanelAssumption

\* The invariant of the decals.
LEMMA DecalAlways ==
  ASSUME DecalPanelAssumption
  PROVE  DecalPanelSpec => []DecalInv
<1>1. DecalPanelInit => DecalInv
  BY DecalStart
<1>2. DecalInv /\ [DecalPanelNext]_decalPanelVars => DecalInv'
  BY TemplateKept, PresetsKept, DialogKept, PickKept DEF DecalInv
<1> QED
  BY <1>1, <1>2, PTL DEF DecalPanelSpec

\* The dialog, its picture, its presets and the painter are about one decal.
THEOREM OneDecalTheorem ==
  ASSUME DecalPanelAssumption
  PROVE  DecalPanelSpec => []OneDecalAtATime
<1>1. DecalInv => OneDecalAtATime
  BY DEF DecalInv, DialogOK, PaintedOK, OneDecalAtATime
<1> QED
  BY <1>1, DecalAlways, PTL

\* What was picked on the map, and is one of the grid's own, was shown in it.
THEOREM ShownTheorem ==
  ASSUME DecalPanelAssumption
  PROVE  DecalPanelSpec => []PickIsShown
<1>1. DecalInv => PickIsShown
  BY DEF DecalInv, PickOK, PickIsShown
<1> QED
  BY <1>1, DecalAlways, PTL

\* A window that is painted or saved is of whole pixels of its texture.
THEOREM WindowsTheorem ==
  ASSUME DecalPanelAssumption
  PROVE  DecalPanelSpec => WindowOnPixels
<1> DEFINE Left == decalDialog /\ ~decalDialog' /\ window'.on /\ Pixels[id] > 0 => OnPixels(window', Pixels[id])
           Saved == presets' # presets =>
             \A d \in Ids : \A k \in DOMAIN presets'[d] :
               presets'[d][k].window.on /\ Pixels[d] > 0 => OnPixels(presets'[d][k].window, Pixels[d])
<1>1. DecalInv /\ [DecalPanelNext]_decalPanelVars => [Left /\ Saved]_decalPanelVars
  <2> SUFFICES ASSUME DecalInv, [DecalPanelNext]_decalPanelVars
               PROVE  Left /\ Saved
    OBVIOUS
  <2>1. Saved
    BY PresetsKept DEF PresetsOK, Fine
  <2>2. ASSUME decalDialog, ~decalDialog'
        PROVE  Fine(id, window')
    <3>1. Start \/ Cancel
      BY <2>2
         DEF DecalPanelNext, ChooseNext, DialogNext, decalPanelVars, DecalsCalm, SetDecalFilter, Scroll, Pick,
             Reset, ToggleFavorite, StopDecalPainting, DeviceReset, Click, SelectDecal, QueuePaint,
             StartPainting, SetDecalStyle, ToggleWindow, SetBounds, Bound, LoadPreset, DeletePreset,
             Press, Pull, Release, SetPixels, ChoosePreset, TypeName, SavePreset
    <3>2. id \in Ids /\ window \in Window /\ window' = Fitted(id, window)
      BY <2>2, <3>1 DEF Start, Cancel, DialogDrawn, DecalInv, DialogOK, TemplateOK
    <3> QED
      BY <3>2, FittedOK
  <2> QED
    BY <2>1, <2>2 DEF Fine
<1> QED
  BY <1>1, DecalAlways, PTL DEF DecalPanelSpec, WindowOnPixels

-----------------------------------------------------------------------------
(* The parts side by side: each one does what it does alone, or nothing.    *)

\* A behavior of the parts side by side is one of each of them.
THEOREM EachPart ==
  SideBySide => SeasonalSpec /\ PropsTableSpec /\ FamiliesTabSpec /\ DecalPanelSpec
<1>1. SideBySideInit => SeasonalInit /\ PropsTableInit /\ FamiliesTabInit /\ DecalPanelInit
  BY DEF SideBySideInit
<1>2. [SideBySideNext]_sideVars =>
        /\ [SeasonalNext]_seasonalVars /\ [PropsTableNext]_propsTableVars
        /\ [FamiliesTabNext]_familiesTabVars /\ [DecalPanelNext]_decalPanelVars
  BY DEF SideBySideNext, sideVars
<1> QED
  BY <1>1, <1>2, PTL DEF SideBySide, SeasonalSpec, PropsTableSpec, FamiliesTabSpec, DecalPanelSpec

\* Every prop with a season is in one place, and every set is one that may be.
THEOREM SetsTheorem == SideBySide => []EachInOnePlace
<1>1. SeasonalInv => EachInOnePlace
  BY DEF SeasonalInv
<1> QED
  BY <1>1, EachPart, SeasonalAlways, PartsAssumption, PTL

\* The second pass of the detection leaves nothing alone that would fit.
THEOREM RescueTheorem == SideBySide => []NothingLeftThatFits
<1>1. SeasonalInv => NothingLeftThatFits
  BY PartsAssumption, NothingFits
<1> QED
  BY <1>1, EachPart, SeasonalAlways, PartsAssumption, PTL

\* The rows on screen are current, or rebuilt before they are drawn.
THEOREM RowsTheorem == SideBySide => []TableIsCurrent
BY EachPart, TableTheorem, PartsAssumption, PTL

\* What was picked on the map is listed, in the table of props and in the grid of
\* decals.
THEOREM PickTheorem == SideBySide => []PickIsListed
BY EachPart, FoundTheorem, ShownTheorem, PartsAssumption, PTL DEF PickIsListed

\* The newest of the recent paints is what is painted.
THEOREM RecentTheorem == SideBySide => []NewestIsPainted
BY EachPart, NewestTheorem, PartsAssumption, PTL

\* Only the selected family of the list is deleted, edited or painted.
THEOREM FamilyTheorem == SideBySide => ActsOnWhatIsListed
BY EachPart, ActsTheorem, PartsAssumption, PTL

\* The dialog of the decals is about one decal.
THEOREM DialogTheorem == SideBySide => []OneDecalAtATime
BY EachPart, OneDecalTheorem, PartsAssumption, PTL

\* A window that is painted or saved is of whole pixels.
THEOREM PixelTheorem == SideBySide => WindowOnPixels
BY EachPart, WindowsTheorem, PartsAssumption, PTL
=============================================================================
