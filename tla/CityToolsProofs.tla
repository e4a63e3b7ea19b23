-------------------------- MODULE CityToolsProofs --------------------------
(***************************************************************************)
(* The tools of the city keep their promises for any props, decals, plants, *)
(* spots, modes and limits.  Each kind of tools has an invariant of its own, *)
(* StripperInv, DecalInv and FloraInv; since one kind moves at a time, they  *)
(* hold of the tools side by side (EachPart).                               *)
(*                                                                         *)
(* Props: the properties of PropStripper are inductive together with        *)
(* NoCityNoProps.  Decals: PendingDecalsStandOut, HoverOnScreen and          *)
(* NoDecalLeftBehind are, together with two facts: no decal is on the undo  *)
(* stack twice, and a hover over a pending decal remembers the highlight    *)
(* and nothing else.  Flora: NoCrowd is, together with where the preview,   *)
(* the hover and what is lit can be (FloraPreviewOK, FloraHoverOK).          *)
(*                                                                         *)
(* That nothing is lost is counted: a step moves records one to one between *)
(* the city and a stack (Paired, OrderedCounts).  That hovering leaves no   *)
(* trace needs one more fact of the decals: a placement remembers the mode   *)
(* its decal is to have (DecalTraceInv).                                    *)
(***************************************************************************)
EXTENDS CityTools, OrderedProofs

-----------------------------------------------------------------------------
(* Counting.                                                               *)

\* What is taken out of a finite set, and what is left of it, is the set.
LEMMA Parted ==
  ASSUME NEW S, IsFiniteSet(S), NEW T \in SUBSET S
  PROVE  /\ Cardinality(S) \in Nat /\ Cardinality(T) \in Nat /\ IsFiniteSet(T)
         /\ Cardinality(S \ T) = Cardinality(S) - Cardinality(T)
<1>1. S \cap T = T
  OBVIOUS
<1>2. IsFiniteSet(T)
  BY FS_Subset
<1>3. Cardinality(S) \in Nat /\ Cardinality(T) \in Nat
  BY <1>2, FS_CardinalityType
<1>4. Cardinality(S \ T) = Cardinality(S) - Cardinality(S \cap T)
  BY FS_Difference
<1> QED
  BY <1>1, <1>2, <1>3, <1>4

\* Sets that have nothing in common count together.
LEMMA Joined ==
  ASSUME NEW S, IsFiniteSet(S), NEW T, IsFiniteSet(T), S \cap T = {}
  PROVE  /\ IsFiniteSet(S \cup T) /\ Cardinality(S) \in Nat /\ Cardinality(T) \in Nat
         /\ Cardinality(S \cup T) = Cardinality(S) + Cardinality(T)
<1>1. Cardinality(S) \in Nat /\ Cardinality(T) \in Nat
  BY FS_CardinalityType
<1>2. /\ IsFiniteSet(S \cup T)
      /\ Cardinality(S \cup T) = Cardinality(S) + Cardinality(T) - Cardinality(S \cap T)
  BY FS_Union
<1>3. Cardinality(S \cap T) = 0
  BY FS_EmptySet
<1> QED
  BY <1>1, <1>2, <1>3

\* Sets that are paired off are as large.
LEMMA Paired ==
  ASSUME NEW S, IsFiniteSet(S), NEW T, NEW f \in [S -> T],
         \A x, y \in S : f[x] = f[y] => x = y, \A z \in T : \E x \in S : f[x] = z
  PROVE  IsFiniteSet(T) /\ Cardinality(T) = Cardinality(S)
<1>1. f \in Surjection(S, T) /\ f \in Injection(S, T)
  BY DEF Surjection, Injection, IsInjective
<1> QED
  BY <1>1, FS_Surjection

\* How many, of how many: none, some, more than one.
LEMMA HowMany ==
  ASSUME NEW S, IsFiniteSet(S)
  PROVE  /\ Cardinality(S) \in Nat
         /\ Cardinality(S) > 0 <=> \E x \in S : TRUE
         /\ ~(Cardinality(S) > 1) => \A x, y \in S : x = y
<1>1. Cardinality(S) \in Nat
  BY FS_CardinalityType
<1>2. Cardinality(S) = 0 <=> S = {}
  BY FS_EmptySet
<1>3. Cardinality(S) = 1 <=> \E x : S = {x}
  BY FS_Singleton
<1>4. Cardinality(S) > 0 <=> \E x \in S : TRUE
  <2>1. Cardinality(S) > 0 <=> Cardinality(S) # 0
    BY <1>1
  <2> QED
    BY <1>2, <2>1
<1>5. ASSUME ~(Cardinality(S) > 1) PROVE \A x, y \in S : x = y
  <2>1. Cardinality(S) = 0 \/ Cardinality(S) = 1
    BY <1>1, <1>5
  <2> QED
    BY <1>2, <1>3, <2>1
<1> QED
  BY <1>1, <1>4, <1>5

-----------------------------------------------------------------------------
(* Counting in sequences.                                                  *)

\* Where d is in the sequence s.
At(s, d) == {i \in DOMAIN s : s[i] = d}

LEMMA AtFinite ==
  ASSUME NEW X, NEW s \in Seq(X), NEW d
  PROVE  IsFiniteSet(At(s, d)) /\ Cardinality(At(s, d)) \in Nat
<1>1. DOMAIN s = 1 .. Len(s) /\ Len(s) \in Nat
  BY LenProperties
<1>2. IsFiniteSet(DOMAIN s)
  BY <1>1, FiniteUpTo
<1>3. At(s, d) \subseteq DOMAIN s
  BY DEF At
<1> QED
  BY <1>2, <1>3, FS_Subset, FS_CardinalityType

\* What is in either of two sequences is in the two together.
LEMMA AppendedCounts ==
  ASSUME NEW X, NEW u \in Seq(X), NEW w \in Seq(X), NEW d
  PROVE  Cardinality(At(u \o w, d)) = Cardinality(At(u, d)) + Cardinality(At(w, d))
<1> DEFINE n == Len(u)
           m == Len(w)
           uw == u \o w
           late == {i \in n + 1 .. n + m : uw[i] = d}
           shift == [i \in At(w, d) |-> i + n]
<1>1. DOMAIN u = 1 .. n /\ n \in Nat /\ DOMAIN w = 1 .. m /\ m \in Nat
  BY LenProperties
<1>2. /\ uw \in Seq(X) /\ Len(uw) = n + m
      /\ \A i \in 1 .. n + m : uw[i] = IF i <= n THEN u[i] ELSE w[i - n]
  BY ConcatProperties
<1>3. DOMAIN uw = 1 .. n + m
  BY <1>2, LenProperties
<1> HIDE DEF n, m, uw
<1>4. \A i \in 1 .. n : i \in 1 .. n + m /\ uw[i] = u[i]
  BY <1>1, <1>2
<1>5. \A i \in 1 .. m : i + n \in n + 1 .. n + m /\ uw[i + n] = w[i]
  <2> TAKE i \in 1 .. m
  <2>1. i + n \in 1 .. n + m /\ ~(i + n <= n) /\ (i + n) - n = i /\ i + n \in n + 1 .. n + m
    BY <1>1
  <2> QED
    BY <1>2, <2>1
<1>6. \A i \in n + 1 .. n + m : i - n \in 1 .. m /\ (i - n) + n = i
  BY <1>1
<1>7. At(uw, d) = At(u, d) \cup late /\ At(u, d) \cap late = {}
  <2>1. \A i \in 1 .. n + m : i \in 1 .. n \/ i \in n + 1 .. n + m
    BY <1>1
  <2>2. \A i \in 1 .. n : i \notin n + 1 .. n + m
    BY <1>1
  <2>3. \A i \in n + 1 .. n + m : i \in 1 .. n + m
    BY <1>1
  <2> QED
    BY <1>1, <1>3, <1>4, <2>1, <2>2, <2>3 DEF At
<1>8. IsFiniteSet(At(w, d)) /\ IsFiniteSet(At(u, d))
  BY AtFinite
<1>9. shift \in [At(w, d) -> late]
  BY <1>1, <1>5 DEF At
<1>10. \A i, j \in At(w, d) : shift[i] = shift[j] => i = j
  <2>1. \A i \in At(w, d) : i \in Nat
    BY <1>1 DEF At
  <2>2. \A i, j \in Nat : i + n = j + n => i = j
    BY <1>1
  <2> QED
    BY <2>1, <2>2
<1>11. \A k \in late : \E i \in At(w, d) : shift[i] = k
  <2> SUFFICES ASSUME NEW k \in late PROVE \E i \in At(w, d) : shift[i] = k
    OBVIOUS
  <2>1. k - n \in 1 .. m /\ (k - n) + n = k /\ uw[k] = d
    BY <1>6
  <2>2. w[k - n] = d
    BY <1>5, <2>1
  <2>3. k - n \in At(w, d)
    BY <1>1, <2>1, <2>2 DEF At
  <2> QED
    BY <2>1, <2>3
<1> HIDE DEF late, shift
<1>12. IsFiniteSet(late) /\ Cardinality(late) = Cardinality(At(w, d))
  BY <1>8, <1>9, <1>10, <1>11, Paired
<1> QED
  BY <1>7, <1>8, <1>12, Joined DEF uw

\* The elements of G of value d; a list of the elements of G, each of them once.
Valued(G, val, d) == {x \in G : val[x] = d}
Lists(o, n, G) ==
  /\ o \in [1 .. n -> G] /\ \A x \in G : \E i \in 1 .. n : o[i] = x
  /\ \A i, j \in 1 .. n : o[i] = o[j] => i = j

\* A sequence in which every element of G has one place has as many values d as
\* G has elements of that value.
LEMMA OrderedCounts ==
  ASSUME NEW G, NEW n, IsFiniteSet(1 .. n), NEW o, Lists(o, n, G),
         NEW val, NEW w, w = [i \in 1 .. n |-> val[o[i]]], NEW d
  PROVE  Cardinality(Valued(G, val, d)) = Cardinality(At(w, d))
<1> DEFINE S == At(w, d)
           T == Valued(G, val, d)
           f == [i \in S |-> o[i]]
<1>1. S = {i \in 1 .. n : val[o[i]] = d}
  BY DEF At
<1>a. /\ o \in [1 .. n -> G] /\ T = {x \in G : val[x] = d}
      /\ \A x \in G : \E i \in 1 .. n : o[i] = x
      /\ \A i, j \in 1 .. n : o[i] = o[j] => i = j
  BY DEF Lists, Valued
<1>2. IsFiniteSet(S)
  BY <1>1, FS_Subset
<1>3. f \in [S -> T]
  BY <1>1, <1>a
<1>4. \A i, j \in S : f[i] = f[j] => i = j
  BY <1>1, <1>a
<1>5. \A x \in T : \E i \in S : f[i] = x
  BY <1>1, <1>a
<1> HIDE DEF S, T, f
<1>6. Cardinality(T) = Cardinality(S)
  BY <1>2, <1>3, <1>4, <1>5, Paired
<1> QED
  BY <1>6 DEF S, T

\* So it is when there are as many places as elements, and none is left out.
LEMMA OncePlaced ==
  ASSUME NEW G, IsFiniteSet(G), NEW o \in [1 .. Cardinality(G) -> G],
         \A x \in G : \E i \in 1 .. Cardinality(G) : o[i] = x
  PROVE  /\ IsFiniteSet(1 .. Cardinality(G)) /\ Cardinality(G) \in Nat
         /\ Lists(o, Cardinality(G), G)
<1>1. PICK n : n = Cardinality(G)
  OBVIOUS
<1>2. n \in Nat
  BY <1>1, FS_CardinalityType
<1>3. IsFiniteSet(1 .. n) /\ Cardinality(1 .. n) = n
  BY <1>2, FiniteUpTo
<1>4. o \in Surjection(1 .. n, G)
  BY <1>1 DEF Surjection
<1>5. o \in Injection(1 .. n, G)
  BY <1>1, <1>3, <1>4, FS_SurjSameCardinalityImpliesInj
<1>6. \A i, j \in 1 .. n : o[i] = o[j] => i = j
  BY <1>5 DEF Injection, IsInjective
<1> QED
  BY <1>1, <1>2, <1>3, <1>6 DEF Lists

\* The last one that is taken off was there once more.
LEMMA PoppedCounts ==
  ASSUME NEW X, NEW u \in Seq(X), u # <<>>, NEW d
  PROVE  /\ u[Len(u)] \in X
         /\ Cardinality(At(SubSeq(u, 1, Len(u) - 1), d)) \in Nat
         /\ Cardinality(At(u, d)) = Cardinality(At(SubSeq(u, 1, Len(u) - 1), d))
                                    + IF u[Len(u)] = d THEN 1 ELSE 0
<1> DEFINE n == Len(u)
           front == SubSeq(u, 1, n - 1)
<1>1. DOMAIN u = 1 .. n /\ n \in Nat /\ n # 0
  BY LenProperties, EmptySeq
<1>2. \A i \in 1 .. n : u[i] \in X
  BY <1>1, ElementOfSeq
<1>3. /\ front \in Seq(X) /\ Len(front) = n - 1
      /\ \A i \in 1 .. n - 1 : front[i] = u[i]
  <2> DEFINE m == n - 1
  <2>1. m \in Nat /\ \A i \in 1 .. m : u[i] \in X
    BY <1>1, <1>2
  <2> HIDE DEF m
  <2>2. /\ SubSeq(u, 1, m) \in Seq(X)
        /\ Len(SubSeq(u, 1, m)) = IF 1 <= m THEN m - 1 + 1 ELSE 0
        /\ \A i \in 1 .. m - 1 + 1 : SubSeq(u, 1, m)[i] = u[1 + i - 1]
    BY <2>1, SubSeqProperties
  <2>3. SubSeq(u, 1, m) \in Seq(X) /\ Len(SubSeq(u, 1, m)) = m
        /\ \A i \in 1 .. m : SubSeq(u, 1, m)[i] = u[i]
    BY <2>1, <2>2
  <2> QED
    BY <2>3 DEF m
<1>4. DOMAIN front = 1 .. n - 1
  BY <1>3, LenProperties
<1> HIDE DEF n, front
<1>5. n \in 1 .. n /\ n \notin 1 .. n - 1 /\ \A i : i \in 1 .. n <=> i \in 1 .. n - 1 \/ i = n
  BY <1>1
<1>6. IsFiniteSet(At(front, d)) /\ Cardinality(At(front, d)) \in Nat
  BY <1>3, AtFinite
<1>7. CASE u[n] = d
  <2>1. At(u, d) = At(front, d) \cup {n} /\ n \notin At(front, d)
    BY <1>1, <1>3, <1>4, <1>5, <1>7 DEF At
  <2>2. Cardinality(At(u, d)) = Cardinality(At(front, d)) + 1
    BY <1>6, <2>1, FS_AddElement
  <2> QED
    BY <1>2, <1>5, <1>6, <1>7, <2>2 DEF n, front
<1>8. CASE u[n] # d
  <2>1. At(u, d) = At(front, d)
    BY <1>1, <1>3, <1>4, <1>5, <1>8 DEF At
  <2> QED
    BY <1>2, <1>5, <1>6, <1>8, <2>1 DEF n, front
<1> QED
  BY <1>7, <1>8

-----------------------------------------------------------------------------
(* The prop stripper.                                                      *)

\* Without a prop manager there is no city, and StartPropStripping refuses.
NoCityNoProps == ~manager => ~active /\ DOMAIN city = {}

StripperInv ==
  /\ TypeOK
  /\ HighlightIsHover
  /\ ClickIsAimed
  /\ HeldMeansBrush
  /\ NothingAcrossCities
  /\ NoCityNoProps

-----------------------------------------------------------------------------
(* What the helpers change.                                                *)

LEMMA RestrictIs ==
  ASSUME NEW f, NEW S
  PROVE  /\ DOMAIN Restrict(f, S) = S
         /\ \A x \in S : Restrict(f, S)[x] = f[x]
  BY DEF Restrict

\* Removed props are counted, kind by kind.
LEMMA RecordedType ==
  ASSUME TypeOK, NEW gone \in SUBSET Occ
  PROVE  Recorded(gone) \in [Props -> Nat]
<1>1. ASSUME NEW p \in Props PROVE Cardinality({o \in gone : city[o] = p}) \in Nat
  <2>1. {o \in gone : city[o] = p} \subseteq Occ
    OBVIOUS
  <2>2. IsFiniteSet({o \in gone : city[o] = p})
    BY <2>1, FS_Subset, StripperAssumption DEF StripperAssumption
  <2> QED
    BY <2>2, FS_CardinalityType
<1> QED
  BY <1>1 DEF Recorded

LEMMA DeleteOK ==
  ASSUME TypeOK, NEW gone \in SUBSET DOMAIN city, Delete(gone),
         Len(undoStack) < MaxUndo \/ gone = {}
  PROVE  /\ DOMAIN city' = DOMAIN city \ gone
         /\ \A o \in DOMAIN city' : city'[o] = city[o]
         /\ undoStack' \in Seq([Props -> Nat]) /\ Len(undoStack') <= MaxUndo
<1>1. DOMAIN city' = DOMAIN city \ gone /\ \A o \in DOMAIN city' : city'[o] = city[o]
  BY RestrictIs DEF Delete
<1>2. undoStack' \in Seq([Props -> Nat]) /\ Len(undoStack') <= MaxUndo
  <2>1. CASE gone = {}
    BY <2>1 DEF Delete, TypeOK
  <2>2. CASE gone # {}
    <3>1. Recorded(gone) \in [Props -> Nat]
      BY RecordedType DEF TypeOK
    <3>2. undoStack' = Append(undoStack, Recorded(gone)) /\ Len(undoStack) < MaxUndo
      BY <2>2 DEF Delete
    <3> HIDE DEF Recorded
    <3>3. undoStack \in Seq([Props -> Nat])
      BY DEF TypeOK
    <3>4. Len(undoStack') = Len(undoStack) + 1 /\ undoStack' \in Seq([Props -> Nat])
      BY <3>1, <3>2, <3>3
    <3> QED
      BY <3>2, <3>3, <3>4, StripperAssumption DEF StripperAssumption
  <2> QED
    BY <2>1, <2>2
<1> QED
  BY <1>1, <1>2

\* A city with a group's props back has the props it had, and new ones that
\* nothing refers to.
LEMMA RestoredOK ==
  ASSUME TypeOK, NEW rec, NEW c \in Restored(rec)
  PROVE  /\ DOMAIN city \subseteq DOMAIN c
         /\ DOMAIN c \ DOMAIN city \subseteq Fresh
         /\ \A o \in DOMAIN city : c[o] = city[o]
         /\ Range(c) \subseteq Props
<1> DEFINE Back(g) == [o \in DOMAIN city \cup DOMAIN g |-> IF o \in DOMAIN city THEN city[o] ELSE g[o]]
           Gs == UNION {[new -> Props] : new \in SUBSET Fresh}
           Matching == {h \in Gs : \A p \in Props : Cardinality({o \in DOMAIN h : h[o] = p}) = rec[p]}
<1>a. c \in {Back(g) : g \in Matching}
  BY DEF Restored
<1>b. PICK g \in Matching : c = Back(g)
  <2> HIDE DEF Matching, Back
  <2> QED
    BY <1>a
<1>c. \E new \in SUBSET Fresh : g \in [new -> Props]
  BY <1>b
<1>1. PICK new \in SUBSET Fresh : g \in [new -> Props]
  BY <1>c
<1>2. c = Back(g)
  BY <1>b
<1> HIDE DEF Matching, Gs
<1>3. DOMAIN c = DOMAIN city \cup new /\ DOMAIN g = new
  BY ONLY <1>1, <1>2
<1>4. ASSUME NEW o \in DOMAIN c PROVE c[o] \in Props
  <2>1. CASE o \in DOMAIN city
    BY <1>2, <2>1 DEF TypeOK, Range
  <2>2. CASE o \notin DOMAIN city
    BY <1>1, <1>2, <1>3, <2>2
  <2> QED
    BY <2>1, <2>2
<1> QED
  BY <1>1, <1>2, <1>3, <1>4 DEF Range, Fresh

\* A group that is taken off the stack leaves a stack.
LEMMA PoppedOK ==
  ASSUME TypeOK, undoStack # <<>>, undoStack' = SubSeq(undoStack, 1, Len(undoStack) - 1)
  PROVE  undoStack' \in Seq([Props -> Nat]) /\ Len(undoStack') <= MaxUndo
<1>1. undoStack \in Seq([Props -> Nat]) /\ Len(undoStack) <= MaxUndo /\ MaxUndo \in Nat
  BY StripperAssumption DEF TypeOK, StripperAssumption
<1> QED
  BY <1>1

\* PickNearestProp_ in the city as it is: what it hovers is under the cursor.
LEMMA PickNearestOK ==
  ASSUME StripperInv, NEW c \in Places \cup {NoPlace}, PickNearest(c)
  PROVE  /\ hovered' \in Occ \cup {NoOcc} /\ lit' \subseteq Occ
         /\ lit' \subseteq DOMAIN city
         /\ lit' \ pending = ({hovered'} \cap DOMAIN city) \ pending
         /\ hovered' # NoOcc => hovered' \in Candidates(c)
<1>0. NoOcc \notin DOMAIN city /\ DOMAIN city \subseteq Occ
  BY StripperAssumption DEF StripperAssumption, StripperInv, TypeOK
<1>1. Candidates(c) \subseteq DOMAIN city
  BY DEF Candidates
<1> HIDE DEF Candidates
<1>2. lit \subseteq DOMAIN city /\ lit \ pending = ({hovered} \cap DOMAIN city) \ pending
      /\ hovered \in Occ \cup {NoOcc}
  BY DEF StripperInv, HighlightIsHover, TypeOK
<1>3. CASE Candidates(c) = {} /\ ClearHover
  BY <1>0, <1>2, <1>3 DEF ClearHover, Unlit
<1>4. CASE hovered \in Candidates(c) /\ UNCHANGED <<hovered, lit>>
  BY <1>0, <1>1, <1>2, <1>4
<1>5. CASE \E o \in Candidates(c) \ {hovered} : hovered' = o /\ lit' = Unlit(lit, hovered) \cup {o}
  BY <1>0, <1>1, <1>2, <1>5 DEF Unlit
<1> QED
  BY <1>3, <1>4, <1>5 DEF PickNearest

-----------------------------------------------------------------------------
(* The invariant, action by action.                                        *)

LEMMA StripperStart == Init => StripperInv
<1> SUFFICES ASSUME Init PROVE StripperInv
  OBVIOUS
<1>1. DOMAIN city = {} /\ undoStack = <<>> /\ undoStack \in Seq([Props -> Nat])
  BY DEF Init
<1>2. MaxUndo \in Nat /\ Len(undoStack) <= MaxUndo
  BY <1>1, StripperAssumption DEF StripperAssumption
<1> QED
  BY <1>1, <1>2
  DEF Init, StripperInv, TypeOK, HighlightIsHover, ClickIsAimed, HeldMeansBrush,
      NothingAcrossCities, NoCityNoProps, Sources, Range

LEMMA MoveOK ==
  ASSUME StripperInv, NEW c \in Places \cup {NoPlace}, Move(c)
  PROVE  StripperInv'
<1>1. CASE mode = "Brush"
  <2> DEFINE gone == IF leftDown THEN Candidates(c) ELSE {}
  <2>1. gone \in SUBSET DOMAIN city
    BY DEF Candidates
  <2>2. /\ active /\ cursor' = c /\ hovered' = NoOcc
        /\ Len(undoStack) < MaxUndo \/ gone = {}
        /\ Delete(gone)
        /\ lit' = Unlit(lit, hovered) \ gone
        /\ UNCHANGED <<pending, mode, leftDown, sources, active, cancel, manager>>
    BY <1>1 DEF Move
  <2> HIDE DEF gone
  <2>3. /\ DOMAIN city' = DOMAIN city \ gone
        /\ \A o \in DOMAIN city' : city'[o] = city[o]
        /\ undoStack' \in Seq([Props -> Nat]) /\ Len(undoStack') <= MaxUndo
    BY <2>1, <2>2, DeleteOK DEF StripperInv
  <2>4. TypeOK'
    BY <2>2, <2>3 DEF StripperInv, TypeOK, Range, Unlit
  <2>5. HighlightIsHover'
    BY <2>2, <2>3, StripperAssumption DEF StripperInv, TypeOK, HighlightIsHover, Unlit, StripperAssumption
  <2>6. ClickIsAimed' /\ HeldMeansBrush' /\ NothingAcrossCities' /\ NoCityNoProps'
    BY <2>2, <2>3 DEF StripperInv, ClickIsAimed, HeldMeansBrush, NothingAcrossCities, NoCityNoProps
  <2> QED
    BY <2>4, <2>5, <2>6 DEF StripperInv
<1>2. CASE mode # "Brush"
  <2>1. /\ active /\ cursor' = c /\ PickNearest(c)
        /\ UNCHANGED <<city, undoStack, pending, mode, leftDown, sources, active, cancel, manager>>
    BY <1>2 DEF Move
  <2>2. /\ hovered' \in Occ \cup {NoOcc} /\ lit' \subseteq Occ
        /\ lit' \subseteq DOMAIN city
        /\ lit' \ pending = ({hovered'} \cap DOMAIN city) \ pending
        /\ hovered' # NoOcc => hovered' \in Candidates(c)
    BY <2>1, PickNearestOK
  <2>3. TypeOK' /\ HighlightIsHover'
    BY <2>1, <2>2 DEF StripperInv, TypeOK, HighlightIsHover
  <2>4. ClickIsAimed'
    BY <1>2, <2>1, <2>2 DEF StripperInv, TypeOK, ClickIsAimed, Candidates
  <2>5. HeldMeansBrush' /\ NothingAcrossCities' /\ NoCityNoProps'
    BY <2>1 DEF StripperInv, HeldMeansBrush, NothingAcrossCities, NoCityNoProps
  <2> QED
    BY <2>3, <2>4, <2>5 DEF StripperInv
<1> QED
  BY <1>1, <1>2

LEMMA BrushClickOK ==
  ASSUME StripperInv, BrushClick
  PROVE  StripperInv'
<1>1. Candidates(cursor) \in SUBSET DOMAIN city
  BY DEF Candidates
<1> DEFINE gone == Candidates(cursor)
<1>2. /\ active /\ mode = "Brush" /\ leftDown' = TRUE
      /\ Len(undoStack) < MaxUndo \/ gone = {}
      /\ Delete(gone) /\ lit' = lit \ gone
      /\ UNCHANGED <<pending, hovered, mode, cursor, sources, active, cancel, manager>>
  BY DEF BrushClick
<1>3. gone \in SUBSET DOMAIN city
  BY <1>1
<1> HIDE DEF gone
<1>4. /\ DOMAIN city' = DOMAIN city \ gone
      /\ \A o \in DOMAIN city' : city'[o] = city[o]
      /\ undoStack' \in Seq([Props -> Nat]) /\ Len(undoStack') <= MaxUndo
  BY <1>2, <1>3, DeleteOK DEF StripperInv
<1>5. TypeOK'
  BY <1>2, <1>4 DEF StripperInv, TypeOK, Range
<1>6. HighlightIsHover' /\ ClickIsAimed'
  BY <1>2, <1>4 DEF StripperInv, HighlightIsHover, ClickIsAimed
<1>7. HeldMeansBrush' /\ NothingAcrossCities' /\ NoCityNoProps'
  BY <1>2, <1>4 DEF StripperInv, HeldMeansBrush, NothingAcrossCities, NoCityNoProps
<1> QED
  BY <1>5, <1>6, <1>7 DEF StripperInv

LEMMA SingleClickOK ==
  ASSUME StripperInv, SingleClick
  PROVE  StripperInv'
<1> DEFINE gone == IF hovered \in DOMAIN city THEN {hovered} \cup Siblings(hovered) ELSE {}
<1>1. gone \in SUBSET DOMAIN city /\ (hovered \in DOMAIN city => hovered \in gone)
  BY DEF Siblings, Candidates
<1>2. /\ Len(undoStack) < MaxUndo /\ Delete(gone)
      /\ lit' = lit \ ({hovered} \cup gone) /\ hovered' = NoOcc
      /\ UNCHANGED <<pending, mode, leftDown, cursor, sources, active, cancel, manager>>
      /\ active /\ mode = "Single"
  BY DEF SingleClick
<1> HIDE DEF gone
<1>3. /\ DOMAIN city' = DOMAIN city \ gone
      /\ \A o \in DOMAIN city' : city'[o] = city[o]
      /\ undoStack' \in Seq([Props -> Nat]) /\ Len(undoStack') <= MaxUndo
  BY <1>1, <1>2, DeleteOK DEF StripperInv
<1>4. TypeOK'
  BY <1>2, <1>3 DEF StripperInv, TypeOK, Range
<1>5. HighlightIsHover'
  BY <1>1, <1>2, <1>3, StripperAssumption
  DEF StripperInv, TypeOK, HighlightIsHover, StripperAssumption
<1>6. ClickIsAimed' /\ HeldMeansBrush' /\ NothingAcrossCities' /\ NoCityNoProps'
  BY <1>2, <1>3 DEF StripperInv, ClickIsAimed, HeldMeansBrush, NothingAcrossCities, NoCityNoProps
<1> QED
  BY <1>4, <1>5, <1>6 DEF StripperInv

\* Ctrl+Z, whether every prop comes back or not.
LEMMA UndoOK ==
  ASSUME StripperInv, UndoLastDeletion \/ UndoPartly
  PROVE  StripperInv'
<1>1. PICK rec : city' \in Restored(rec)
  BY DEF UndoLastDeletion, UndoPartly
<1>2. /\ active /\ undoStack # <<>>
      /\ undoStack' = SubSeq(undoStack, 1, Len(undoStack) - 1)
      /\ UNCHANGED <<lit, pending, hovered, mode, leftDown, cursor, sources, active, cancel, manager>>
  BY DEF UndoLastDeletion, UndoPartly
<1>3. /\ DOMAIN city \subseteq DOMAIN city'
      /\ DOMAIN city' \ DOMAIN city \subseteq Fresh
      /\ \A o \in DOMAIN city : city'[o] = city[o]
      /\ Range(city') \subseteq Props
  BY <1>1, RestoredOK DEF StripperInv
<1>4. undoStack' \in Seq([Props -> Nat]) /\ Len(undoStack') <= MaxUndo
  BY <1>2, PoppedOK DEF StripperInv
<1>5. TypeOK'
  BY <1>2, <1>3, <1>4 DEF StripperInv, TypeOK, Fresh
<1>6. hovered \in DOMAIN city' => hovered \in DOMAIN city
  BY <1>3 DEF Fresh
<1>7. HighlightIsHover' /\ ClickIsAimed'
  BY <1>2, <1>3, <1>6 DEF StripperInv, HighlightIsHover, ClickIsAimed
<1>8. HeldMeansBrush' /\ NothingAcrossCities' /\ NoCityNoProps'
  BY <1>2 DEF StripperInv, HeldMeansBrush, NothingAcrossCities, NoCityNoProps
<1> QED
  BY <1>5, <1>7, <1>8 DEF StripperInv

LEMMA ToggleModeOK ==
  ASSUME StripperInv, ToggleMode
  PROVE  StripperInv'
<1>1. /\ active /\ leftDown' = FALSE
      /\ UNCHANGED <<city, pending, undoStack, cursor, sources, active, cancel, manager>>
  BY DEF ToggleMode
<1>2. mode' \in {"Single", "Brush"} /\ (mode' = "Single" <=> mode # "Single")
  BY DEF ToggleMode
<1>3. /\ hovered' \in Occ \cup {NoOcc} /\ lit' \subseteq DOMAIN city
      /\ lit' \ pending = ({hovered'} \cap DOMAIN city) \ pending
      /\ hovered' # NoOcc => mode # "Single" /\ hovered' \in Candidates(cursor)
  <2>1. CASE mode = "Single"
    BY <2>1, StripperAssumption
    DEF ToggleMode, ClearHover, Unlit, StripperInv, TypeOK, HighlightIsHover, StripperAssumption
  <2>2. CASE mode # "Single"
    <3>1. PickNearest(cursor) /\ cursor \in Places \cup {NoPlace}
      BY <2>2 DEF ToggleMode, StripperInv, TypeOK
    <3> QED
      BY <2>2, <3>1, PickNearestOK
  <2> QED
    BY <2>1, <2>2
<1>4. TypeOK' /\ HighlightIsHover'
  BY <1>1, <1>2, <1>3 DEF StripperInv, TypeOK, HighlightIsHover
<1>5. ClickIsAimed'
  BY <1>1, <1>2, <1>3 DEF ClickIsAimed, Candidates
<1>6. HeldMeansBrush' /\ NothingAcrossCities' /\ NoCityNoProps'
  <2>1. ~manager => hovered' = NoOcc /\ lit' = {}
    BY <1>1 DEF StripperInv, NoCityNoProps
  <2> QED
    BY <1>1, <2>1 DEF StripperInv, HeldMeansBrush, NothingAcrossCities, NoCityNoProps
<1> QED
  BY <1>4, <1>5, <1>6 DEF StripperInv

\* The actions that only end a hover: the highlight goes with it.
LEMMA NoHoverOK ==
  ASSUME StripperInv, ClearHover,
         UNCHANGED <<city, pending, undoStack, cursor, mode, manager>>,
         leftDown' \in BOOLEAN, active' \in BOOLEAN, cancel' \in BOOLEAN, sources' \subseteq Sources,
         leftDown' => leftDown /\ active',
         ~manager => ~active'
  PROVE  StripperInv'
<1>1. hovered' = NoOcc /\ lit' = lit \ {hovered}
  BY DEF ClearHover, Unlit
<1>2. TypeOK'
  BY <1>1 DEF StripperInv, TypeOK
<1>3. HighlightIsHover'
  BY <1>1, StripperAssumption DEF StripperInv, TypeOK, HighlightIsHover, StripperAssumption
<1>4. ClickIsAimed' /\ HeldMeansBrush' /\ NothingAcrossCities' /\ NoCityNoProps'
  BY <1>1 DEF StripperInv, ClickIsAimed, HeldMeansBrush, NothingAcrossCities, NoCityNoProps
<1> QED
  BY <1>2, <1>3, <1>4 DEF StripperInv

LEMMA SessionOK ==
  ASSUME StripperInv, Director \/ EscOrRightClick \/ \E s \in CheckBoxes : SetEnabledSources(s)
  PROVE  StripperInv'
<1>1. CASE Start
  BY <1>1, NoHoverOK DEF Start, StripperInv, TypeOK
<1>2. CASE Stop \/ Tick
  BY <1>2, NoHoverOK DEF Stop, Tick, Deactivate, StripperInv, TypeOK
<1>3. CASE EscOrRightClick
  BY <1>3, NoHoverOK DEF EscOrRightClick, StripperInv, TypeOK, HeldMeansBrush, NoCityNoProps
<1>4. ASSUME NEW s \in CheckBoxes, SetEnabledSources(s) PROVE StripperInv'
  <2>1. s \subseteq Sources
    BY StripperAssumption DEF StripperAssumption
  <2>2. /\ sources' = s /\ ClearHover /\ leftDown' = FALSE
        /\ UNCHANGED <<city, pending, undoStack, mode, cursor, active, cancel, manager>>
    BY <1>4 DEF SetEnabledSources
  <2>3. active' \in BOOLEAN /\ cancel' \in BOOLEAN /\ (~manager => ~active')
    BY <2>2 DEF StripperInv, TypeOK, NoCityNoProps
  <2> QED
    BY <2>1, <2>2, <2>3, NoHoverOK
<1> QED
  BY <1>1, <1>2, <1>3, <1>4 DEF Director

LEMMA CityOK ==
  ASSUME StripperInv, CityInit \/ CityShutdown
  PROVE  StripperInv'
<1>1. CASE CityInit
  <2>1. hovered = NoOcc /\ lit = {} /\ undoStack = <<>> /\ ~active /\ ~leftDown
    BY <1>1 DEF CityInit, StripperInv, NothingAcrossCities, NoCityNoProps, HeldMeansBrush
  <2> QED
    BY <1>1, <2>1, StripperAssumption
    DEF StripperAssumption, CityInit, StripperInv, TypeOK, HighlightIsHover, ClickIsAimed, HeldMeansBrush,
        NothingAcrossCities, NoCityNoProps
<1>2. CASE CityShutdown
  <2>1. DOMAIN city' = {} /\ undoStack' = <<>> /\ undoStack' \in Seq([Props -> Nat])
    BY <1>2 DEF CityShutdown
  <2>2. MaxUndo \in Nat /\ Len(undoStack') <= MaxUndo
    BY <2>1, StripperAssumption DEF StripperAssumption
  <2> QED
    BY <1>2, <2>1, <2>2
    DEF CityShutdown, StripperInv, TypeOK, HighlightIsHover, ClickIsAimed, HeldMeansBrush,
        NothingAcrossCities, NoCityNoProps, Range
<1> QED
  BY <1>1, <1>2

LEMMA RemovedByOthersOK ==
  ASSUME StripperInv, NEW o \in Occ, RemovedByOthers(o)
  PROVE  StripperInv'
<1>1. /\ DOMAIN city' = DOMAIN city \ {o}
      /\ \A x \in DOMAIN city' : city'[x] = city[x]
      /\ lit' = lit \ {o}
      /\ UNCHANGED <<pending, hovered, undoStack, mode, leftDown, cursor, sources, active, cancel, manager>>
  BY RestrictIs DEF RemovedByOthers
<1>2. TypeOK'
  BY <1>1 DEF StripperInv, TypeOK, Range
<1>3. HighlightIsHover' /\ ClickIsAimed' /\ HeldMeansBrush' /\ NothingAcrossCities' /\ NoCityNoProps'
  BY <1>1 DEF StripperInv, HighlightIsHover, ClickIsAimed, HeldMeansBrush, NothingAcrossCities, NoCityNoProps
<1> QED
  BY <1>2, <1>3 DEF StripperInv

\* The paint tool works while the stripper is off screen and hovers nothing.
LEMMA PaintToolOK ==
  ASSUME StripperInv, Committed \/ \E batch \in Batches : Painted(batch)
  PROVE  StripperInv'
<1>1. ~active /\ hovered = NoOcc /\ NoOcc \notin Occ
      /\ UNCHANGED <<hovered, undoStack, mode, leftDown, cursor, sources, active, cancel, manager>>
  BY StripperAssumption DEF Committed, Painted, StripperInv, ClickIsAimed, StripperAssumption
<1>2. CASE Committed
  BY <1>1, <1>2
  DEF Committed, StripperInv, TypeOK, HighlightIsHover, ClickIsAimed, HeldMeansBrush,
      NothingAcrossCities, NoCityNoProps
<1>3. ASSUME NEW batch \in Batches, Painted(batch) PROVE StripperInv'
  <2>1. PICK f \in Injection(batch, Fresh) :
          /\ city' = [o \in DOMAIN city \cup Range(f) |->
                        IF o \in DOMAIN city THEN city[o] ELSE CHOOSE p \in batch : f[p] = o]
          /\ pending' = Range(f) /\ lit' = lit \cup Range(f)
    BY <1>3 DEF Painted
  <2>0. manager /\ pending = {}
    BY <1>3 DEF Painted
  <2>2. f \in [batch -> Fresh] /\ Range(f) \subseteq Fresh /\ batch \subseteq Props
    BY StripperAssumption DEF Injection, Range, StripperAssumption
  <2>3. DOMAIN city' = DOMAIN city \cup Range(f) /\ \A o \in DOMAIN city : city'[o] = city[o]
    BY <2>1
  <2>4. ASSUME NEW o \in DOMAIN city' PROVE city'[o] \in Props
    <3>1. CASE o \in DOMAIN city
      BY <2>3, <3>1 DEF StripperInv, TypeOK, Range
    <3>2. CASE o \notin DOMAIN city
      <4>1. \E p \in batch : f[p] = o
        BY <2>2, <2>3, <3>2 DEF Range
      <4>2. city'[o] = CHOOSE p \in batch : f[p] = o
        BY <2>1, <2>3, <3>2
      <4> QED
        BY <2>2, <4>1, <4>2
    <3> QED
      BY <3>1, <3>2
  <2>5. TypeOK'
    <3>1. Range(city') \subseteq Props
      BY <2>4 DEF Range
    <3>2. DOMAIN city' \subseteq Occ /\ lit' \subseteq Occ /\ pending' \subseteq Occ
      BY <2>1, <2>2, <2>3 DEF StripperInv, TypeOK, Fresh
    <3> QED
      BY <1>1, <3>1, <3>2 DEF StripperInv, TypeOK
  <2>6. HighlightIsHover'
    <3>1. lit = {} /\ Range(f) \cap Occ = Range(f)
      BY <1>1, <2>0, <2>2 DEF StripperInv, TypeOK, HighlightIsHover, Fresh
    <3> QED
      BY <1>1, <2>1, <2>2, <2>3, <3>1 DEF StripperInv, TypeOK, HighlightIsHover
  <2>7. ClickIsAimed' /\ HeldMeansBrush' /\ NothingAcrossCities' /\ NoCityNoProps'
    BY <1>1, <2>0 DEF StripperInv, ClickIsAimed, HeldMeansBrush, NothingAcrossCities, NoCityNoProps
  <2> QED
    BY <2>5, <2>6, <2>7 DEF StripperInv
<1> QED
  BY <1>2, <1>3

LEMMA StripperStep == StripperInv /\ [Next]_vars => StripperInv'
<1> SUFFICES ASSUME StripperInv, [Next]_vars PROVE StripperInv'
  OBVIOUS
<1>1. CASE Input
  <2>1. CASE ButtonUp
    BY <2>1 DEF ButtonUp, StripperInv, TypeOK, HighlightIsHover, ClickIsAimed, HeldMeansBrush,
                NothingAcrossCities, NoCityNoProps
  <2> QED
    BY <1>1, <2>1, MoveOK, BrushClickOK, SingleClickOK, UndoOK, ToggleModeOK, SessionOK DEF Input
<1>2. CASE Director
  BY <1>2, SessionOK
<1>3. CASE Others
  BY <1>3, CityOK, RemovedByOthersOK, PaintToolOK DEF Others
<1>4. CASE UNCHANGED vars
  BY <1>4 DEF vars, StripperInv, TypeOK, HighlightIsHover, ClickIsAimed, HeldMeansBrush,
              NothingAcrossCities, NoCityNoProps, Range
<1> QED
  BY <1>1, <1>2, <1>3, <1>4 DEF Next

-----------------------------------------------------------------------------
(* The theorems.                                                           *)

\* The inductive invariant.
THEOREM StripperInvariance == Spec => []StripperInv
  BY StripperStart, StripperStep, PTL DEF Spec

\* The stripper's state keeps its types.
THEOREM StripperTypeCorrect == Spec => []TypeOK
  BY StripperInvariance, PTL DEF StripperInv

\* SetHoveredProp_ and every path that drops a prop keep the highlight on the
\* hovered prop alone.
THEOREM HighlightFollowsHover == Spec => []HighlightIsHover
  BY StripperInvariance, PTL DEF StripperInv

\* DeleteHoveredProp_ deletes what is under the cursor, of a checked source.
THEOREM DeletesWhatIsAimedAt == Spec => []ClickIsAimed
  BY StripperInvariance, PTL DEF StripperInv

\* OnMouseMove brushes only in brush mode on screen, and SetCity(nullptr) leaves
\* nothing of the city behind.
THEOREM NothingIsCarriedOver == Spec => []NothingOutlivesSession
<1>1. StripperInv => NothingOutlivesSession
  BY DEF StripperInv, NothingOutlivesSession
<1> QED
  BY <1>1, StripperInvariance, PTL

-----------------------------------------------------------------------------
(* No prop is lost.                                                        *)

\* The props of kind p among the occupants S.
Of(S, p) == {o \in S : city[o] = p}

\* The records of p in the undo groups us.
Slots(us, p) == UNION {{i} \X (1 .. us[i][p]) : i \in DOMAIN us}

LEMMA TotalIs ==
  ASSUME NEW p
  PROVE  Total(p) = Cardinality(Of(DOMAIN city, p)) + Cardinality(Slots(undoStack, p))
  BY DEF Total, Of, Slots

LEMMA OfFinite ==
  ASSUME TypeOK, NEW S \in SUBSET Occ, NEW p
  PROVE  IsFiniteSet(Of(S, p)) /\ Cardinality(Of(S, p)) \in Nat
<1>1. Of(S, p) \subseteq Occ
  BY DEF Of
<1>2. IsFiniteSet(Of(S, p))
  BY <1>1, FS_Subset, StripperAssumption DEF StripperAssumption
<1> QED
  BY <1>2, FS_CardinalityType

\* The records of finitely many groups are finitely many.
LEMMA SlotsFinite ==
  ASSUME NEW us \in Seq([Props -> Nat]), NEW p \in Props
  PROVE  IsFiniteSet(Slots(us, p))
<1>1. DOMAIN us = 1 .. Len(us) /\ Len(us) \in Nat
  BY LenProperties
<1> DEFINE Rows == {{i} \X (1 .. us[i][p]) : i \in DOMAIN us}
           row == [i \in DOMAIN us |-> {i} \X (1 .. us[i][p])]
<1>2. ASSUME NEW i \in DOMAIN us PROVE IsFiniteSet({i} \X (1 .. us[i][p]))
  <2>1. us[i] \in [Props -> Nat]
    BY <1>1, ElementOfSeq
  <2>2. us[i][p] \in Nat
    BY <2>1
  <2>3. IsFiniteSet(1 .. us[i][p]) /\ IsFiniteSet({i})
    BY <2>2, FiniteUpTo, FS_Singleton
  <2> QED
    BY <2>3, FS_Product
<1>3. IsFiniteSet(DOMAIN us)
  BY <1>1, FiniteUpTo
<1>4. row \in Surjection(DOMAIN us, Rows)
  BY DEF Surjection
<1>5. IsFiniteSet(Rows)
  BY <1>3, <1>4, FS_Surjection
<1>6. \A T \in Rows : IsFiniteSet(T)
  BY <1>2
<1> HIDE DEF Rows
<1>7. IsFiniteSet(UNION Rows)
  BY <1>5, <1>6, FS_UNION
<1> QED
  BY <1>7 DEF Rows, Slots

LEMMA RowCounted ==
  ASSUME NEW k, NEW l \in Nat
  PROVE  IsFiniteSet({k} \X (1 .. l)) /\ Cardinality({k} \X (1 .. l)) = l
<1>1. IsFiniteSet(1 .. l) /\ Cardinality(1 .. l) = l
  BY FiniteUpTo
<1>2. IsFiniteSet({k}) /\ Cardinality({k}) = 1
  BY FS_Singleton
<1>3. IsFiniteSet({k} \X (1 .. l)) /\ Cardinality({k} \X (1 .. l)) = 1 * l
  BY <1>1, <1>2, FS_Product
<1>4. \A m \in Nat : 1 * m = m
  OBVIOUS
<1> QED
  BY <1>3, <1>4

\* A group more has its records more.
LEMMA SlotsGrow ==
  ASSUME NEW us \in Seq([Props -> Nat]), NEW rec \in [Props -> Nat], NEW p \in Props
  PROVE  /\ Cardinality(Slots(us, p)) \in Nat
         /\ Cardinality(Slots(Append(us, rec), p)) = Cardinality(Slots(us, p)) + rec[p]
<1> DEFINE n == Len(us)
           ws == Append(us, rec)
           Old(i) == {i} \X (1 .. us[i][p])
           New == {n + 1} \X (1 .. rec[p])
<1>1. DOMAIN us = 1 .. n /\ n \in Nat
  BY LenProperties
<1>2. /\ Len(ws) = n + 1 /\ ws \in Seq([Props -> Nat])
      /\ \A i \in 1 .. n : ws[i] = us[i]
      /\ ws[n + 1] = rec
  BY AppendProperties
<1>3. DOMAIN ws = 1 .. n + 1
  BY <1>2, LenProperties
<1>4. \A i : i \in 1 .. n + 1 <=> i \in 1 .. n \/ i = n + 1
  BY <1>1
<1> HIDE DEF ws, n
<1>5. \A r : r \in Slots(us, p) <=> \E i \in 1 .. n : r \in Old(i)
  BY <1>1 DEF Slots
<1>6. \A r : r \in Slots(ws, p) <=> \E i \in 1 .. n + 1 : r \in {i} \X (1 .. ws[i][p])
  BY <1>3 DEF Slots
<1>7. \A i \in 1 .. n : {i} \X (1 .. ws[i][p]) = Old(i)
  BY <1>2
<1>8. {n + 1} \X (1 .. ws[n + 1][p]) = New
  BY <1>2
<1>a. \A i, r : r \in Old(i) => r[1] = i
  OBVIOUS
<1>b. \A r : r \in New => r[1] = n + 1
  OBVIOUS
<1> HIDE DEF Old, New
<1>9. Slots(ws, p) = Slots(us, p) \cup New
  BY <1>4, <1>5, <1>6, <1>7, <1>8
<1>10. Slots(us, p) \cap New = {}
  <2>1. n + 1 \notin 1 .. n
    BY <1>1
  <2> QED
    BY <1>5, <1>a, <1>b, <2>1
<1>11. IsFiniteSet(New) /\ Cardinality(New) = rec[p]
  <2>1. rec[p] \in Nat
    OBVIOUS
  <2> QED
    BY <2>1, RowCounted DEF New
<1>12. IsFiniteSet(Slots(us, p))
  BY SlotsFinite
<1> QED
  BY <1>9, <1>10, <1>11, <1>12, Joined DEF ws

LEMMA FrontOfGroups ==
  ASSUME NEW us \in Seq([Props -> Nat]), us # <<>>
  PROVE  /\ SubSeq(us, 1, Len(us) - 1) \in Seq([Props -> Nat])
         /\ Len(SubSeq(us, 1, Len(us) - 1)) = Len(us) - 1
         /\ \A i \in 1 .. Len(us) - 1 : SubSeq(us, 1, Len(us) - 1)[i] = us[i]
<1>1. DOMAIN us = 1 .. Len(us) /\ Len(us) \in Nat /\ Len(us) # 0
  BY LenProperties, EmptySeq
<1> DEFINE n == Len(us) - 1
           front == SubSeq(us, 1, n)
<1>2. n \in Nat
  BY <1>1
<1>3. \A i \in 1 .. n : us[i] \in [Props -> Nat]
  BY <1>1, <1>2, ElementOfSeq
<1>4. /\ front \in Seq([Props -> Nat])
      /\ Len(front) = IF 1 <= n THEN n - 1 + 1 ELSE 0
      /\ \A i \in 1 .. n - 1 + 1 : front[i] = us[1 + i - 1]
  BY <1>2, <1>3, SubSeqProperties
<1>5. /\ front \in Seq([Props -> Nat]) /\ Len(front) = n
      /\ \A i \in 1 .. n : front[i] = us[i]
  BY <1>1, <1>2, <1>4
<1> QED
  BY <1>5

\* A group less has its records less.
LEMMA SlotsShrink ==
  ASSUME NEW us \in Seq([Props -> Nat]), us # <<>>, NEW p \in Props
  PROVE  /\ us[Len(us)] \in [Props -> Nat]
         /\ Cardinality(Slots(SubSeq(us, 1, Len(us) - 1), p)) \in Nat
         /\ Cardinality(Slots(us, p)) = Cardinality(Slots(SubSeq(us, 1, Len(us) - 1), p)) + us[Len(us)][p]
<1>1. DOMAIN us = 1 .. Len(us) /\ Len(us) \in Nat /\ Len(us) # 0
  BY LenProperties, EmptySeq
<1>2. us[Len(us)] \in [Props -> Nat]
  BY <1>1, ElementOfSeq
<1> DEFINE front == SubSeq(us, 1, Len(us) - 1)
           n == Len(us) - 1
<1>3. n \in Nat /\ n + 1 = Len(us)
  BY <1>1
<1>4. /\ front \in Seq([Props -> Nat]) /\ Len(front) = n
      /\ \A i \in 1 .. n : front[i] = us[i]
  BY <1>1, FrontOfGroups
<1> HIDE DEF front, n
<1>5. Append(front, us[Len(us)]) = us
  <2> DEFINE ws == Append(front, us[Len(us)])
  <2>1. /\ ws \in Seq([Props -> Nat]) /\ Len(ws) = n + 1
        /\ \A i \in 1 .. n : ws[i] = front[i]
        /\ ws[n + 1] = us[Len(us)]
    BY <1>2, <1>4, AppendProperties
  <2> HIDE DEF ws
  <2>2. \A i \in 1 .. Len(us) : i \in 1 .. n \/ i = n + 1
    BY <1>3
  <2>3. \A i \in 1 .. Len(us) : ws[i] = us[i]
    BY <1>3, <1>4, <2>1, <2>2
  <2>4. Len(ws) = Len(us)
    BY <1>3, <2>1
  <2>5. ws = us
    BY <2>1, <2>3, <2>4, SeqEqual
  <2> QED
    BY <2>5 DEF ws
<1>6. /\ Cardinality(Slots(front, p)) \in Nat
      /\ Cardinality(Slots(Append(front, us[Len(us)]), p)) = Cardinality(Slots(front, p)) + us[Len(us)][p]
  BY <1>2, <1>4, SlotsGrow
<1> QED
  BY <1>2, <1>5, <1>6 DEF front

LEMMA TotalThen ==
  ASSUME NEW p
  PROVE  Total(p)' = Cardinality({o \in DOMAIN city' : city'[o] = p}) + Cardinality(Slots(undoStack', p))
  BY DEF Total, Slots

\* How many of each kind are left, and how many are on record.
LEMMA DeleteCounts ==
  ASSUME TypeOK, NEW gone \in SUBSET DOMAIN city, Delete(gone), NEW p \in Props
  PROVE  /\ {o \in DOMAIN city' : city'[o] = p} = Of(DOMAIN city, p) \ Of(gone, p)
         /\ Of(gone, p) \subseteq Of(DOMAIN city, p)
         /\ Recorded(gone)[p] = Cardinality(Of(gone, p))
<1>1. DOMAIN city' = DOMAIN city \ gone /\ \A o \in DOMAIN city' : city'[o] = city[o]
  BY RestrictIs DEF Delete
<1>2. Recorded(gone)[p] = Cardinality(Of(gone, p))
  BY DEF Recorded, Of
<1> QED
  BY <1>1, <1>2 DEF Of

LEMMA DeleteLosesNothing ==
  ASSUME TypeOK, NEW gone \in SUBSET DOMAIN city, Delete(gone), NEW p \in Props
  PROVE  Total(p)' = Total(p)
<1> DEFINE All == Of(DOMAIN city, p)
           Part == Of(gone, p)
<1>1. /\ {o \in DOMAIN city' : city'[o] = p} = All \ Part /\ Part \subseteq All
      /\ Recorded(gone)[p] = Cardinality(Part)
  BY DeleteCounts
<1>2. gone \in SUBSET Occ /\ DOMAIN city \in SUBSET Occ
  BY DEF TypeOK
<1>3. IsFiniteSet(All)
  BY <1>2, OfFinite
<1> HIDE DEF All, Part
<1>4. /\ Cardinality(All) \in Nat /\ Cardinality(Part) \in Nat
      /\ Cardinality(All \ Part) = Cardinality(All) - Cardinality(Part)
  BY <1>1, <1>3, Parted
<1>5. Total(p) = Cardinality(All) + Cardinality(Slots(undoStack, p))
  BY TotalIs DEF All
<1>6. Total(p)' = Cardinality(All \ Part) + Cardinality(Slots(undoStack', p))
  BY <1>1, TotalThen
<1>7. undoStack \in Seq([Props -> Nat]) /\ Recorded(gone) \in [Props -> Nat]
  BY <1>2, RecordedType DEF TypeOK
<1>8. CASE gone = {}
  <2>1. Part = {} /\ undoStack' = undoStack
    BY <1>8 DEF Part, Of, Delete
  <2> QED
    BY <1>5, <1>6, <2>1
<1>9. CASE gone # {}
  <2>1. undoStack' = Append(undoStack, Recorded(gone))
    BY <1>9 DEF Delete
  <2>2. /\ Cardinality(Slots(undoStack, p)) \in Nat
        /\ Cardinality(Slots(undoStack', p)) = Cardinality(Slots(undoStack, p)) + Cardinality(Part)
    BY <1>1, <1>7, <2>1, SlotsGrow
  <2> QED
    BY <1>4, <1>5, <1>6, <2>2
<1> QED
  BY <1>8, <1>9

LEMMA RestoredCounts ==
  ASSUME TypeOK, NEW rec, NEW c \in Restored(rec), NEW p \in Props
  PROVE  /\ Cardinality(Of(DOMAIN city, p)) \in Nat /\ rec[p] \in Nat
         /\ Cardinality({o \in DOMAIN c : c[o] = p}) = Cardinality(Of(DOMAIN city, p)) + rec[p]
<1> DEFINE Back(g) == [o \in DOMAIN city \cup DOMAIN g |-> IF o \in DOMAIN city THEN city[o] ELSE g[o]]
           Gs == UNION {[new -> Props] : new \in SUBSET Fresh}
           Matching == {h \in Gs : \A q \in Props : Cardinality({o \in DOMAIN h : h[o] = q}) = rec[q]}
<1>a. c \in {Back(g) : g \in Matching}
  BY DEF Restored
<1>b. PICK g \in Matching : c = Back(g)
  <2> HIDE DEF Matching, Back
  <2> QED
    BY <1>a
<1>1. DOMAIN g \subseteq Fresh /\ Cardinality({o \in DOMAIN g : g[o] = p}) = rec[p]
  BY <1>b
<1>2. DOMAIN c = DOMAIN city \cup DOMAIN g /\ \A o \in DOMAIN c : c[o] = IF o \in DOMAIN city THEN city[o] ELSE g[o]
  BY <1>b
<1> DEFINE New == {o \in DOMAIN g : g[o] = p}
<1>3. DOMAIN g \cap DOMAIN city = {} /\ DOMAIN g \subseteq Occ /\ DOMAIN city \in SUBSET Occ
  BY <1>1 DEF Fresh, TypeOK
<1>4. {o \in DOMAIN c : c[o] = p} = Of(DOMAIN city, p) \cup New /\ Of(DOMAIN city, p) \cap New = {}
  BY <1>2, <1>3 DEF Of
<1>5. IsFiniteSet(New)
  <2>1. New \subseteq Occ
    BY <1>3
  <2> QED
    BY <2>1, FS_Subset, StripperAssumption DEF StripperAssumption
<1>6. IsFiniteSet(Of(DOMAIN city, p))
  BY <1>3, OfFinite
<1>7. Cardinality(New) = rec[p]
  BY <1>1
<1> HIDE DEF New
<1> QED
  BY <1>4, <1>5, <1>6, <1>7, Joined

LEMMA UndoLosesNothing ==
  ASSUME TypeOK, UndoLastDeletion, NEW p \in Props
  PROVE  Total(p)' = Total(p)
<1>1. undoStack # <<>> /\ city' \in Restored(undoStack[Len(undoStack)])
      /\ undoStack' = SubSeq(undoStack, 1, Len(undoStack) - 1)
      /\ undoStack \in Seq([Props -> Nat])
  BY DEF UndoLastDeletion, TypeOK
<1>2. /\ Cardinality(Of(DOMAIN city, p)) \in Nat
      /\ Cardinality({o \in DOMAIN city' : city'[o] = p})
           = Cardinality(Of(DOMAIN city, p)) + undoStack[Len(undoStack)][p]
  BY <1>1, RestoredCounts
<1>3. /\ undoStack[Len(undoStack)] \in [Props -> Nat]
      /\ Cardinality(Slots(undoStack', p)) \in Nat
      /\ Cardinality(Slots(undoStack, p)) = Cardinality(Slots(undoStack', p)) + undoStack[Len(undoStack)][p]
  BY <1>1, SlotsShrink
<1>4. undoStack[Len(undoStack)][p] \in Nat
  BY <1>3
<1> QED
  BY <1>2, <1>3, <1>4, TotalIs, TotalThen

-----------------------------------------------------------------------------
(* Sets stay whole.                                                        *)

SetMember(o, c, s) == city[o].place = c /\ city[o].source = s /\ city[o].type \in SeasonalSet

\* What of a set is gone: all of it, or nothing.
AllOrNone(gone) ==
  \A c \in Places, s \in Sources :
    \/ \A o \in DOMAIN city : SetMember(o, c, s) => o \in gone
    \/ \A o \in gone : ~SetMember(o, c, s)

LEMMA MembersAre ==
  ASSUME TypeOK, NEW S \in SUBSET DOMAIN city, NEW c, NEW s
  PROVE  Members(Recorded(S), c, s) = {city[o] : o \in {q \in S : SetMember(q, c, s)}}
<1>1. S \in SUBSET Occ
  BY DEF TypeOK
<1>2. \A o \in S : city[o] \in Props
  BY DEF TypeOK, Range
<1>3. ASSUME NEW p \in Props
      PROVE  Recorded(S)[p] > 0 <=> \E o \in S : city[o] = p
  <2>1. Recorded(S)[p] = Cardinality(Of(S, p))
    BY DEF Recorded, Of
  <2>2. IsFiniteSet(Of(S, p))
    BY <1>1, OfFinite
  <2>3. Cardinality(Of(S, p)) > 0 <=> \E o \in Of(S, p) : TRUE
    BY <2>2, HowMany
  <2>4. (\E o \in Of(S, p) : TRUE) <=> \E o \in S : city[o] = p
    BY DEF Of
  <2> QED
    BY <2>1, <2>3, <2>4
<1> HIDE DEF Recorded
<1> QED
  BY <1>2, <1>3 DEF Members, SetMember

\* A spot where no set is stacked has each type of the set once.
LEMMA OnceOnASpot ==
  ASSUME TypeOK, ~IsStacked(CityCount),
         NEW o \in DOMAIN city, NEW q \in DOMAIN city,
         city[o].type \in SeasonalSet, city[o].type = city[q].type, city[o].place = city[q].place
  PROVE  o = q
<1>1. DOMAIN city \in SUBSET Occ
  BY DEF TypeOK
<1>2. city[o] \in Props /\ city[q] \in Props
  BY DEF TypeOK, Range
<1>3. ASSUME NEW p \in Props
      PROVE  CityCount[p] = Cardinality(Of(DOMAIN city, p)) /\ IsFiniteSet(Of(DOMAIN city, p))
  BY <1>1, OfFinite DEF CityCount, Recorded, Of
<1>4. CityCount[city[o]] > 0 /\ CityCount[city[q]] > 0
  <2>1. o \in Of(DOMAIN city, city[o]) /\ q \in Of(DOMAIN city, city[q])
    BY DEF Of
  <2> QED
    BY <1>2, <1>3, <2>1, HowMany
<1>5. city[o] = city[q] /\ ~(CityCount[city[o]] > 1)
  <2> HIDE DEF CityCount
  <2> QED
    BY <1>2, <1>4 DEF IsStacked
<1>6. o \in Of(DOMAIN city, city[o]) /\ q \in Of(DOMAIN city, city[o])
  BY <1>5 DEF Of
<1> QED
  BY <1>2, <1>3, <1>5, <1>6, HowMany

\* RemoveSeasonalSetSiblings_ takes the whole set.
LEMMA SiblingsAreTheRest ==
  ASSUME StripperInv, Whole, ~IsStacked(CityCount), hovered \in DOMAIN city
  PROVE  AllOrNone({hovered} \cup Siblings(hovered))
<1> DEFINE gone == {hovered} \cup Siblings(hovered)
           at == city[hovered].place
           from == city[hovered].source
<1>1. TypeOK /\ from \in sources /\ hovered # NoOcc
  BY StripperAssumption DEF StripperInv, ClickIsAimed, TypeOK, StripperAssumption
<1>2. \A o \in DOMAIN city : city[o] \in Props
  BY <1>1 DEF TypeOK, Range
<1>3. \A o \in gone : o \in DOMAIN city /\ city[o].place = at /\ (o # hovered => city[o].type \in SeasonalSet /\ city[hovered].type \in SeasonalSet)
  BY DEF Siblings, Candidates
<1>4. CASE city[hovered].type \notin SeasonalSet
  BY <1>3, <1>4 DEF AllOrNone, SetMember
<1>5. CASE city[hovered].type \in SeasonalSet
  <2> SUFFICES ASSUME NEW c \in Places, NEW s \in Sources
               PROVE  \/ \A o \in DOMAIN city : SetMember(o, c, s) => o \in gone
                      \/ \A o \in gone : ~SetMember(o, c, s)
    BY DEF AllOrNone
  <2>1. CASE c # at
    BY <1>3, <2>1 DEF SetMember
  <2>2. CASE c = at /\ s = from
    <3>1. ASSUME NEW o \in DOMAIN city, SetMember(o, c, s), o # hovered
          PROVE  o \in Siblings(hovered)
      <4>1. city[o].type # city[hovered].type
        BY <1>1, <1>5, <2>2, <3>1, OnceOnASpot DEF SetMember
      <4> QED
        BY <1>1, <1>5, <2>2, <3>1, <4>1 DEF Siblings, Candidates, SetMember
    <3> QED
      BY <3>1
  <2>3. CASE c = at /\ s # from
    <3>1. ASSUME NEW q \in DOMAIN city, SetMember(q, c, s) PROVE FALSE
      <4>1. DOMAIN city \in SUBSET DOMAIN city
        OBVIOUS
      <4>2. Members(CityCount, c, s) = {city[o] : o \in {r \in DOMAIN city : SetMember(r, c, s)}}
        BY <1>1, <4>1, MembersAre DEF CityCount
      <4>3. city[q] \in Members(CityCount, c, s)
        BY <3>1, <4>2
      <4>4. {p.type : p \in Members(CityCount, c, s)} = SeasonalSet
        BY <4>3 DEF Whole, IsWhole
      <4>5. PICK p \in Members(CityCount, c, s) : p.type = city[hovered].type
        BY <1>5, <4>4
      <4>6. PICK o \in DOMAIN city : SetMember(o, c, s) /\ city[o] = p
        BY <4>2, <4>5
      <4>7. o = hovered
        BY <1>1, <1>5, <2>3, <4>5, <4>6, OnceOnASpot DEF SetMember
      <4> QED
        BY <2>3, <4>6, <4>7 DEF SetMember
    <3> QED
      BY <1>3, <3>1
  <2> QED
    BY <2>1, <2>2, <2>3
<1> QED
  BY <1>4, <1>5

\* A brush stroke takes every set of a checked source, and no other.
LEMMA StrokeTakesAll ==
  ASSUME NEW c
  PROVE  Candidates(c) \in SUBSET DOMAIN city /\ AllOrNone(Candidates(c))
  BY DEF Candidates, AllOrNone, SetMember

LEMMA DeleteKeepsWhole ==
  ASSUME TypeOK, Whole, NEW gone \in SUBSET DOMAIN city, AllOrNone(gone), Delete(gone)
  PROVE  Whole'
<1>0. DOMAIN city' = DOMAIN city \ gone /\ \A o \in DOMAIN city' : city'[o] = city[o]
  BY RestrictIs DEF Delete
<1> DEFINE left == DOMAIN city \ gone
<1>1. CityCount' = Recorded(left)
  BY <1>0 DEF CityCount, Recorded
<1>2. left \in SUBSET DOMAIN city /\ DOMAIN city \in SUBSET DOMAIN city
  OBVIOUS
<1>3. \A c \in Places, s \in Sources :
         /\ Members(Recorded(left), c, s) = {city[o] : o \in {q \in left : SetMember(q, c, s)}}
         /\ Members(Recorded(gone), c, s) = {city[o] : o \in {q \in gone : SetMember(q, c, s)}}
         /\ Members(CityCount, c, s) = {city[o] : o \in {q \in DOMAIN city : SetMember(q, c, s)}}
  BY <1>2, MembersAre DEF CityCount
<1>4. ASSUME NEW c \in Places, NEW s \in Sources
      PROVE  /\ Members(Recorded(left), c, s) \in {{}, Members(CityCount, c, s)}
             /\ Members(Recorded(gone), c, s) \in {{}, Members(CityCount, c, s)}
  <2>1. CASE \A o \in DOMAIN city : SetMember(o, c, s) => o \in gone
    <3>1. /\ {q \in left : SetMember(q, c, s)} = {}
          /\ {q \in gone : SetMember(q, c, s)} = {q \in DOMAIN city : SetMember(q, c, s)}
      BY <2>1
    <3>2. Members(Recorded(left), c, s) = {}
      <4>1. Members(Recorded(left), c, s) = {city[o] : o \in {q \in left : SetMember(q, c, s)}}
        BY <1>3
      <4> QED
        BY ONLY <3>1, <4>1
    <3>3. Members(Recorded(gone), c, s) = Members(CityCount, c, s)
      <4>1. /\ Members(Recorded(gone), c, s) = {city[o] : o \in {q \in gone : SetMember(q, c, s)}}
            /\ Members(CityCount, c, s) = {city[o] : o \in {q \in DOMAIN city : SetMember(q, c, s)}}
        BY <1>3
      <4> QED
        BY ONLY <3>1, <4>1
    <3> QED
      BY ONLY <3>2, <3>3
  <2>2. CASE \A o \in gone : ~SetMember(o, c, s)
    <3>1. /\ {q \in gone : SetMember(q, c, s)} = {}
          /\ {q \in left : SetMember(q, c, s)} = {q \in DOMAIN city : SetMember(q, c, s)}
      BY <2>2
    <3> QED
      BY <1>3, <3>1
  <2> QED
    BY <2>1, <2>2 DEF AllOrNone
<1> HIDE DEF left
<1>5. IsWhole(Recorded(left)) /\ IsWhole(Recorded(gone))
  <2> HIDE DEF Recorded, CityCount, Members
  <2>1. IsWhole(CityCount)
    BY DEF Whole
  <2> QED
    BY <1>4, <2>1 DEF IsWhole
<1>6. IsWhole(CityCount')
  BY <1>1, <1>5
<1>7. \A i \in DOMAIN undoStack' : IsWhole(undoStack'[i])
  <2>1. CASE gone = {}
    BY <2>1 DEF Delete, Whole
  <2>2. CASE gone # {}
    <3>1. PICK rec : rec = Recorded(gone)
      OBVIOUS
    <3>2. rec \in [Props -> Nat] /\ undoStack \in Seq([Props -> Nat])
      BY <3>1, RecordedType DEF TypeOK
    <3>3. undoStack' = Append(undoStack, rec) /\ IsWhole(rec)
      BY <1>5, <2>2, <3>1 DEF Delete
    <3>4. /\ Len(undoStack') = Len(undoStack) + 1
          /\ \A i \in 1 .. Len(undoStack) : undoStack'[i] = undoStack[i]
          /\ undoStack'[Len(undoStack) + 1] = rec
      BY <3>2, <3>3, AppendProperties
    <3>5. DOMAIN undoStack = 1 .. Len(undoStack) /\ DOMAIN undoStack' = 1 .. Len(undoStack) + 1
          /\ Len(undoStack) \in Nat
      BY <3>2, <3>3, <3>4, LenProperties, AppendProperties
    <3>6. \A i \in 1 .. Len(undoStack) + 1 : i \in 1 .. Len(undoStack) \/ i = Len(undoStack) + 1
      BY <3>5
    <3> QED
      BY <3>3, <3>4, <3>5, <3>6 DEF Whole
  <2> QED
    BY <2>1, <2>2
<1> QED
  BY <1>6, <1>7 DEF Whole

\* Whole sets that come back to whole sets leave whole sets.
LEMMA WholeTogether ==
  ASSUME NEW a \in [Props -> Nat], NEW b \in [Props -> Nat], NEW n \in [Props -> Nat],
         IsWhole(a), IsWhole(b), \A p \in Props : n[p] = a[p] + b[p]
  PROVE  IsWhole(n)
<1>1. \A p \in Props : n[p] > 0 <=> a[p] > 0 \/ b[p] > 0
  <2> SUFFICES ASSUME NEW p \in Props PROVE n[p] > 0 <=> a[p] > 0 \/ b[p] > 0
    OBVIOUS
  <2>1. a[p] \in Nat /\ b[p] \in Nat /\ n[p] = a[p] + b[p]
    OBVIOUS
  <2> QED
    BY <2>1
<1> SUFFICES ASSUME NEW c \in Places, NEW s \in Sources, Members(n, c, s) # {}
             PROVE  {p.type : p \in Members(n, c, s)} = SeasonalSet
  BY DEF IsWhole
<1>2. Members(n, c, s) = Members(a, c, s) \cup Members(b, c, s)
  BY <1>1 DEF Members
<1>3. \A k \in {a, b} : Members(k, c, s) = {} \/ {p.type : p \in Members(k, c, s)} = SeasonalSet
  BY DEF IsWhole
<1> HIDE DEF Members
<1> QED
  BY <1>2, <1>3

LEMMA UndoKeepsWhole ==
  ASSUME TypeOK, Whole, UndoLastDeletion
  PROVE  Whole'
<1>1. undoStack # <<>> /\ city' \in Restored(undoStack[Len(undoStack)])
      /\ undoStack' = SubSeq(undoStack, 1, Len(undoStack) - 1)
      /\ undoStack \in Seq([Props -> Nat])
  BY DEF UndoLastDeletion, TypeOK
<1>2. DOMAIN undoStack = 1 .. Len(undoStack) /\ Len(undoStack) \in Nat /\ Len(undoStack) # 0
  BY <1>1, LenProperties, EmptySeq
<1>3. PICK rec \in [Props -> Nat] : rec = undoStack[Len(undoStack)] /\ IsWhole(rec)
  <2>1. Len(undoStack) \in DOMAIN undoStack
    BY <1>2
  <2> QED
    BY <1>1, <1>2, <2>1, ElementOfSeq DEF Whole
<1>4. ASSUME NEW p \in Props
      PROVE  CityCount'[p] = CityCount[p] + rec[p] /\ CityCount[p] \in Nat
  <2>1. CityCount'[p] = Cardinality({o \in DOMAIN city' : city'[o] = p})
    BY DEF CityCount, Recorded
  <2>2. CityCount[p] = Cardinality(Of(DOMAIN city, p))
    BY DEF CityCount, Recorded, Of
  <2> QED
    BY <1>1, <1>3, <2>1, <2>2, RestoredCounts
<1>5. CityCount \in [Props -> Nat] /\ CityCount' \in [Props -> Nat]
  <2>1. CityCount = [p \in Props |-> CityCount[p]] /\ CityCount' = [p \in Props |-> CityCount'[p]]
    BY DEF CityCount, Recorded
  <2>2. \A p \in Props : CityCount[p] \in Nat /\ CityCount'[p] \in Nat
    BY <1>3, <1>4
  <2> HIDE DEF CityCount
  <2> QED
    BY <2>1, <2>2
<1>6. IsWhole(CityCount)
  BY DEF Whole
<1>7. IsWhole(CityCount')
  <2> HIDE DEF CityCount
  <2> QED
    BY <1>3, <1>4, <1>5, <1>6, WholeTogether
<1>8. ASSUME NEW i \in DOMAIN undoStack' PROVE IsWhole(undoStack'[i])
  <2>1. /\ Len(undoStack') = Len(undoStack) - 1 /\ undoStack' \in Seq([Props -> Nat])
        /\ \A k \in 1 .. Len(undoStack) - 1 : undoStack'[k] = undoStack[k]
    BY <1>1, <1>2, FrontOfGroups
  <2>2. i \in 1 .. Len(undoStack) - 1 /\ i \in DOMAIN undoStack
    BY <1>2, <2>1, LenProperties
  <2> QED
    BY <2>1, <2>2 DEF Whole
<1> QED
  BY <1>7, <1>8 DEF Whole

\* What a step of the stripper does to the city: it deletes, undoes, or lets be.
LEMMA StripperDeletes ==
  ASSUME StripperInv, [Next]_vars, ~(UndoPartly \/ Others)
  PROVE  \/ UNCHANGED <<city, undoStack>>
         \/ UndoLastDeletion
         \/ \E gone \in SUBSET DOMAIN city :
              Delete(gone) /\ (Whole /\ ~IsStacked(CityCount) => AllOrNone(gone))
<1> DEFINE Deletes == \E gone \in SUBSET DOMAIN city :
                        Delete(gone) /\ (Whole /\ ~IsStacked(CityCount) => AllOrNone(gone))
<1> SUFFICES UNCHANGED <<city, undoStack>> \/ UndoLastDeletion \/ Deletes
  OBVIOUS
<1>1. ASSUME NEW c, Delete(Candidates(c)) PROVE Deletes
  BY <1>1, StrokeTakesAll
<1>2. ASSUME Delete({}) PROVE Deletes
  BY <1>2 DEF AllOrNone
<1>3. ASSUME NEW c \in Places \cup {NoPlace}, Move(c)
      PROVE  UNCHANGED <<city, undoStack>> \/ Deletes
  <2>1. CASE mode = "Brush" /\ leftDown
    BY <1>1, <1>3, <2>1 DEF Move
  <2>2. CASE mode = "Brush" /\ ~leftDown
    BY <1>2, <1>3, <2>2 DEF Move
  <2>3. CASE mode # "Brush"
    BY <1>3, <2>3 DEF Move
  <2> HIDE DEF Deletes
  <2> QED
    BY <2>1, <2>2, <2>3
<1>4. ASSUME BrushClick PROVE Deletes
  BY <1>1, <1>4 DEF BrushClick
<1>5. ASSUME SingleClick PROVE Deletes
  <2>1. CASE hovered \in DOMAIN city
    <3> DEFINE gone == {hovered} \cup Siblings(hovered)
    <3>1. Delete(gone)
      BY <1>5, <2>1 DEF SingleClick
    <3>2. gone \in SUBSET DOMAIN city
      BY <2>1 DEF Siblings, Candidates
    <3>3. Whole /\ ~IsStacked(CityCount) => AllOrNone(gone)
      BY <2>1, SiblingsAreTheRest
    <3> HIDE DEF gone
    <3> QED
      BY <3>1, <3>2, <3>3
  <2>2. CASE hovered \notin DOMAIN city
    BY <1>2, <1>5, <2>2 DEF SingleClick
  <2> HIDE DEF Deletes
  <2> QED
    BY <2>1, <2>2
<1>6. ASSUME ButtonUp \/ ToggleMode \/ EscOrRightClick \/ Director \/ \E s \in CheckBoxes : SetEnabledSources(s)
      PROVE  UNCHANGED <<city, undoStack>>
  BY <1>6 DEF ButtonUp, ToggleMode, EscOrRightClick, Director, Start, Stop, Tick, SetEnabledSources
<1>7. CASE UNCHANGED vars
  BY <1>7 DEF vars
<1> HIDE DEF Deletes
<1>8. CASE Input
  <2>1. CASE \E c \in Places \cup {NoPlace} : Move(c)
    BY <1>3, <2>1
  <2>2. CASE BrushClick \/ SingleClick
    BY <1>4, <1>5, <2>2
  <2>3. CASE ButtonUp \/ ToggleMode \/ EscOrRightClick \/ \E s \in CheckBoxes : SetEnabledSources(s)
    BY <1>6, <2>3
  <2>4. CASE UndoLastDeletion
    BY <2>4
  <2> QED
    BY <1>8, <2>1, <2>2, <2>3, <2>4 DEF Input
<1>9. CASE Director
  BY <1>6, <1>9
<1> QED
  BY <1>7, <1>8, <1>9 DEF Next

LEMMA NothingLostStep ==
  ASSUME StripperInv, [Next]_vars
  PROVE  (\A p \in Props : Total(p)' = Total(p)) \/ UndoPartly \/ Others
<1>0. TypeOK
  BY DEF StripperInv
<1>1. CASE UNCHANGED <<city, undoStack>>
  BY <1>1 DEF Total
<1>2. CASE UndoLastDeletion
  BY <1>0, <1>2, UndoLosesNothing
<1>3. CASE \E gone \in SUBSET DOMAIN city : Delete(gone)
  BY <1>0, <1>3, DeleteLosesNothing
<1> QED
  BY <1>1, <1>2, <1>3, StripperDeletes

LEMMA StaysWholeStep ==
  ASSUME StripperInv, [Next]_vars
  PROVE  Whole /\ ~IsStacked(CityCount) => Whole' \/ UndoPartly \/ Others
<1> SUFFICES ASSUME Whole, ~IsStacked(CityCount), ~(UndoPartly \/ Others) PROVE Whole'
  OBVIOUS
<1>0. TypeOK
  BY DEF StripperInv
<1>1. CASE UNCHANGED <<city, undoStack>>
  <2>1. CityCount' = CityCount
    BY <1>1 DEF CityCount, Recorded
  <2> QED
    BY <1>1, <2>1 DEF Whole
<1>2. CASE UndoLastDeletion
  BY <1>0, <1>2, UndoKeepsWhole
<1>3. CASE \E gone \in SUBSET DOMAIN city :
              Delete(gone) /\ (Whole /\ ~IsStacked(CityCount) => AllOrNone(gone))
  BY <1>0, <1>3, DeleteKeepsWhole
<1> QED
  BY <1>1, <1>2, <1>3, StripperDeletes

\* DeletedPropInfo keeps what RecreateProp_ needs: the props in the city and on
\* the undo stack stay the same ones.
THEOREM NothingLostTheorem == Spec => NothingLost
<1>1. StripperInv /\ [Next]_vars =>
        [(\A p \in Props : Total(p)' = Total(p)) \/ UndoPartly \/ Others]_vars
  BY NothingLostStep
<1> QED
  BY <1>1, StripperInvariance, PTL DEF Spec, NothingLost

\* RemoveSeasonalSetSiblings_ and the brush take a set or leave it.
THEOREM StaysWholeTheorem == Spec => SetsStayWhole
<1>1. StripperInv /\ [Next]_vars =>
        [Whole /\ ~IsStacked(CityCount) => Whole' \/ UndoPartly \/ Others]_vars
  BY StaysWholeStep
<1> QED
  BY <1>1, StripperInvariance, PTL DEF Spec, SetsStayWhole

-----------------------------------------------------------------------------
(* The decal tools.                                                        *)

Decal == [mode : Nat, own : Nat]
Placement == [id : Ids, committed : Nat]

-----------------------------------------------------------------------------
(* The invariant, in parts that the lemmas speak of.                       *)

DecalsOK(c) == DOMAIN c \subseteq Ids /\ \A id \in DOMAIN c : c[id] \in Decal

\* The ids of P that are in c stand out.
StandsOut(c, P) == \A id \in P \cap DOMAIN c : c[id].mode = Highlight

IdsOf(us) == {us[i].id : i \in DOMAIN us}

StackOK(us) ==
  /\ us \in Seq(Placement) /\ Len(us) <= MaxUndoGroups
  /\ \A i, j \in DOMAIN us : us[i].id = us[j].id => i = j

\* The hover of tool t in the city c, when the ids of P are pending and the tool s
\* is on screen.
HoverOK(h, t, s, c, P) ==
  /\ h.id # NoDecal => s = t /\ (h.id \in DOMAIN c => c[h.id].mode = Highlight)
  /\ h.id \in P => h.original = Highlight

Hovers(h, s, c, P) ==
  /\ h \in [Hoverers -> [id : Ids \cup {NoDecal}, original : Nat]]
  /\ \A t \in Hoverers : HoverOK(h[t], t, s, c, P)

PreviewOK ==
  /\ dPreview \in Ids \cup {NoDecal}
  /\ dPreview # NoDecal => ShowsPreview /\ dPreview \notin IdsOf(dUndo)

BetweenCities ==
  ~dLoaded => dUndo = <<>> /\ dDeleted = <<>> /\ dPreview = NoDecal /\ dScreen = "None"

DecalRest ==
  /\ dDeleted \in Seq(Decal) /\ template \in OwnModes \cup {0}
  /\ shown \in BOOLEAN /\ dBrush \in BOOLEAN /\ dLeft \in BOOLEAN
  /\ dPainting \in BOOLEAN /\ dLoaded \in BOOLEAN
  /\ dScreen \in Tools \cup {"None"} /\ dCancel \subseteq Tools /\ dPolicy \in Policies

DecalInv ==
  /\ DecalsOK(decals) /\ StackOK(dUndo) /\ StandsOut(decals, IdsOf(dUndo))
  /\ Hovers(hover, dScreen, decals, IdsOf(dUndo)) /\ PreviewOK /\ BetweenCities /\ DecalRest

-----------------------------------------------------------------------------
(* The service.                                                            *)

LEMMA WithoutOK ==
  ASSUME NEW c, DecalsOK(c), NEW gone, NEW P
  PROVE  /\ DOMAIN WithoutDecals(c, gone) = DOMAIN c \ gone
         /\ \A id \in DOMAIN c \ gone : WithoutDecals(c, gone)[id] = c[id]
         /\ DecalsOK(WithoutDecals(c, gone))
         /\ StandsOut(c, P) => StandsOut(WithoutDecals(c, gone), P)
  BY DEF WithoutDecals, Restrict, DecalsOK, StandsOut

LEMMA WithInCity ==
  ASSUME NEW c, DecalsOK(c), NEW id \in Ids, NEW d \in Decal
  PROVE  DecalsOK(WithDecal(c, id, d))
  BY DEF WithDecal, DecalsOK

LEMMA WithOtherOK ==
  ASSUME NEW c, DecalsOK(c), NEW P, StandsOut(c, P), NEW id \in Ids, id \notin P, NEW d \in Decal
  PROVE  /\ DOMAIN WithDecal(c, id, d) = DOMAIN c \cup {id}
         /\ \A x \in DOMAIN c \ {id} : WithDecal(c, id, d)[x] = c[x]
         /\ DecalsOK(WithDecal(c, id, d)) /\ StandsOut(WithDecal(c, id, d), P)
  BY DEF WithDecal, DecalsOK, StandsOut

LEMMA WithModeOK ==
  ASSUME NEW c, DecalsOK(c), NEW id, NEW m \in Nat, NEW P
  PROVE  /\ DOMAIN WithMode(c, id, m) = DOMAIN c
         /\ \A x \in DOMAIN c \ {id} : WithMode(c, id, m)[x] = c[x]
         /\ id \in DOMAIN c => WithMode(c, id, m)[id].mode = m
         /\ DecalsOK(WithMode(c, id, m))
         /\ StandsOut(c, P) /\ (id \in P => m = Highlight) => StandsOut(WithMode(c, id, m), P)
  BY DEF WithMode, InMode, DecalsOK, StandsOut, Decal

LEMMA RestoredModesOK ==
  ASSUME NEW c, DecalsOK(c), NEW groups \in SUBSET Placement, NEW P,
         \A p \in groups : p.id \notin P
  PROVE  /\ DOMAIN RestoredModes(c, groups) = DOMAIN c
         /\ DecalsOK(RestoredModes(c, groups))
         /\ StandsOut(c, P) => StandsOut(RestoredModes(c, groups), P)
<1>1. ASSUME NEW id \in DOMAIN c
      PROVE  /\ RestoredModes(c, groups)[id] \in Decal
             /\ (\A p \in groups : p.id # id) => RestoredModes(c, groups)[id] = c[id]
  <2>1. CASE \E p \in groups : p.id = id
    <3>1. (CHOOSE p \in groups : p.id = id) \in Placement
      BY <2>1
    <3> QED
      BY <2>1, <3>1 DEF RestoredModes, InMode, DecalsOK, Decal, Placement
  <2>2. CASE ~ \E p \in groups : p.id = id
    BY <2>2 DEF RestoredModes, DecalsOK
  <2> QED
    BY <2>1, <2>2
<1>2. DOMAIN RestoredModes(c, groups) = DOMAIN c
  BY DEF RestoredModes
<1> QED
  BY <1>1, <1>2 DEF DecalsOK, StandsOut


-----------------------------------------------------------------------------
(* What the tools do with it.                                              *)

LEMMA NoDecalIsNoId == ASSUME DecalAssumption PROVE NoDecal \notin Ids
  BY DEF DecalAssumption

LEMMA NoneHovered ==
  ASSUME Hovers(hover, dScreen, decals, IdsOf(dUndo)), dScreen \notin Hoverers
  PROVE  \A t \in Hoverers : hover[t].id = NoDecal
  BY DEF Hovers, HoverOK

\* Nothing is wrong with hovers over nothing.
LEMMA NoHovers ==
  ASSUME DecalAssumption,
         NEW h \in [Hoverers -> [id : Ids \cup {NoDecal}, original : Nat]],
         \A t \in Hoverers : h[t].id = NoDecal,
         NEW s, NEW c, NEW P \in SUBSET Ids
  PROVE  Hovers(h, s, c, P)
  BY NoDecalIsNoId DEF Hovers, HoverOK

LEMMA IdsOfOK == ASSUME NEW us, StackOK(us) PROVE IdsOf(us) \in SUBSET Ids
<1>1. us \in Seq(Placement) /\ DOMAIN us = 1 .. Len(us)
  BY LenProperties DEF StackOK
<1>2. \A i \in DOMAIN us : us[i] \in Placement
  BY <1>1, ElementOfSeq
<1> QED
  BY <1>2 DEF IdsOf, Placement

LEMMA EmptyStackOK ==
  ASSUME DecalAssumption
  PROVE  StackOK(<<>>) /\ IdsOf(<<>>) = {} /\ \A c : StandsOut(c, {})
  BY DEF StackOK, IdsOf, StandsOut, DecalAssumption

\* What part of a stack holds.
LEMMA PartOfStack ==
  ASSUME NEW us \in Seq(Placement), \A i, j \in DOMAIN us : us[i].id = us[j].id => i = j,
         NEW a \in Nat \ {0}, NEW b \in Nat, a <= b + 1, b <= Len(us),
         b - a + 1 <= MaxUndoGroups
  PROVE  /\ StackOK(SubSeq(us, a, b))
         /\ DOMAIN SubSeq(us, a, b) = 1 .. (b - a + 1)
         /\ \A i \in 1 .. (b - a + 1) :
              SubSeq(us, a, b)[i] = us[i + a - 1] /\ i + a - 1 \in DOMAIN us
         /\ IdsOf(SubSeq(us, a, b)) \subseteq IdsOf(us)
<1> DEFINE part == SubSeq(us, a, b)
<1>0. DOMAIN us = 1 .. Len(us) /\ Len(us) \in Nat
  BY LenProperties
<1>1. \A i \in a .. b : us[i] \in Placement
  BY <1>0, ElementOfSeq
<1>2. /\ part \in Seq(Placement)
      /\ Len(part) = IF a <= b THEN b - a + 1 ELSE 0
      /\ \A i \in 1 .. b - a + 1 : part[i] = us[a + i - 1]
  BY <1>1, SubSeqProperties
<1>3. DOMAIN part = 1 .. (b - a + 1) /\ Len(part) = b - a + 1
  BY <1>2, LenProperties
<1>4. \A i \in 1 .. (b - a + 1) : part[i] = us[i + a - 1] /\ i + a - 1 \in DOMAIN us
  BY <1>2, <1>0
<1> HIDE DEF part
<1>5. ASSUME NEW i \in DOMAIN part, NEW j \in DOMAIN part, part[i].id = part[j].id
      PROVE  i = j
  <2>1. i + a - 1 = j + a - 1
    BY <1>3, <1>4, <1>5
  <2> QED
    BY <2>1, <1>3
<1>6. IdsOf(part) \subseteq IdsOf(us)
  BY <1>3, <1>4 DEF IdsOf
<1>7. StackOK(part)
  BY <1>2, <1>3, <1>5 DEF StackOK
<1> QED
  BY <1>3, <1>4, <1>6, <1>7 DEF part

LEMMA ShorterStackOK ==
  ASSUME DecalAssumption, NEW us, StackOK(us), us # <<>>
  PROVE  /\ StackOK(SubSeq(us, 1, Len(us) - 1))
         /\ IdsOf(SubSeq(us, 1, Len(us) - 1)) \subseteq IdsOf(us)
<1>1. us \in Seq(Placement) /\ Len(us) \in Nat /\ Len(us) # 0 /\ Len(us) <= MaxUndoGroups
  BY LenProperties, EmptySeq DEF StackOK
<1>2. Len(us) - 1 \in Nat /\ (Len(us) - 1) - 1 + 1 <= MaxUndoGroups
  <2> DEFINE n == Len(us)
  <2>1. n \in Nat /\ n # 0
    BY <1>1
  <2>2. MaxUndoGroups \in Nat \ {0}
    BY DEF DecalAssumption
  <2> QED
    BY <2>1, <2>2, <1>1
<1> QED
  BY <1>1, <1>2, PartOfStack DEF StackOK

\* What is cut off a stack below is not reached any more.
LEMMA CutStackOK ==
  ASSUME NEW us \in Seq(Placement), \A i, j \in DOMAIN us : us[i].id = us[j].id => i = j,
         NEW k \in Nat, k <= Len(us), Len(us) - k <= MaxUndoGroups
  PROVE  /\ StackOK(SubSeq(us, k + 1, Len(us)))
         /\ IdsOf(SubSeq(us, k + 1, Len(us))) \subseteq IdsOf(us)
         /\ {us[i] : i \in 1 .. k} \in SUBSET Placement
         /\ \A p \in {us[i] : i \in 1 .. k} : p.id \notin IdsOf(SubSeq(us, k + 1, Len(us)))
<1> DEFINE t == SubSeq(us, k + 1, Len(us))
<1>1. Len(us) \in Nat /\ DOMAIN us = 1 .. Len(us)
  BY LenProperties
<1>2. /\ k + 1 \in Nat \ {0} /\ k + 1 <= Len(us) + 1
      /\ Len(us) - (k + 1) + 1 <= MaxUndoGroups /\ Len(us) <= Len(us)
  BY <1>1
<1>3. /\ StackOK(t) /\ DOMAIN t = 1 .. (Len(us) - (k + 1) + 1)
      /\ \A i \in 1 .. (Len(us) - (k + 1) + 1) :
            t[i] = us[i + (k + 1) - 1] /\ i + (k + 1) - 1 \in DOMAIN us
      /\ IdsOf(t) \subseteq IdsOf(us)
  BY <1>1, <1>2, PartOfStack
<1> HIDE DEF t
<1>4. ASSUME NEW i \in 1 .. k
      PROVE  us[i] \in Placement /\ us[i].id \notin IdsOf(t)
  <2>1. i \in DOMAIN us
    BY <1>1
  <2>2. ASSUME NEW j \in DOMAIN t
        PROVE  t[j].id # us[i].id
    <3>1. j + (k + 1) - 1 \in DOMAIN us /\ t[j] = us[j + (k + 1) - 1]
      BY <1>3
    <3>2. i # j + (k + 1) - 1
      BY <1>1, <1>3
    <3> QED
      BY <3>1, <3>2, <2>1
  <2> QED
    BY <2>1, <2>2, <1>1, ElementOfSeq DEF IdsOf
<1> QED
  BY <1>3, <1>4 DEF t

\* AddDecalToUndo_ and TrimUndoStack_: what is trimmed is not reached any more.
Overflow(us) == IF Len(us) > MaxUndoGroups THEN Len(us) - MaxUndoGroups ELSE 0
KeptGroups(st, g) == SubSeq(Append(st, g), Overflow(Append(st, g)) + 1, Len(Append(st, g)))
CutGroups(st, g) == {Append(st, g)[i] : i \in 1 .. Overflow(Append(st, g))}

LEMMA LongerStackOK ==
  ASSUME DecalAssumption, NEW st, StackOK(st), NEW g \in Placement, g.id \notin IdsOf(st)
  PROVE  /\ StackOK(KeptGroups(st, g)) /\ IdsOf(KeptGroups(st, g)) \subseteq IdsOf(st) \cup {g.id}
         /\ CutGroups(st, g) \in SUBSET Placement /\ \A p \in CutGroups(st, g) : p.id \notin IdsOf(KeptGroups(st, g))
<1> DEFINE us == Append(st, g)
           excess == Overflow(us)
<1>1. /\ us \in Seq(Placement) /\ Len(us) = Len(st) + 1 /\ DOMAIN us = 1 .. Len(us)
      /\ us[Len(us)] = g /\ \A i \in 1 .. Len(st) : us[i] = st[i]
  BY DEF StackOK
<1> HIDE DEF us
<1>2. Len(st) \in Nat /\ DOMAIN st = 1 .. Len(st) /\ Len(st) <= MaxUndoGroups
  BY DEF StackOK
<1>3. MaxUndoGroups \in Nat \ {0}
  BY DEF DecalAssumption
<1>4. \A i, j \in 1 .. Len(us) : us[i].id = us[j].id => i = j
  <2>1. \A i, j \in 1 .. Len(st) : st[i].id = st[j].id => i = j
    BY <1>2 DEF StackOK
  <2>2. \A i \in 1 .. Len(st) : st[i].id # g.id
    BY <1>2 DEF IdsOf
  <2> QED
    BY <1>1, <1>2, <2>1, <2>2
<1>5. excess \in Nat /\ excess <= 1 /\ excess < Len(us) /\ Len(us) - excess <= MaxUndoGroups
  BY <1>1, <1>2, <1>3 DEF Overflow
<1> HIDE DEF excess
<1>6. us \in Seq(Placement) /\ excess <= Len(us)
      /\ \A i, j \in DOMAIN us : us[i].id = us[j].id => i = j
  BY <1>1, <1>2, <1>4, <1>5
<1>7. IdsOf(us) \subseteq IdsOf(st) \cup {g.id}
  <2>1. ASSUME NEW i \in DOMAIN us
        PROVE  us[i].id \in IdsOf(st) \cup {g.id}
    <3>1. CASE i = Len(us)
      BY <3>1, <1>1
    <3>2. CASE i \in 1 .. Len(st)
      BY <3>2, <1>1, <1>2 DEF IdsOf
    <3> QED
      BY <3>1, <3>2, <1>1, <1>2
  <2> QED
    BY <2>1 DEF IdsOf
<1> QED
  <2>1. /\ StackOK(SubSeq(us, excess + 1, Len(us)))
        /\ IdsOf(SubSeq(us, excess + 1, Len(us))) \subseteq IdsOf(us)
        /\ {us[i] : i \in 1 .. excess} \in SUBSET Placement
        /\ \A p \in {us[i] : i \in 1 .. excess} :
             p.id \notin IdsOf(SubSeq(us, excess + 1, Len(us)))
    BY <1>5, <1>6, CutStackOK
  <2>2. KeptGroups(st, g) = SubSeq(us, excess + 1, Len(us)) /\ CutGroups(st, g) = {us[i] : i \in 1 .. excess}
    BY DEF KeptGroups, CutGroups, excess, us
  <2> QED
    BY <2>1, <2>2, <1>7

LEMMA AllRestoredOK ==
  ASSUME DecalsOK(decals), StackOK(dUndo)
  PROVE  DOMAIN DecalsCommitted(decals) = DOMAIN decals /\ DecalsOK(DecalsCommitted(decals))
<1>1. \A i \in DOMAIN dUndo : dUndo[i] \in Placement
  BY LenProperties, ElementOfSeq DEF StackOK
<1> DEFINE all == {dUndo[i] : i \in DOMAIN dUndo}
           none == {}
<1>2. all \in SUBSET Placement
  BY <1>1
<1>3. DecalsCommitted(decals) = RestoredModes(decals, all)
  BY DEF DecalsCommitted
<1> HIDE DEF all, none
<1>4. \A p \in all : p.id \notin none
  BY DEF none
<1> QED
  BY <1>2, <1>3, <1>4, RestoredModesOK

LEMMA PolicyOK ==
  ASSUME DecalAssumption, DecalsOK(decals), StackOK(dUndo), StandsOut(decals, IdsOf(dUndo)),
         dPolicy \in Policies, PolicyApplied
  PROVE  /\ DecalsOK(DecalsAfterPolicy) /\ StackOK(dUndo')
         /\ IdsOf(dUndo') \subseteq IdsOf(dUndo)
         /\ StandsOut(DecalsAfterPolicy, IdsOf(dUndo'))
         /\ dUndo = <<>> => dUndo' = <<>>
<1>1. CASE dPolicy = "Discard"
  <2>1. DecalsAfterPolicy = WithoutDecals(decals, PendingIds) /\ dUndo' = <<>>
    BY <1>1 DEF DecalsAfterPolicy, DecalsCancelled, PolicyApplied
  <2> QED
    BY <2>1, WithoutOK, EmptyStackOK
<1>2. CASE dPolicy = "Commit"
  <2>1. DecalsAfterPolicy = DecalsCommitted(decals) /\ dUndo' = <<>>
    BY <1>2 DEF DecalsAfterPolicy, PolicyApplied
  <2> QED
    BY <2>1, AllRestoredOK, EmptyStackOK
<1>3. CASE dPolicy = "KeepPending"
  <2>1. DecalsAfterPolicy = decals /\ dUndo' = dUndo
    BY <1>3 DEF DecalsAfterPolicy, PolicyApplied
  <2> QED
    BY <2>1
<1> QED
  BY <1>1, <1>2, <1>3 DEF Policies

\* The hovers end: every decal stays, and what is pending stands out.
LEMMA UnhoveredOK ==
  ASSUME Hovers(hover, dScreen, decals, IdsOf(dUndo)), NEW c, DecalsOK(c),
         NEW P \in SUBSET IdsOf(dUndo), StandsOut(c, P)
  PROVE  /\ DOMAIN Unhovered(c) = DOMAIN c /\ DecalsOK(Unhovered(c)) /\ StandsOut(Unhovered(c), P)
<1> DEFINE s == hover["Stripper"]
           k == hover["Picker"]
           b == WithMode(c, s.id, s.original)
<1>1. /\ s.original \in Nat /\ (s.id \in P => s.original = Highlight)
      /\ k.original \in Nat /\ (k.id \in P => k.original = Highlight)
  BY DEF Hovers, HoverOK, Hoverers
<1> HIDE DEF s, k
<1>2. DOMAIN b = DOMAIN c /\ DecalsOK(b) /\ StandsOut(b, P)
  BY <1>1, WithModeOK
<1> HIDE DEF b
<1>3. /\ DOMAIN WithMode(b, k.id, k.original) = DOMAIN b
      /\ DecalsOK(WithMode(b, k.id, k.original))
      /\ StandsOut(WithMode(b, k.id, k.original), P)
  BY <1>1, <1>2, WithModeOK
<1> QED
  BY <1>2, <1>3 DEF Unhovered, b, s, k

LEMMA DroppedOK ==
  ASSUME Hovers(hover, dScreen, decals, IdsOf(dUndo)), NEW c, DecalsOK(c),
         NEW P \in SUBSET IdsOf(dUndo), StandsOut(c, P), DecalToolDropped(c)
  PROVE  /\ DecalsOK(decals') /\ StandsOut(decals', P)
         /\ dPreview' = NoDecal /\ hover' = [t \in Hoverers |-> NoHover] /\ dLeft' = FALSE
<1>1. DecalsOK(Unhovered(c)) /\ StandsOut(Unhovered(c), P)
  BY UnhoveredOK
<1>2. DecalsOK(WithoutDecals(Unhovered(c), {dPreview})) /\ StandsOut(WithoutDecals(Unhovered(c), {dPreview}), P)
  BY <1>1, WithoutOK
<1> QED
  BY <1>2 DEF DecalToolDropped

\* The preview comes, stays or goes, and the placements are not touched.
LEMMA SyncOK ==
  ASSUME DecalAssumption, PreviewOK, NEW c, DecalsOK(c),
         NEW P, P \subseteq PendingIds \cup DOMAIN c, StandsOut(c, P),
         dPreview \notin P \/ dPreview = NoDecal, NoDecal \notin P,
         template' \in Nat, SyncDecalPreview(c)
  PROVE  /\ DecalsOK(decals') /\ StandsOut(decals', P)
         /\ dPreview' \in Ids \cup {NoDecal}
         /\ dPreview' # NoDecal => ShowsPreview' /\ dPreview' \notin P
<1>1. CASE ShowsPreview' /\ dPreview # NoDecal /\ decals' = c /\ UNCHANGED dPreview
  BY <1>1 DEF PreviewOK
<1>2. ASSUME ShowsPreview', NEW id \in FreshIds \ DOMAIN c, dPreview' = id,
             decals' = WithDecal(WithoutDecals(c, {dPreview}), id, [mode |-> Highlight, own |-> template'])
      PROVE  /\ DecalsOK(decals') /\ StandsOut(decals', P)
             /\ dPreview' \in Ids \cup {NoDecal}
             /\ dPreview' # NoDecal => ShowsPreview' /\ dPreview' \notin P
  <2>1. id \in Ids /\ id \notin P
    BY DEF FreshIds
  <2>2. DecalsOK(WithoutDecals(c, {dPreview})) /\ StandsOut(WithoutDecals(c, {dPreview}), P)
    BY WithoutOK
  <2>3. [mode |-> Highlight, own |-> template'] \in Decal
    BY DEF Decal, Highlight
  <2>4. /\ DecalsOK(WithDecal(WithoutDecals(c, {dPreview}), id, [mode |-> Highlight, own |-> template']))
        /\ StandsOut(WithDecal(WithoutDecals(c, {dPreview}), id, [mode |-> Highlight, own |-> template']), P)
    BY <2>1, <2>2, <2>3, WithOtherOK
  <2> QED
    BY <1>2, <2>1, <2>4
<1>3. CASE dPreview' = NoDecal /\ decals' = WithoutDecals(c, {dPreview})
  BY <1>3, WithoutOK
<1> QED
  BY <1>1, <1>2, <1>3 DEF SyncDecalPreview

\* A hover moves from one decal to another, or to none.
LEMMA HoveringOK ==
  ASSUME DecalAssumption, DecalsOK(decals), StackOK(dUndo), StandsOut(decals, IdsOf(dUndo)),
         Hovers(hover, dScreen, decals, IdsOf(dUndo)),
         NEW t \in Hoverers, dScreen = t,
         NEW id \in DOMAIN decals \cup {NoDecal}, Hovering(t, id)
  PROVE  /\ DecalsOK(decals') /\ StandsOut(decals', IdsOf(dUndo))
         /\ Hovers(hover', dScreen, decals', IdsOf(dUndo))
<1> DEFINE P == IdsOf(dUndo)
           h == hover[t]
           back == WithMode(decals, h.id, h.original)
<1>1. CASE id = h.id
  BY <1>1 DEF Hovering
<1>2. CASE id # h.id
  <2>1. h.original \in Nat /\ (h.id \in P => h.original = Highlight)
    BY DEF Hovers, HoverOK
  <2>2. DOMAIN back = DOMAIN decals /\ DecalsOK(back) /\ StandsOut(back, P)
    <3> HIDE DEF h
    <3> QED BY <2>1, WithModeOK
  <2>3. /\ hover' = [hover EXCEPT ![t] = [id |-> id, original |->
                        IF id \in DOMAIN back THEN back[id].mode ELSE 0]]
        /\ decals' = WithMode(back, id, Highlight)
    BY <1>2 DEF Hovering
  <2> HIDE DEF back
  <2>4. NoDecal \notin P /\ id \in Ids \cup {NoDecal}
    BY IdsOfOK, NoDecalIsNoId DEF DecalsOK
  <2>5. /\ DOMAIN decals' = DOMAIN back /\ DecalsOK(decals') /\ StandsOut(decals', P)
        /\ id \in DOMAIN back => decals'[id].mode = Highlight
    <3> HIDE DEF P
    <3>1. Highlight \in Nat
      BY DEF Highlight
    <3> QED BY <2>2, <2>3, <3>1, WithModeOK
  <2>6. \A u \in Hoverers \ {t} : hover'[u] = hover[u] /\ hover[u].id = NoDecal
    BY <2>3 DEF Hovers, HoverOK
  <2>7. /\ hover'[t].id = id
        /\ hover'[t].original = IF id \in DOMAIN back THEN back[id].mode ELSE 0
    BY <2>3 DEF Hovers
  <2>8. hover'[t].original \in Nat
    BY <2>7, <2>2 DEF DecalsOK, Decal
  <2>9. hover' \in [Hoverers -> [id : Ids \cup {NoDecal}, original : Nat]]
    <3>1. [id |-> id, original |-> IF id \in DOMAIN back THEN back[id].mode ELSE 0]
            \in [id : Ids \cup {NoDecal}, original : Nat]
      BY <2>4, <2>7, <2>8
    <3> QED
      BY <2>3, <3>1 DEF Hovers
  <2>10. HoverOK(hover'[t], t, dScreen, decals', P)
    BY <2>2, <2>4, <2>5, <2>7 DEF HoverOK, StandsOut
  <2>11. \A u \in Hoverers \ {t} : HoverOK(hover'[u], u, dScreen, decals', P)
    BY <2>4, <2>6 DEF HoverOK
  <2> QED
    BY <2>5, <2>9, <2>10, <2>11 DEF Hovers
<1> QED
  BY <1>1, <1>2

-----------------------------------------------------------------------------
(* Every action keeps the invariant.                                       *)

LEMMA TemplateMode == ASSUME DecalAssumption, template \in OwnModes \cup {0} PROVE template \in Nat
  BY DEF DecalAssumption

LEMMA DecalStart == ASSUME DecalAssumption, DecalInit PROVE DecalInv
<1>1. dUndo = <<>> /\ decals = <<>> /\ dDeleted = <<>>
  BY DEF DecalInit
<1>2. hover \in [Hoverers -> [id : Ids \cup {NoDecal}, original : Nat]]
      /\ \A t \in Hoverers : hover[t].id = NoDecal
  BY DEF DecalInit, NoHover
<1>3. StackOK(dUndo) /\ IdsOf(dUndo) = {} /\ StandsOut(decals, IdsOf(dUndo))
  BY <1>1, EmptyStackOK
<1>4. Hovers(hover, dScreen, decals, IdsOf(dUndo))
  BY <1>2, <1>3, NoHovers
<1>5. DecalsOK(decals)
  BY <1>1 DEF DecalsOK
<1>6. DecalRest
  <2>1. dDeleted \in Seq(Decal)
    BY <1>1, EmptySeq
  <2> QED
    BY <2>1 DEF DecalInit, DecalRest, Tools
<1> QED
  BY <1>3, <1>4, <1>5, <1>6 DEF DecalInit, DecalInv, PreviewOK, BetweenCities

\* What a step of the painter on screen leaves to show.
LEMMA PainterKeeps ==
  ASSUME DecalAssumption, DecalInv, dScreen' = "Painter", dLoaded' = dLoaded, dScreen = "Painter",
         UNCHANGED <<hover, dStripper, dPainting, dPolicy>>,
         dCancel' \subseteq Tools, shown' \in BOOLEAN, template' \in OwnModes \cup {0},
         DecalsOK(decals'), StackOK(dUndo'), StandsOut(decals', IdsOf(dUndo')),
         dPreview' \in Ids \cup {NoDecal},
         dPreview' # NoDecal => ShowsPreview' /\ dPreview' \notin IdsOf(dUndo')
  PROVE  DecalInv'
<1>1. dScreen \notin Hoverers
  BY DEF Hoverers
<1>2. hover' \in [Hoverers -> [id : Ids \cup {NoDecal}, original : Nat]]
      /\ \A t \in Hoverers : hover'[t].id = NoDecal
  <2>1. Hovers(hover, dScreen, decals, IdsOf(dUndo))
    BY DEF DecalInv
  <2> QED
    BY <1>1, <2>1, NoneHovered DEF Hovers
<1>3. Hovers(hover', dScreen', decals', IdsOf(dUndo'))
  BY <1>2, NoHovers, IdsOfOK
<1>4. dLoaded
  BY DEF DecalInv, BetweenCities
<1>5. PreviewOK' /\ BetweenCities'
  BY <1>4 DEF PreviewOK, BetweenCities
<1>6. DecalRest'
  BY DEF DecalInv, DecalRest, dStripper
<1> QED
  BY <1>3, <1>5, <1>6 DEF DecalInv

LEMMA PlaceKeeps == ASSUME DecalAssumption, DecalInv, Place PROVE DecalInv'
<1>1. PICK id \in FreshIds :
        LET us == Append(dUndo, [id |-> id, committed |-> template])
            excess == IF Len(us) > MaxUndoGroups THEN Len(us) - MaxUndoGroups ELSE 0
            c == WithDecal(decals, id, [mode |-> Highlight, own |-> template])
        IN /\ dUndo' = SubSeq(us, excess + 1, Len(us))
           /\ UNCHANGED <<shown, template, hover, dStripper, dDirector>>
           /\ SyncDecalPreview(RestoredModes(c, {us[i] : i \in 1 .. excess}))
  BY DEF Place
<1> DEFINE g == [id |-> id, committed |-> template]
           us == Append(dUndo, g)
           excess == IF Len(us) > MaxUndoGroups THEN Len(us) - MaxUndoGroups ELSE 0
           trimmed == {us[i] : i \in 1 .. excess}
           c == WithDecal(decals, id, [mode |-> Highlight, own |-> template])
           P == IdsOf(dUndo')
<1>2. /\ dUndo' = SubSeq(us, excess + 1, Len(us))
      /\ UNCHANGED <<shown, template, hover, dStripper, dDirector>>
      /\ SyncDecalPreview(RestoredModes(c, trimmed))
  BY <1>1
<1>3. id \in Ids /\ id \notin IdsOf(dUndo) /\ id # dPreview
  BY DEF FreshIds, IdsOf, PendingIds
<1>4. template \in Nat /\ g \in Placement /\ g.id = id
  BY <1>3, TemplateMode DEF DecalInv, DecalRest, Placement
<1>5. StackOK(dUndo)
  BY DEF DecalInv
<1> HIDE DEF g
<1>6. /\ StackOK(dUndo') /\ P \subseteq IdsOf(dUndo) \cup {id}
      /\ trimmed \in SUBSET Placement /\ \A x \in trimmed : x.id \notin P
  <2>1. dUndo' = KeptGroups(dUndo, g) /\ trimmed = CutGroups(dUndo, g)
    BY <1>2 DEF KeptGroups, CutGroups, Overflow
  <2> QED
    BY <2>1, <1>3, <1>4, <1>5, LongerStackOK
<1> HIDE DEF trimmed
<1>7. [mode |-> Highlight, own |-> template] \in Decal
  BY <1>4 DEF Decal, Highlight
<1>8. DecalsOK(c) /\ DOMAIN c = DOMAIN decals \cup {id} /\ StandsOut(c, IdsOf(dUndo) \cup {id})
  <2>1. DecalsOK(decals) /\ StandsOut(decals, IdsOf(dUndo))
    BY DEF DecalInv
  <2>2. DOMAIN c = DOMAIN decals \cup {id} /\ DecalsOK(c) /\ c[id] = [mode |-> Highlight, own |-> template]
        /\ \A x \in DOMAIN decals \ {id} : c[x] = decals[x]
    <3>1. DecalsOK(c)
      BY <1>3, <1>7, <2>1, WithInCity
    <3>2. DOMAIN c = DOMAIN decals \cup {id} /\ c[id] = [mode |-> Highlight, own |-> template]
          /\ \A x \in DOMAIN decals \ {id} : c[x] = decals[x]
      BY DEF WithDecal
    <3> QED
      BY <3>1, <3>2
  <2> QED
    BY <2>1, <2>2 DEF StandsOut
<1>9. StandsOut(c, P)
  BY <1>6, <1>8 DEF StandsOut
<1> HIDE DEF c
<1>10. /\ DOMAIN RestoredModes(c, trimmed) = DOMAIN c /\ DecalsOK(RestoredModes(c, trimmed))
       /\ StandsOut(RestoredModes(c, trimmed), P)
  <2> HIDE DEF P
  <2> QED BY <1>6, <1>8, <1>9, RestoredModesOK
<1>11. PreviewOK /\ IdsOf(dUndo) = PendingIds
  BY DEF DecalInv, IdsOf, PendingIds
<1>12. /\ P \subseteq PendingIds \cup DOMAIN RestoredModes(c, trimmed)
       /\ dPreview \notin P \/ dPreview = NoDecal
  BY <1>3, <1>6, <1>8, <1>10, <1>11 DEF PreviewOK
<1>13. NoDecal \notin P
  BY <1>6, IdsOfOK, NoDecalIsNoId
<1>14. /\ DecalsOK(decals') /\ StandsOut(decals', P) /\ dPreview' \in Ids \cup {NoDecal}
       /\ dPreview' # NoDecal => ShowsPreview' /\ dPreview' \notin P
  <2>1. template' \in Nat
    BY <1>2, <1>4
  <2> HIDE DEF P
  <2> QED BY <1>2, <1>10, <1>11, <1>12, <1>13, <2>1, SyncOK
<1>15. /\ dScreen = "Painter" /\ dScreen' = "Painter" /\ dLoaded' = dLoaded
       /\ UNCHANGED <<hover, dStripper, dPainting, dPolicy>>
       /\ dCancel' \subseteq Tools /\ shown' \in BOOLEAN /\ template' \in OwnModes \cup {0}
  BY <1>2 DEF Place, dDirector, DecalInv, DecalRest
<1> QED
  BY <1>6, <1>14, <1>15, PainterKeeps

\* The preview follows the cursor, over the city c and a stack that got no longer.
LEMMA SyncKeeps ==
  ASSUME DecalAssumption, DecalInv, dScreen = "Painter", NEW c, DecalsOK(c), SyncDecalPreview(c),
         UNCHANGED <<hover, dStripper, dDirector>>,
         shown' \in BOOLEAN, template' \in OwnModes \cup {0},
         StackOK(dUndo'), IdsOf(dUndo') \subseteq IdsOf(dUndo),
         StandsOut(c, IdsOf(dUndo'))
  PROVE  DecalInv'
<1> DEFINE P == IdsOf(dUndo')
<1>1. IdsOf(dUndo) = PendingIds /\ PreviewOK
  BY DEF DecalInv, IdsOf, PendingIds
<1>2. /\ P \subseteq PendingIds \cup DOMAIN c /\ (dPreview \notin P \/ dPreview = NoDecal)
      /\ NoDecal \notin P /\ template' \in Nat
      /\ StandsOut(c, P)
  <2>1. P \subseteq PendingIds /\ NoDecal \notin P
    BY <1>1, IdsOfOK, NoDecalIsNoId
  <2>2. dPreview \notin P \/ dPreview = NoDecal
    BY <1>1, <2>1 DEF PreviewOK
  <2>3. template' \in Nat
    BY DEF DecalAssumption
  <2> QED
    BY <2>1, <2>2, <2>3
<1>3. /\ DecalsOK(decals') /\ StandsOut(decals', P) /\ dPreview' \in Ids \cup {NoDecal}
      /\ dPreview' # NoDecal => ShowsPreview' /\ dPreview' \notin P
  <2> HIDE DEF P
  <2> QED BY <1>1, <1>2, SyncOK
<1>4. /\ dScreen' = "Painter" /\ dLoaded' = dLoaded
      /\ UNCHANGED <<hover, dStripper, dPainting, dPolicy>> /\ dCancel' \subseteq Tools
  BY DEF dDirector, DecalInv, DecalRest
<1> QED
  BY <1>3, <1>4, PainterKeeps

\* A placement is undone, committed or cancelled; the preview stays.
LEMMA ReleaseKeeps ==
  ASSUME DecalAssumption, DecalInv, dScreen = "Painter",
         UNCHANGED <<dPreview, shown, template, hover, dStripper, dScreen, dPainting, dPolicy, dLoaded>>,
         dCancel' \subseteq Tools,
         DecalsOK(decals'), StackOK(dUndo'), IdsOf(dUndo') \subseteq IdsOf(dUndo),
         StandsOut(decals', IdsOf(dUndo'))
  PROVE  DecalInv'
<1>1. /\ dPreview' \in Ids \cup {NoDecal}
      /\ dPreview' # NoDecal => ShowsPreview' /\ dPreview' \notin IdsOf(dUndo')
  BY DEF DecalInv, PreviewOK, ShowsPreview
<1>2. shown' \in BOOLEAN /\ template' \in OwnModes \cup {0}
  BY DEF DecalInv, DecalRest
<1> QED
  BY <1>1, <1>2, PainterKeeps

LEMMA PainterSteps ==
  ASSUME DecalAssumption, DecalInv,
         \/ MoveOrAdjust \/ CycleDecalPreview \/ UndoDecalPlacement \/ Enter \/ EscInDecalPainter
         \/ \E m \in OwnModes : RetargetPainting(m)
  PROVE  DecalInv'
<1>1. /\ DecalsOK(decals) /\ StackOK(dUndo) /\ StandsOut(decals, IdsOf(dUndo))
      /\ shown \in BOOLEAN /\ template \in OwnModes \cup {0} /\ dPolicy \in Policies
      /\ dCancel \subseteq Tools
  BY DEF DecalInv, DecalRest
<1>2. ASSUME MoveOrAdjust \/ CycleDecalPreview PROVE DecalInv'
  <2>1. /\ dScreen = "Painter" /\ SyncDecalPreview(decals) /\ UNCHANGED <<dUndo, template>>
        /\ UNCHANGED <<hover, dStripper, dDirector>> /\ shown' \in BOOLEAN
    BY <1>1, <1>2 DEF MoveOrAdjust, CycleDecalPreview
  <2> QED
    BY <1>1, <2>1, SyncKeeps
<1>3. CASE UndoDecalPlacement
  <2>1. /\ dScreen = "Painter" /\ dUndo # <<>>
        /\ UNCHANGED <<dPreview, shown, template, hover, dStripper, dScreen, dPainting, dPolicy, dLoaded>>
        /\ dCancel' \subseteq Tools
    BY <1>1, <1>3 DEF UndoDecalPlacement, dDirector
  <2>2. StackOK(dUndo') /\ IdsOf(dUndo') \subseteq IdsOf(dUndo)
    BY <1>1, <1>3, <2>1, ShorterStackOK DEF UndoDecalPlacement
  <2>3. StandsOut(decals, IdsOf(dUndo'))
    BY <1>1, <2>2 DEF StandsOut
  <2>4. DecalsOK(decals') /\ StandsOut(decals', IdsOf(dUndo'))
    BY <1>1, <1>3, <2>3, WithoutOK DEF UndoDecalPlacement
  <2> QED
    BY <2>1, <2>2, <2>4, ReleaseKeeps
<1>4. ASSUME Enter \/ EscInDecalPainter PROVE DecalInv'
  <2>1. /\ dScreen = "Painter" /\ dUndo' = <<>>
        /\ decals' = DecalsCommitted(decals) \/ decals' = WithoutDecals(decals, PendingIds)
        /\ UNCHANGED <<dPreview, shown, template, hover, dStripper, dScreen, dPainting, dPolicy, dLoaded>>
        /\ dCancel' \subseteq Tools
    BY <1>1, <1>4 DEF Enter, EscInDecalPainter, DecalsCancelled, dDirector, Tools
  <2>2. DecalsOK(decals')
    <3>1. DecalsOK(DecalsCommitted(decals))
      BY <1>1, AllRestoredOK
    <3>2. DecalsOK(WithoutDecals(decals, PendingIds)) /\ StandsOut(WithoutDecals(decals, PendingIds), IdsOf(dUndo))
      BY <1>1, WithoutOK
    <3> QED
      BY <2>1, <3>1, <3>2
  <2>3. StackOK(dUndo') /\ IdsOf(dUndo') \subseteq IdsOf(dUndo)
        /\ StandsOut(decals', IdsOf(dUndo'))
    BY <2>1, EmptyStackOK
  <2> QED
    BY <2>1, <2>2, <2>3, ReleaseKeeps
<1>5. ASSUME NEW m \in OwnModes, RetargetPainting(m) PROVE DecalInv'
  <2>1. /\ dScreen = "Painter" /\ PolicyApplied /\ SyncDecalPreview(DecalsAfterPolicy)
        /\ UNCHANGED <<hover, dStripper, dDirector>> /\ shown' \in BOOLEAN
        /\ template' \in OwnModes \cup {0}
    BY <1>1, <1>5 DEF RetargetPainting
  <2>2. /\ DecalsOK(DecalsAfterPolicy) /\ StackOK(dUndo')
        /\ IdsOf(dUndo') \subseteq IdsOf(dUndo) /\ StandsOut(DecalsAfterPolicy, IdsOf(dUndo'))
    BY <1>1, <2>1, PolicyOK
  <2> QED
    BY <2>1, <2>2, SyncKeeps
<1> QED
  BY <1>2, <1>3, <1>4, <1>5

\* What a step of the stripper or the picker leaves to show.
LEMMA HovererKeeps ==
  ASSUME DecalAssumption, DecalInv, UNCHANGED <<dPainter, dScreen, dPainting, dPolicy, dLoaded>>,
         DecalsOK(decals'), StandsOut(decals', IdsOf(dUndo)),
         Hovers(hover', dScreen, decals', IdsOf(dUndo)),
         dDeleted' \in Seq(Decal), dBrush' \in BOOLEAN, dLeft' \in BOOLEAN,
         dCancel' \subseteq Tools, dLoaded \/ dDeleted' = <<>>
  PROVE  DecalInv'
<1>1. dUndo' = dUndo /\ dScreen' = dScreen
  BY DEF dPainter
<1>2. /\ DecalsOK(decals') /\ StackOK(dUndo') /\ StandsOut(decals', IdsOf(dUndo'))
      /\ Hovers(hover', dScreen', decals', IdsOf(dUndo'))
  BY <1>1 DEF DecalInv
<1>3. PreviewOK'
  BY DEF DecalInv, PreviewOK, ShowsPreview, dPainter
<1>4. BetweenCities'
  BY DEF DecalInv, BetweenCities, dPainter
<1>5. DecalRest'
  BY DEF DecalInv, DecalRest, dPainter
<1> QED
  BY <1>2, <1>3, <1>4, <1>5 DEF DecalInv

LEMMA GoneHovers ==
  ASSUME NEW h, NEW s, NEW c, DecalsOK(c), NEW P, Hovers(h, s, c, P), NEW gone, StandsOut(c, P)
  PROVE  /\ DecalsOK(WithoutDecals(c, gone)) /\ StandsOut(WithoutDecals(c, gone), P)
         /\ Hovers(h, s, WithoutDecals(c, gone), P)
<1>1. /\ DOMAIN WithoutDecals(c, gone) = DOMAIN c \ gone
      /\ \A id \in DOMAIN c \ gone : WithoutDecals(c, gone)[id] = c[id]
      /\ DecalsOK(WithoutDecals(c, gone)) /\ StandsOut(WithoutDecals(c, gone), P)
  BY WithoutOK
<1> QED
  BY <1>1 DEF Hovers, HoverOK

\* Several deletions leave the hovers as they were, and are recorded as decals.
LEMMA DeleteDecalsOK ==
  ASSUME DecalAssumption, DecalInv, NEW gone, gone \subseteq DOMAIN decals, DeleteDecals(gone)
  PROVE  /\ DecalsOK(decals') /\ StandsOut(decals', IdsOf(dUndo))
         /\ Hovers(hover, dScreen, decals', IdsOf(dUndo))
         /\ dDeleted' \in Seq(Decal)
<1>1. /\ DecalsOK(decals) /\ StandsOut(decals, IdsOf(dUndo))
      /\ Hovers(hover, dScreen, decals, IdsOf(dUndo)) /\ dDeleted \in Seq(Decal)
  BY DEF DecalInv, DecalRest
<1>2. decals' = WithoutDecals(decals, gone)
  BY DEF DeleteDecals
<1>3. ASSUME NEW id \in gone PROVE Erased(gone)[id] \in Decal
  <2>1. decals[id] \in Decal /\ hover["Stripper"].original \in Nat
    BY <1>1 DEF DecalsOK, Hovers, Hoverers
  <2> QED
    BY <2>1 DEF Erased, InMode, Decal
<1>4. Cardinality(gone) \in Nat
  <2>1. IsFiniteSet(gone)
    BY <1>1, FS_Subset DEF DecalsOK, DecalAssumption
  <2> QED
    BY <2>1, FS_CardinalityType
<1>5. PICK order \in [1 .. Cardinality(gone) -> gone] :
        dDeleted' = dDeleted \o [i \in DOMAIN order |-> Erased(gone)[order[i]]]
  BY DEF DeleteDecals
<1> DEFINE n == Cardinality(gone)
           records == [i \in 1 .. n |-> Erased(gone)[order[i]]]
<1>6. dDeleted' = dDeleted \o records
  BY <1>5
<1>7. records \in Seq(Decal)
  <2> HIDE DEF n
  <2>1. \A i \in 1 .. n : records[i] \in Decal
    BY <1>3 DEF n
  <2>2. n \in Nat
    BY <1>4 DEF n
  <2> QED
    BY <2>1, <2>2, SeqDef
<1> HIDE DEF records
<1>8. dDeleted' \in Seq(Decal)
  BY <1>1, <1>6, <1>7, ConcatProperties
<1> QED
  BY <1>1, <1>2, <1>8, GoneHovers

LEMMA LessDeleted ==
  ASSUME dDeleted \in Seq(Decal), dDeleted # <<>>
  PROVE  dDeleted[Len(dDeleted)] \in Decal /\ SubSeq(dDeleted, 1, Len(dDeleted) - 1) \in Seq(Decal)
<1> DEFINE n == Len(dDeleted)
<1>1. n \in Nat /\ n # 0 /\ DOMAIN dDeleted = 1 .. n
  BY LenProperties, EmptySeq
<1>2. \A i \in 1 .. n : dDeleted[i] \in Decal
  BY <1>1, ElementOfSeq
<1> HIDE DEF n
<1>3. 1 \in Int /\ n - 1 \in Int /\ \A i \in 1 .. n - 1 : dDeleted[i] \in Decal
  BY <1>1, <1>2
<1>4. dDeleted[n] \in Decal
  BY <1>1, <1>2
<1> QED
  BY <1>3, <1>4, SubSeqProperties DEF n

LEMMA HovererSteps ==
  ASSUME DecalAssumption, DecalInv, DecalHovering
  PROVE  DecalInv'
<1>1. /\ DecalsOK(decals) /\ StackOK(dUndo) /\ StandsOut(decals, IdsOf(dUndo))
      /\ Hovers(hover, dScreen, decals, IdsOf(dUndo))
      /\ dDeleted \in Seq(Decal) /\ dBrush \in BOOLEAN /\ dLeft \in BOOLEAN
      /\ dCancel \subseteq Tools /\ (dScreen # "None" => dLoaded)
      /\ (dLoaded \/ dDeleted = <<>>)
  BY DEF DecalInv, DecalRest, BetweenCities
<1>2. ASSUME NEW t \in Hoverers, EscInHoverer(t) PROVE DecalInv'
  <2>1. /\ dScreen = t /\ Hovering(t, NoDecal) /\ dLeft' \in BOOLEAN
        /\ UNCHANGED <<dPainter, dDeleted, dBrush, dScreen, dPainting, dPolicy, dLoaded>>
        /\ dCancel' \subseteq Tools
    BY <1>1, <1>2 DEF EscInHoverer, Tools
  <2>2. DecalsOK(decals') /\ StandsOut(decals', IdsOf(dUndo)) /\ Hovers(hover', dScreen, decals', IdsOf(dUndo))
    BY <1>1, <2>1, HoveringOK
  <2> QED
    BY <1>1, <2>1, <2>2, HovererKeeps
<1>3. ASSUME NEW t \in Hoverers, NEW id \in DOMAIN decals \cup {NoDecal}, MoveHovering(t, id)
      PROVE  DecalInv'
  <2>1. dScreen = t /\ Hovering(t, id) /\ UNCHANGED <<dPainter, dStripper, dDirector>>
    BY <1>3 DEF MoveHovering
  <2>2. DecalsOK(decals') /\ StandsOut(decals', IdsOf(dUndo)) /\ Hovers(hover', dScreen, decals', IdsOf(dUndo))
    BY <1>1, <2>1, HoveringOK
  <2> QED
    BY <1>1, <2>1, <2>2, HovererKeeps DEF dStripper, dDirector
<1>4. ASSUME NEW id \in DOMAIN decals \cup {NoDecal}, ToggleDecalMode(id) PROVE DecalInv'
  <2>1. /\ dScreen = "Stripper" /\ dBrush' \in BOOLEAN /\ dLeft' \in BOOLEAN
        /\ Hovering("Stripper", IF dBrush THEN id ELSE NoDecal)
        /\ UNCHANGED <<dPainter, dDeleted, dDirector>>
    BY <1>4 DEF ToggleDecalMode
  <2>2. (IF dBrush THEN id ELSE NoDecal) \in DOMAIN decals \cup {NoDecal} /\ "Stripper" \in Hoverers
    BY DEF Hoverers
  <2>3. DecalsOK(decals') /\ StandsOut(decals', IdsOf(dUndo)) /\ Hovers(hover', dScreen, decals', IdsOf(dUndo))
    BY <1>1, <2>1, <2>2, HoveringOK
  <2> QED
    BY <1>1, <2>1, <2>3, HovererKeeps DEF dDirector
<1>5. CASE DecalSingleClick
  <2>1. /\ dScreen = "Stripper" /\ DeleteDecals({hover["Stripper"].id} \cap DOMAIN decals)
        /\ hover' = [hover EXCEPT !["Stripper"] = NoHover]
        /\ UNCHANGED <<dPainter, dBrush, dLeft, dDirector>>
    BY <1>5 DEF DecalSingleClick
  <2>2. DecalsOK(decals') /\ StandsOut(decals', IdsOf(dUndo)) /\ dDeleted' \in Seq(Decal)
        /\ Hovers(hover, dScreen, decals', IdsOf(dUndo))
    BY <2>1, DeleteDecalsOK
  <2>3. NoDecal \notin IdsOf(dUndo)
    BY <1>1, IdsOfOK, NoDecalIsNoId
  <2>4. Hovers(hover', dScreen, decals', IdsOf(dUndo))
    BY <2>1, <2>2, <2>3 DEF Hovers, HoverOK, NoHover
  <2> QED
    BY <1>1, <2>1, <2>2, <2>4, HovererKeeps DEF dDirector
<1>6. ASSUME NEW gone \in SUBSET DOMAIN decals, BrushStroke(gone) PROVE DecalInv'
  <2>1. /\ dScreen = "Stripper" /\ DeleteDecals(gone) /\ dLeft' \in BOOLEAN
        /\ UNCHANGED <<dPainter, hover, dBrush, dDirector>>
    BY <1>1, <1>6 DEF BrushStroke
  <2>2. DecalsOK(decals') /\ StandsOut(decals', IdsOf(dUndo)) /\ dDeleted' \in Seq(Decal)
        /\ Hovers(hover, dScreen, decals', IdsOf(dUndo))
    BY <2>1, DeleteDecalsOK
  <2> QED
    BY <1>1, <2>1, <2>2, HovererKeeps DEF dDirector
<1>7. CASE DecalButtonUp
  <2>1. dLeft' = FALSE /\ UNCHANGED <<decals, dPainter, hover, dDeleted, dBrush, dDirector>>
    BY <1>7 DEF DecalButtonUp
  <2> QED
    BY <1>1, <2>1, HovererKeeps DEF dDirector
<1>8. CASE UndoDecalDeletion
  <2>1. PICK id \in FreshIds : decals' = WithDecal(decals, id, dDeleted[Len(dDeleted)])
    BY <1>8 DEF UndoDecalDeletion
  <2>2. /\ dScreen = "Stripper" /\ dDeleted # <<>>
        /\ dDeleted' = SubSeq(dDeleted, 1, Len(dDeleted) - 1)
        /\ UNCHANGED <<dPainter, hover, dBrush, dLeft, dDirector>>
    BY <1>8 DEF UndoDecalDeletion
  <2>3. dDeleted[Len(dDeleted)] \in Decal /\ dDeleted' \in Seq(Decal)
    BY <1>1, <2>2, LessDeleted
  <2>4. id \in Ids /\ id \notin IdsOf(dUndo) /\ \A t \in Hoverers : hover[t].id # id
    BY DEF FreshIds, IdsOf, PendingIds, HoveredIds
  <2>5. /\ DOMAIN decals' = DOMAIN decals \cup {id} /\ DecalsOK(decals')
        /\ \A x \in DOMAIN decals \ {id} : decals'[x] = decals[x]
        /\ StandsOut(decals', IdsOf(dUndo))
    <3> DEFINE d == dDeleted[Len(dDeleted)]
    <3>1. /\ d \in Decal /\ id \in Ids /\ id \notin IdsOf(dUndo)
          /\ DecalsOK(decals) /\ StandsOut(decals, IdsOf(dUndo)) /\ decals' = WithDecal(decals, id, d)
      BY <1>1, <2>1, <2>3, <2>4
    <3> HIDE DEF d
    <3>2. DOMAIN decals' = DOMAIN decals \cup {id} /\ \A x \in DOMAIN decals \ {id} : decals'[x] = decals[x]
      BY ONLY <3>1 DEF WithDecal
    <3>3. DecalsOK(decals')
      BY <3>1, WithInCity
    <3> QED
      BY <1>1, <2>4, <3>2, <3>3 DEF StandsOut
  <2>6. Hovers(hover, dScreen, decals', IdsOf(dUndo))
    BY <1>1, <2>4, <2>5 DEF Hovers, HoverOK
  <2> QED
    BY <1>1, <2>2, <2>3, <2>5, <2>6, HovererKeeps DEF dDirector
<1>9. CASE DecalUndoFails
  <2>1. /\ dScreen = "Stripper" /\ dDeleted # <<>>
        /\ dDeleted' = SubSeq(dDeleted, 1, Len(dDeleted) - 1)
        /\ UNCHANGED <<decals, dPainter, hover, dBrush, dLeft, dDirector>>
    BY <1>9 DEF DecalUndoFails
  <2>2. dDeleted' \in Seq(Decal)
    BY <1>1, <2>1, LessDeleted
  <2> QED
    BY <1>1, <2>1, <2>2, HovererKeeps DEF dDirector
<1> QED
  BY <1>2, <1>3, <1>4, <1>5, <1>6, <1>7, <1>8, <1>9 DEF DecalHovering

\* What is left when the control on screen is dropped, or none was there.
LEMMA DropKeeps ==
  ASSUME DecalAssumption, DecalInv, NEW c, DecalsOK(c), DecalToolDropped(c),
         StackOK(dUndo'), IdsOf(dUndo') \subseteq IdsOf(dUndo),
         StandsOut(c, IdsOf(dUndo')),
         UNCHANGED <<shown, template, dBrush, dPolicy>>,
         dDeleted' \in Seq(Decal), dScreen' \in Tools \cup {"None"}, dPainting' \in BOOLEAN,
         dCancel' \subseteq Tools, dLoaded' \in BOOLEAN,
         ~dLoaded' => dUndo' = <<>> /\ dDeleted' = <<>> /\ dScreen' = "None"
  PROVE  DecalInv'
<1> DEFINE P == IdsOf(dUndo')
<1>1. /\ DecalsOK(decals') /\ StandsOut(decals', P)
      /\ dPreview' = NoDecal /\ hover' = [t \in Hoverers |-> NoHover] /\ dLeft' = FALSE
  <2>1. Hovers(hover, dScreen, decals, IdsOf(dUndo))
    BY DEF DecalInv
  <2>2. P \in SUBSET IdsOf(dUndo) /\ StandsOut(c, P)
    OBVIOUS
  <2> HIDE DEF P
  <2> QED BY <2>1, <2>2, DroppedOK
<1>2. Hovers(hover', dScreen', decals', P)
  <2>1. hover' \in [Hoverers -> [id : Ids \cup {NoDecal}, original : Nat]]
        /\ \A t \in Hoverers : hover'[t].id = NoDecal
    BY <1>1 DEF NoHover
  <2>2. P \in SUBSET Ids
    BY IdsOfOK
  <2> HIDE DEF P
  <2> QED BY <2>1, <2>2, NoHovers
<1>3. PreviewOK' /\ BetweenCities'
  BY <1>1 DEF PreviewOK, BetweenCities
<1>4. DecalRest'
  BY <1>1 DEF DecalInv, DecalRest
<1> QED
  BY <1>1, <1>2, <1>3, <1>4 DEF DecalInv

LEMMA DirectorSteps ==
  ASSUME DecalAssumption, DecalInv,
         \/ \E t \in Hoverers \cup {"None"} : OtherToolStarts(t)
         \/ StopDecalPainting \/ DecalToolLeavesScreen \/ DecalCityShutdown \/ DecalCityInit
         \/ \E t \in Tools : DecalTick(t)
         \/ \E id \in Ids : DecalVanishes(id)
  PROVE  DecalInv'
<1>1. /\ DecalsOK(decals) /\ StackOK(dUndo) /\ StandsOut(decals, IdsOf(dUndo))
      /\ Hovers(hover, dScreen, decals, IdsOf(dUndo))
      /\ dDeleted \in Seq(Decal) /\ dLeft \in BOOLEAN
      /\ dCancel \subseteq Tools /\ dPolicy \in Policies /\ dPainting \in BOOLEAN
      /\ dScreen \in Tools \cup {"None"} /\ dLoaded \in BOOLEAN
      /\ (~dLoaded => dUndo = <<>> /\ dDeleted = <<>> /\ dScreen = "None")
  BY DEF DecalInv, DecalRest, BetweenCities
<1>2. CancelAfterDrop \subseteq Tools
  BY <1>1 DEF CancelAfterDrop
<1>3. DecalsOK(DecalsCancelled(decals)) /\ StandsOut(DecalsCancelled(decals), IdsOf(dUndo))
      /\ Hovers(hover, dScreen, DecalsCancelled(decals), IdsOf(dUndo))
  BY <1>1, GoneHovers DEF DecalsCancelled
<1>4. StackOK(<<>>) /\ IdsOf(<<>>) = {} /\ StandsOut(DecalsCancelled(decals), {}) /\ <<>> \in Seq(Decal)
  BY EmptyStackOK, EmptySeq
<1>5. ASSUME NEW t \in Hoverers \cup {"None"}, OtherToolStarts(t) PROVE DecalInv'
  <2> DEFINE c == IF dPainting THEN DecalsAfterPolicy ELSE decals
  <2>1. /\ DecalToolDropped(c) /\ dScreen' = t /\ dPainting' = FALSE /\ dCancel' = CancelAfterDrop
        /\ UNCHANGED <<shown, template, dDeleted, dBrush, dPolicy, dLoaded>> /\ dLoaded
    BY <1>5 DEF OtherToolStarts
  <2>2. /\ DecalsOK(c) /\ StackOK(dUndo')
        /\ IdsOf(dUndo') \subseteq IdsOf(dUndo) /\ StandsOut(c, IdsOf(dUndo'))
    <3>1. CASE dPainting
      BY <1>1, <1>5, <3>1, PolicyOK DEF OtherToolStarts
    <3>2. CASE ~dPainting
      BY <1>1, <1>5, <3>2 DEF OtherToolStarts
    <3> QED
      BY <3>1, <3>2
  <2> HIDE DEF c
  <2>3. dScreen' \in Tools \cup {"None"}
    BY <2>1 DEF Tools
  <2> QED
    BY <1>1, <1>2, <2>1, <2>2, <2>3, DropKeeps
<1>6. CASE DecalToolLeavesScreen
  <2>1. /\ DecalToolDropped(decals) /\ dScreen' = "None" /\ dCancel' = CancelAfterDrop
        /\ UNCHANGED <<dUndo, shown, template, dDeleted, dBrush, dPainting, dPolicy, dLoaded>>
    BY <1>6 DEF DecalToolLeavesScreen
  <2> QED
    BY <1>1, <1>2, <2>1, DropKeeps
<1>7. CASE DecalCityShutdown
  <2>1. /\ DecalToolDropped(DecalsCancelled(decals)) /\ dUndo' = <<>> /\ dDeleted' = <<>> /\ dLoaded' = FALSE
        /\ dScreen' = "None" /\ dPainting' = FALSE /\ dCancel' = CancelAfterDrop
        /\ UNCHANGED <<shown, template, dBrush, dPolicy>>
    BY <1>7 DEF DecalCityShutdown
  <2> QED
    BY <1>2, <1>3, <1>4, <2>1, DropKeeps
<1>8. CASE DecalCityInit
  <2>1. UNCHANGED <<decals, dUndo, dPreview, shown, template, hover, dDeleted, dBrush, dLeft,
                    dScreen, dPainting, dCancel, dPolicy>> /\ dLoaded' = TRUE
    BY <1>8 DEF DecalCityInit, dPainter, dStripper
  <2>2. PreviewOK' /\ BetweenCities'
    BY <2>1 DEF DecalInv, PreviewOK, ShowsPreview, BetweenCities
  <2>3. DecalRest'
    BY <2>1 DEF DecalInv, DecalRest
  <2> QED
    BY <1>1, <2>1, <2>2, <2>3 DEF DecalInv
<1>9. ASSUME NEW id \in Ids, DecalVanishes(id) PROVE DecalInv'
  <2>1. decals' = WithoutDecals(decals, {id}) /\ UNCHANGED <<dPainter, hover, dStripper, dDirector>>
    BY <1>9 DEF DecalVanishes
  <2>2. /\ DecalsOK(decals') /\ StandsOut(decals', IdsOf(dUndo))
        /\ Hovers(hover, dScreen, decals', IdsOf(dUndo))
    BY <1>1, <2>1, GoneHovers
  <2>3. dBrush' \in BOOLEAN
    BY <2>1 DEF dStripper, DecalInv, DecalRest
  <2> QED
    BY <1>1, <2>1, <2>2, <2>3, HovererKeeps DEF dStripper, dDirector
<1>10. ASSUME NEW t \in Tools, DecalTick(t) PROVE DecalInv'
  <2>1. /\ dCancel' \subseteq Tools /\ dPainting' \in BOOLEAN
        /\ UNCHANGED <<dUndo, shown, template, dDeleted, dBrush, dPolicy, dLoaded>>
    BY <1>1, <1>10 DEF DecalTick
  <2>2. CASE dScreen = t
    <3>1. DecalToolDropped(decals) /\ dScreen' = "None"
      BY <1>10, <2>2 DEF DecalTick
    <3> QED
      BY <1>1, <2>1, <3>1, DropKeeps
  <2>3. CASE dScreen # t
    <3>1. UNCHANGED <<decals, dPreview, hover, dLeft, dScreen>>
      BY <1>10, <2>3 DEF DecalTick
    <3>2. PreviewOK' /\ BetweenCities'
      BY <2>1, <3>1 DEF DecalInv, PreviewOK, ShowsPreview, BetweenCities
    <3>3. DecalRest'
      BY <2>1, <3>1 DEF DecalInv, DecalRest
    <3> QED
      BY <1>1, <2>1, <3>1, <3>2, <3>3 DEF DecalInv
  <2> QED
    BY <2>2, <2>3
<1>11. CASE StopDecalPainting
  <2>1. /\ dUndo' = <<>> /\ dPainting' = FALSE
        /\ UNCHANGED <<shown, template, dDeleted, dBrush, dCancel, dPolicy, dLoaded>>
    BY <1>11 DEF StopDecalPainting
  <2>2. CASE dScreen = "Painter"
    <3>1. DecalToolDropped(DecalsCancelled(decals)) /\ dScreen' = "None"
      BY <1>11, <2>2 DEF StopDecalPainting
    <3> QED
      BY <1>1, <1>3, <1>4, <2>1, <3>1, DropKeeps
  <2>3. CASE dScreen # "Painter"
    <3>1. decals' = DecalsCancelled(decals) /\ UNCHANGED <<dPreview, hover, dLeft, dScreen>>
      BY <1>11, <2>3 DEF StopDecalPainting
    <3>2. PreviewOK' /\ BetweenCities'
      BY <2>1, <2>3, <3>1 DEF DecalInv, PreviewOK, ShowsPreview, BetweenCities
    <3>3. DecalRest'
      BY <2>1, <3>1 DEF DecalInv, DecalRest
    <3>4. Hovers(hover', dScreen', decals', IdsOf(dUndo'))
      BY <1>3, <1>4, <2>1, <3>1 DEF Hovers, HoverOK
    <3> QED
      BY <1>3, <1>4, <2>1, <3>1, <3>2, <3>3, <3>4 DEF DecalInv
  <2> QED
    BY <2>2, <2>3
<1> QED
  BY <1>5, <1>6, <1>7, <1>8, <1>9, <1>10, <1>11

LEMMA StartKeeps ==
  ASSUME DecalAssumption, DecalInv, NEW m \in OwnModes, StartDecalPainting(m)
  PROVE  DecalInv'
<1>1. /\ DecalsOK(decals) /\ StackOK(dUndo) /\ StandsOut(decals, IdsOf(dUndo))
      /\ Hovers(hover, dScreen, decals, IdsOf(dUndo)) /\ PreviewOK /\ dCancel \subseteq Tools
  BY DEF DecalInv, DecalRest
<1>2. /\ template' = m /\ hover' = [t \in Hoverers |-> NoHover] /\ dLeft' = FALSE
      /\ dCancel' = CancelAfterDrop /\ dScreen' \in {"Painter", "None"}
      /\ dPainting' \in {TRUE, dPainting} /\ dLoaded
      /\ UNCHANGED <<dUndo, shown, dDeleted, dBrush, dPolicy, dLoaded>>
      /\ SyncDecalPreview(Unhovered(decals))
  BY DEF StartDecalPainting
<1> DEFINE P == IdsOf(dUndo)
           c == Unhovered(decals)
<1>3. DecalsOK(c) /\ StandsOut(c, P)
  <2>1. P \in SUBSET P
    OBVIOUS
  <2> QED BY <1>1, <2>1, UnhoveredOK
<1>4. P = PendingIds /\ NoDecal \notin P /\ P \in SUBSET Ids
  BY <1>1, IdsOfOK, NoDecalIsNoId DEF IdsOf, PendingIds
<1>5. dPreview \notin P \/ dPreview = NoDecal
  BY <1>1 DEF PreviewOK
<1>6. template' \in Nat
  BY <1>2 DEF DecalAssumption
<1> HIDE DEF c
<1>7. /\ DecalsOK(decals') /\ StandsOut(decals', P) /\ dPreview' \in Ids \cup {NoDecal}
      /\ dPreview' # NoDecal => ShowsPreview' /\ dPreview' \notin P
  <2>1. SyncDecalPreview(c)
    BY <1>2 DEF c
  <2>2. P \subseteq PendingIds \cup DOMAIN c
    BY <1>4
  <2> HIDE DEF P
  <2> QED BY <1>1, <1>3, <1>4, <1>5, <1>6, <2>1, <2>2, SyncOK
<1>8. Hovers(hover', dScreen', decals', P)
  <2>1. hover' \in [Hoverers -> [id : Ids \cup {NoDecal}, original : Nat]]
        /\ \A t \in Hoverers : hover'[t].id = NoDecal
    BY <1>2 DEF NoHover
  <2> HIDE DEF P
  <2> QED BY <1>4, <2>1, NoHovers
<1>9. PreviewOK' /\ BetweenCities'
  BY <1>2, <1>7 DEF PreviewOK, BetweenCities
<1>10. DecalRest'
  BY <1>1, <1>2 DEF DecalInv, DecalRest, CancelAfterDrop, Tools
<1> QED
  BY <1>1, <1>2, <1>7, <1>8, <1>9, <1>10 DEF DecalInv

LEMMA DecalStep == ASSUME DecalAssumption, DecalInv, [DecalNext]_dVars PROVE DecalInv'
<1>1. CASE DecalNext
  BY <1>1, PlaceKeeps, PainterSteps, StartKeeps, DirectorSteps, HovererSteps
     DEF DecalNext, DecalPainter, DecalDirector
<1>2. CASE UNCHANGED dVars
  <2>1. UNCHANGED <<decals, dUndo, dPreview, shown, template, hover, dDeleted, dBrush, dLeft,
                    dScreen, dPainting, dCancel, dPolicy, dLoaded>>
    BY <1>2 DEF dVars, dPainter, dStripper, dDirector
  <2>2. PreviewOK' /\ BetweenCities' /\ DecalRest'
    BY <2>1 DEF DecalInv, PreviewOK, ShowsPreview, BetweenCities, DecalRest
  <2> QED
    BY <2>1, <2>2 DEF DecalInv
<1> QED
  BY <1>1, <1>2

-----------------------------------------------------------------------------
(* What follows from it, in every behaviour.                               *)

LEMMA DecalAlways == ASSUME DecalAssumption PROVE DecalSpec => []DecalInv
<1>1. DecalInit => DecalInv
  BY DecalStart
<1>2. DecalInv /\ [DecalNext]_dVars => DecalInv'
  BY DecalStep
<1> QED
  BY <1>1, <1>2, PTL DEF DecalSpec

\* Every variable of the three decal tools keeps its type.
THEOREM DecalTypesCorrect == ASSUME DecalAssumption PROVE DecalSpec => []DecalTypeOK
<1>1. DecalInv => DecalTypeOK
  BY DEF DecalInv, DecalsOK, StackOK, Hovers, PreviewOK, DecalRest, Decal, Placement, DecalTypeOK
<1> QED
  BY <1>1, DecalAlways, PTL

\* What undo, commit and cancel still reach stands out in the city, however the
\* stripper and the picker hovered it, and the undo stack keeps its limit.
THEOREM DecalPendingStandsOut == ASSUME DecalAssumption PROVE DecalSpec => []PendingDecalsStandOut
<1>1. DecalInv => PendingDecalsStandOut
  BY DEF DecalInv, StackOK, StandsOut, IdsOf, PendingIds, PendingDecalsStandOut
<1> QED
  BY <1>1, DecalAlways, PTL

\* A decal stands out for the hover only while the tool that hovers it is on
\* screen, and then it does.
THEOREM DecalHoverOnScreen == ASSUME DecalAssumption PROVE DecalSpec => []HoverOnScreen
<1>1. DecalInv => HoverOnScreen
  BY DEF DecalInv, Hovers, HoverOK, HoverOnScreen
<1> QED
  BY <1>1, DecalAlways, PTL

\* The preview decal is gone whenever the painter is, is never one of the
\* placements, and between cities no tool keeps a record of the city that was left.
THEOREM DecalNothingLeftBehind == ASSUME DecalAssumption PROVE DecalSpec => []NoDecalLeftBehind
<1>1. DecalInv => NoDecalLeftBehind
  BY DEF DecalInv, PreviewOK, BetweenCities, IdsOf, PendingIds, NoDecalLeftBehind
<1> QED
  BY <1>1, DecalAlways, PTL

-----------------------------------------------------------------------------
(* No decal is lost, and hovering leaves no trace.                          *)

\* The mode of decal id in the city c when the hovers h end.
RestIn(h, c, id) ==
  IF \E t \in Hoverers : h[t].id = id
  THEN h[CHOOSE t \in Hoverers : h[t].id = id].original
  ELSE c[id].mode

\* What a placement remembers is the mode its decal is to have.
Remembers(us, c) ==
  \A i \in DOMAIN us : us[i].id \in DOMAIN c => us[i].committed = c[us[i].id].own

\* The strategies hover only when the painter has been replaced.
HovererIsAlone == dScreen \in Hoverers => ~dPainting

DecalTraceInv == DecalInv /\ Remembers(dUndo, decals) /\ HovererIsAlone

\* What a step leaves of decal x; what it leaves of the placements.
Traceless(x) ==
  /\ decals'[x].own = decals[x].own
  /\ Rest(x)' = IF x \in PendingIds \ PendingIds' THEN decals'[x].own ELSE Rest(x)
Recalls ==
  /\ \A i \in DOMAIN dUndo' :
       \/ \E j \in DOMAIN dUndo : dUndo'[i] = dUndo[j]
       \/ /\ dUndo'[i].id \notin DOMAIN decals
          /\ dUndo'[i].id \in DOMAIN decals' => dUndo'[i].committed = decals'[dUndo'[i].id].own
  /\ \A x \in DOMAIN decals' \ DOMAIN decals : x \notin PendingIds
DecalTrace ==
  (\A x \in DOMAIN decals \cap DOMAIN decals' : Traceless(x)) /\ Recalls

\* In the city c nobody hovers, and of the decals that there are the ones in S
\* have been committed.
Settles(c, S) ==
  \A x \in DOMAIN c \cap DOMAIN decals :
    c[x].own = decals[x].own /\ c[x].mode = IF x \in S THEN decals[x].own ELSE Rest(x)

LEMMA RestIs == ASSUME NEW x PROVE Rest(x) = RestIn(hover, decals, x)
  BY DEF Rest, RestIn

LEMMA RestThen == ASSUME NEW x PROVE Rest(x)' = RestIn(hover', decals', x)
  BY DEF Rest, RestIn

LEMMA RestOfOthers ==
  ASSUME NEW h, NEW c, NEW x, \A t \in Hoverers : h[t].id # x
  PROVE  RestIn(h, c, x) = c[x].mode
  BY DEF RestIn

LEMMA RestOfHovered ==
  ASSUME NEW h, NEW c, NEW x, NEW t \in Hoverers, h[t].id = x,
         \A u \in Hoverers : h[u].id = x => u = t
  PROVE  RestIn(h, c, x) = h[t].original
<1>1. (CHOOSE u \in Hoverers : h[u].id = x) = t
  OBVIOUS
<1> QED
  BY <1>1 DEF RestIn

\* At most one tool hovers, and it is on screen.
LEMMA OneHovers ==
  ASSUME DecalAssumption, DecalInv
  PROVE  /\ \A t \in Hoverers : hover[t].id # NoDecal => dScreen = t
         /\ \A x \in DOMAIN decals : x # NoDecal /\ x \in Ids
         /\ hover \in [Hoverers -> [id : Ids \cup {NoDecal}, original : Nat]]
  BY NoDecalIsNoId DEF DecalInv, Hovers, HoverOK, DecalsOK

LEMMA RestOffScreen ==
  ASSUME DecalAssumption, DecalInv, dScreen \notin Hoverers, NEW x \in DOMAIN decals
  PROVE  Rest(x) = decals[x].mode
<1>1. \A t \in Hoverers : hover[t].id # x
  BY OneHovers
<1> QED
  BY <1>1, RestIs, RestOfOthers

LEMMA RestOfFree ==
  ASSUME DecalAssumption, DecalInv, \A t \in Hoverers : hover'[t].id = NoDecal,
         NEW c, NEW S, Settles(c, S),
         \A x \in DOMAIN decals \cap DOMAIN decals' :
           x \in DOMAIN c /\ decals'[x] = c[x] /\ (x \in S <=> x \in PendingIds \ PendingIds')
  PROVE  \A x \in DOMAIN decals \cap DOMAIN decals' : Traceless(x)
<1> SUFFICES ASSUME NEW x \in DOMAIN decals \cap DOMAIN decals' PROVE Traceless(x)
  OBVIOUS
<1>1. \A t \in Hoverers : hover'[t].id # x
  BY OneHovers
<1>2. Rest(x)' = decals'[x].mode
  BY <1>1, RestThen, RestOfOthers
<1>3. decals'[x] = c[x] /\ (x \in S <=> x \in PendingIds \ PendingIds')
      /\ c[x].own = decals[x].own /\ c[x].mode = IF x \in S THEN decals[x].own ELSE Rest(x)
  BY DEF Settles
<1> QED
  BY <1>2, <1>3 DEF Traceless

\* The decals that are left are the same ones, and the hovers as well.
LEMMA RestOfSame ==
  ASSUME hover' = hover,
         \A x \in DOMAIN decals \cap DOMAIN decals' :
           decals'[x] = decals[x] /\ x \notin PendingIds \ PendingIds'
  PROVE  \A x \in DOMAIN decals \cap DOMAIN decals' : Traceless(x)
<1> SUFFICES ASSUME NEW x \in DOMAIN decals \cap DOMAIN decals' PROVE Traceless(x)
  OBVIOUS
<1>1. Rest(x) = RestIn(hover, decals, x) /\ Rest(x)' = RestIn(hover, decals', x)
  BY RestIs, RestThen
<1>2. RestIn(hover, decals', x) = RestIn(hover, decals, x)
  BY DEF RestIn
<1> QED
  BY <1>1, <1>2 DEF Traceless

-----------------------------------------------------------------------------
(* What becomes of the decals, one by one.                                  *)

LEMMA WithModeIs ==
  ASSUME NEW c, NEW id, NEW m
  PROVE  /\ DOMAIN WithMode(c, id, m) = DOMAIN c
         /\ \A x \in DOMAIN c : WithMode(c, id, m)[x] = IF x = id THEN InMode(c[x], m) ELSE c[x]
  BY DEF WithMode

LEMMA WithoutIs ==
  ASSUME NEW c, NEW gone
  PROVE  /\ DOMAIN WithoutDecals(c, gone) = DOMAIN c \ gone
         /\ \A x \in DOMAIN c \ gone : WithoutDecals(c, gone)[x] = c[x]
  BY DEF WithoutDecals, Restrict

LEMMA WithDecalIs ==
  ASSUME NEW c, NEW id, NEW d
  PROVE  /\ DOMAIN WithDecal(c, id, d) = DOMAIN c \cup {id}
         /\ \A x \in DOMAIN c \cup {id} : WithDecal(c, id, d)[x] = IF x = id THEN d ELSE c[x]
  BY DEF WithDecal

LEMMA RestoredIs ==
  ASSUME NEW c, NEW groups, NEW x \in DOMAIN c
  PROVE  /\ DOMAIN RestoredModes(c, groups) = DOMAIN c
         /\ RestoredModes(c, groups)[x].own = c[x].own
         /\ (\A p \in groups : p.id # x) => RestoredModes(c, groups)[x] = c[x]
         /\ \A v : (\E p \in groups : p.id = x) /\ (\A p \in groups : p.id = x => p.committed = v)
                     => RestoredModes(c, groups)[x].mode = v
<1>1. CASE \A p \in groups : p.id # x
  BY <1>1 DEF RestoredModes
<1>2. CASE \E p \in groups : p.id = x
  <2>1. PICK q \in groups : q.id = x /\ q = CHOOSE p \in groups : p.id = x
    BY <1>2
  <2>2. RestoredModes(c, groups)[x] = InMode(c[x], q.committed)
    BY <1>2, <2>1 DEF RestoredModes
  <2>3. InMode(c[x], q.committed).mode = q.committed /\ InMode(c[x], q.committed).own = c[x].own
    BY DEF InMode
  <2>4. DOMAIN RestoredModes(c, groups) = DOMAIN c
    BY DEF RestoredModes
  <2> QED
    BY <1>2, <2>1, <2>2, <2>3, <2>4
<1> QED
  BY <1>1, <1>2

\* SyncPreviewForState_ leaves the decals of the city c as they are; what it
\* creates is new.
LEMMA SyncIs ==
  ASSUME NEW c, SyncDecalPreview(c), NEW x \in DOMAIN decals'
  PROVE  (x \in DOMAIN c /\ decals'[x] = c[x]) \/ (x \in FreshIds /\ x \notin DOMAIN c)
<1> DEFINE b == WithoutDecals(c, {dPreview})
<1>0. DOMAIN b = DOMAIN c \ {dPreview} /\ \A y \in DOMAIN b : b[y] = c[y]
  BY DEF WithoutDecals, Restrict
<1>1. CASE decals' = c
  BY <1>1
<1>2. CASE \E id \in FreshIds \ DOMAIN c :
             decals' = WithDecal(WithoutDecals(c, {dPreview}), id, [mode |-> Highlight, own |-> template'])
  <2>1. PICK id \in FreshIds \ DOMAIN c :
             decals' = WithDecal(WithoutDecals(c, {dPreview}), id, [mode |-> Highlight, own |-> template'])
    BY <1>2
  <2>2. DOMAIN decals' = DOMAIN b \cup {id} /\ \A y \in DOMAIN b \ {id} : decals'[y] = b[y]
    BY <2>1 DEF WithDecal
  <2> HIDE DEF b
  <2> QED
    BY <1>0, <2>1, <2>2
<1>3. CASE decals' = WithoutDecals(c, {dPreview})
  BY <1>0, <1>3
<1> QED
  BY <1>1, <1>2, <1>3 DEF SyncDecalPreview

\* ClearHoveredDecal_ gives every decal its own mode back.
LEMMA UnhoveredSettles ==
  ASSUME DecalAssumption, DecalInv, NEW c, DOMAIN c \subseteq DOMAIN decals,
         \A x \in DOMAIN c : c[x] = decals[x]
  PROVE  DOMAIN Unhovered(c) = DOMAIN c /\ Settles(Unhovered(c), {})
<1> DEFINE s == hover["Stripper"]
           k == hover["Picker"]
           b == WithMode(c, s.id, s.original)
           u == WithMode(b, k.id, k.original)
<1>1. DOMAIN b = DOMAIN c /\ \A x \in DOMAIN c : b[x] = IF x = s.id THEN InMode(c[x], s.original) ELSE c[x]
  BY WithModeIs
<1>2. DOMAIN u = DOMAIN b /\ \A x \in DOMAIN b : u[x] = IF x = k.id THEN InMode(b[x], k.original) ELSE b[x]
  BY WithModeIs
<1>3. Unhovered(c) = u
  BY DEF Unhovered
<1>4. /\ \A t \in Hoverers : hover[t].id # NoDecal => dScreen = t
      /\ \A x \in DOMAIN decals : x # NoDecal
  BY OneHovers
<1>5. Hoverers = {"Stripper", "Picker"}
  BY DEF Hoverers
<1> HIDE DEF b, u
<1>6. ASSUME NEW x \in DOMAIN c
      PROVE  u[x].own = decals[x].own /\ u[x].mode = Rest(x)
  <2>0. c[x] = decals[x] /\ x # NoDecal /\ \A d, m : InMode(d, m).mode = m /\ InMode(d, m).own = d.own
    BY <1>4 DEF InMode
  <2>1. CASE x = s.id
    <3>1. k.id # x /\ \A t \in Hoverers : hover[t].id = x => t = "Stripper"
      BY <1>4, <1>5, <2>0, <2>1
    <3>2. Rest(x) = s.original
      BY <1>5, <2>1, <3>1, RestIs, RestOfHovered
    <3>3. u[x] = InMode(decals[x], s.original)
      BY <1>1, <1>2, <2>0, <2>1, <3>1
    <3> QED
      BY <2>0, <3>2, <3>3
  <2>2. CASE x = k.id
    <3>1. s.id # x /\ \A t \in Hoverers : hover[t].id = x => t = "Picker"
      BY <1>4, <1>5, <2>0, <2>2
    <3>2. Rest(x) = k.original
      BY <1>5, <2>2, <3>1, RestIs, RestOfHovered
    <3>3. u[x] = InMode(decals[x], k.original)
      BY <1>1, <1>2, <2>0, <2>2, <3>1
    <3> QED
      BY <2>0, <3>2, <3>3
  <2>3. CASE x # s.id /\ x # k.id
    <3>1. \A t \in Hoverers : hover[t].id # x
      BY <1>5, <2>3
    <3>2. Rest(x) = decals[x].mode
      BY <3>1, RestIs, RestOfOthers
    <3> QED
      BY <1>1, <1>2, <2>0, <2>3, <3>2
  <2> QED
    BY <2>1, <2>2, <2>3
<1> QED
  BY <1>1, <1>2, <1>3, <1>6 DEF Settles

\* CommitPlacements gives the placements the mode they are to have.
LEMMA CommittedSettles ==
  ASSUME DecalAssumption, DecalTraceInv, dScreen \notin Hoverers
  PROVE  DOMAIN DecalsCommitted(decals) = DOMAIN decals /\ Settles(DecalsCommitted(decals), PendingIds)
<1> DEFINE all == {dUndo[i] : i \in DOMAIN dUndo}
           c == RestoredModes(decals, all)
<1>1. DecalsCommitted(decals) = c
  BY DEF DecalsCommitted
<1>2. \A x : x \in PendingIds <=> \E p \in all : p.id = x
  BY DEF PendingIds
<1>3. \A p \in all : p.id \in DOMAIN decals => p.committed = decals[p.id].own
  BY DEF DecalTraceInv, Remembers
<1>4. DOMAIN c = DOMAIN decals
  BY DEF RestoredModes
<1> HIDE DEF all
<1>5. ASSUME NEW x \in DOMAIN decals
      PROVE  c[x].own = decals[x].own /\ c[x].mode = IF x \in PendingIds THEN decals[x].own ELSE Rest(x)
  <2>1. /\ c[x].own = decals[x].own
        /\ (\A p \in all : p.id # x) => c[x] = decals[x]
        /\ \A v : (\E p \in all : p.id = x) /\ (\A p \in all : p.id = x => p.committed = v)
                    => c[x].mode = v
    BY RestoredIs
  <2>2. Rest(x) = decals[x].mode
    BY RestOffScreen DEF DecalTraceInv
  <2> HIDE DEF c
  <2> QED
    BY <1>2, <1>3, <2>1, <2>2
<1> HIDE DEF c
<1> QED
  BY <1>1, <1>4, <1>5 DEF Settles

\* What is left of the decals off screen.
LEMMA PartSettles ==
  ASSUME DecalAssumption, DecalInv, dScreen \notin Hoverers, NEW c,
         \A x \in DOMAIN c \cap DOMAIN decals : c[x] = decals[x]
  PROVE  Settles(c, {})
  BY RestOffScreen DEF Settles

-----------------------------------------------------------------------------
(* What each step leaves.                                                  *)

\* AddDecalToUndo_ and TrimUndoStack_: every placement is kept or cut off.
LEMMA KeptOrCut ==
  ASSUME DecalAssumption, NEW st, StackOK(st), NEW g \in Placement
  PROVE  /\ \A p \in CutGroups(st, g) : p = g \/ \E j \in DOMAIN st : p = st[j]
         /\ \A i \in DOMAIN KeptGroups(st, g) :
              KeptGroups(st, g)[i] = g \/ \E j \in DOMAIN st : KeptGroups(st, g)[i] = st[j]
         /\ \A j \in DOMAIN st :
              st[j] \in CutGroups(st, g) \/ \E i \in DOMAIN KeptGroups(st, g) : KeptGroups(st, g)[i] = st[j]
<1> DEFINE us == Append(st, g)
           e == Overflow(us)
           kept == SubSeq(us, e + 1, Len(us))
<1>1. /\ us \in Seq(Placement) /\ Len(us) = Len(st) + 1 /\ DOMAIN us = 1 .. Len(us)
      /\ us[Len(us)] = g /\ \A i \in 1 .. Len(st) : us[i] = st[i]
  BY DEF StackOK
<1>2. Len(st) \in Nat /\ DOMAIN st = 1 .. Len(st)
  BY DEF StackOK
<1> HIDE DEF us
<1>3. e \in Nat /\ e <= Len(us)
  BY <1>1, <1>2 DEF Overflow, DecalAssumption
<1> HIDE DEF e
<1>4. \A i \in 1 .. Len(us) : us[i] = g \/ \E j \in DOMAIN st : us[i] = st[j]
  BY <1>1, <1>2
<1>5. /\ kept \in Seq(Placement) /\ Len(kept) = Len(us) - e
      /\ \A i \in 1 .. Len(us) - e : kept[i] = us[i + e]
  <2>1. \A i \in e + 1 .. Len(us) : us[i] \in Placement
    BY <1>1, <1>3, ElementOfSeq
  <2> DEFINE a == e + 1
             b == Len(us)
  <2>0. a \in Int /\ b \in Int /\ a = e + 1 /\ \A i \in a .. b : us[i] \in Placement
    BY <1>1, <1>2, <1>3, <2>1
  <2>k. kept = SubSeq(us, a, b)
    OBVIOUS
  <2> HIDE DEF a, b
  <2>2. /\ kept \in Seq(Placement)
        /\ Len(kept) = IF a <= b THEN b - a + 1 ELSE 0
        /\ \A i \in 1 .. b - a + 1 : kept[i] = us[a + i - 1]
    BY <2>0, <2>k, SubSeqProperties
  <2> USE DEF a, b
  <2> HIDE DEF kept
  <2> QED
    BY <1>1, <1>2, <1>3, <2>2
<1> HIDE DEF kept
<1>6. DOMAIN kept = 1 .. Len(us) - e
  BY <1>5, LenProperties
<1>7. KeptGroups(st, g) = kept /\ CutGroups(st, g) = {us[i] : i \in 1 .. e}
  BY DEF KeptGroups, CutGroups, kept, e, us
<1>8. \A i \in DOMAIN kept : i + e \in 1 .. Len(us) /\ kept[i] = us[i + e]
  BY <1>1, <1>2, <1>3, <1>5, <1>6
<1>9. ASSUME NEW j \in DOMAIN st
      PROVE  st[j] \in {us[i] : i \in 1 .. e} \/ \E i \in DOMAIN kept : kept[i] = st[j]
  <2>1. us[j] = st[j] /\ j \in 1 .. Len(us)
    BY <1>1, <1>2
  <2>2. CASE j <= e
    <3>1. j \in 1 .. e
      BY <1>3, <2>1, <2>2
    <3> QED
      BY <2>1, <3>1
  <2>3. CASE ~(j <= e)
    <3>1. j - e \in DOMAIN kept /\ (j - e) + e = j
      BY <1>1, <1>2, <1>3, <1>6, <2>1, <2>3
    <3>2. kept[j - e] = st[j]
      BY <1>8, <2>1, <3>1
    <3> QED
      BY <3>1, <3>2
  <2> QED
    BY <2>2, <2>3
<1>10. \A p \in {us[i] : i \in 1 .. e} : p = g \/ \E j \in DOMAIN st : p = st[j]
  <2>1. \A i \in 1 .. e : i \in 1 .. Len(us)
    BY <1>1, <1>2, <1>3
  <2> QED
    BY <1>4, <2>1
<1>11. \A i \in DOMAIN kept : kept[i] = g \/ \E j \in DOMAIN st : kept[i] = st[j]
  BY <1>4, <1>8
<1> QED
  BY <1>7, <1>9, <1>10, <1>11

LEMMA NoneHovers ==
  ASSUME DecalAssumption, DecalInv, dScreen \notin Hoverers
  PROVE  \A t \in Hoverers : hover[t].id = NoDecal
  BY OneHovers

LEMMA PlaceTraces ==
  ASSUME DecalAssumption, DecalTraceInv, Place
  PROVE  DecalTrace
<1>1. PICK new \in FreshIds :
        LET us == Append(dUndo, [id |-> new, committed |-> template])
            excess == IF Len(us) > MaxUndoGroups THEN Len(us) - MaxUndoGroups ELSE 0
            c == WithDecal(decals, new, [mode |-> Highlight, own |-> template])
        IN /\ dUndo' = SubSeq(us, excess + 1, Len(us))
           /\ UNCHANGED <<shown, template, hover, dStripper, dDirector>>
           /\ SyncDecalPreview(RestoredModes(c, {us[i] : i \in 1 .. excess}))
  BY DEF Place
<1> DEFINE g == [id |-> new, committed |-> template]
           c == WithDecal(decals, new, [mode |-> Highlight, own |-> template])
           cut == CutGroups(dUndo, g)
           r == RestoredModes(c, cut)
<1>2. /\ dUndo' = KeptGroups(dUndo, g) /\ SyncDecalPreview(r)
      /\ hover' = hover /\ template' = template
  BY <1>1 DEF KeptGroups, CutGroups, Overflow
<1>3. new \in Ids /\ new \notin DOMAIN decals /\ new \notin PendingIds
  BY DEF FreshIds
<1>4. g \in Placement /\ StackOK(dUndo) /\ dScreen \notin Hoverers /\ DecalInv
  BY <1>3, TemplateMode DEF Placement, DecalTraceInv, DecalInv, DecalRest, Place, Hoverers
<1>5. g.id \notin IdsOf(dUndo) /\ g.id = new /\ g.committed = template
  BY <1>3 DEF IdsOf, PendingIds
<1> HIDE DEF g
<1>6. \A p \in cut : p.id \notin IdsOf(dUndo')
  BY <1>2, <1>4, <1>5, LongerStackOK
<1>7. /\ \A p \in cut : p = g \/ \E j \in DOMAIN dUndo : p = dUndo[j]
      /\ \A i \in DOMAIN dUndo' : dUndo'[i] = g \/ \E j \in DOMAIN dUndo : dUndo'[i] = dUndo[j]
      /\ \A j \in DOMAIN dUndo : dUndo[j] \in cut \/ \E i \in DOMAIN dUndo' : dUndo'[i] = dUndo[j]
  BY <1>2, <1>4, KeptOrCut
<1>8. PendingIds = IdsOf(dUndo) /\ PendingIds' = IdsOf(dUndo')
  BY DEF PendingIds, IdsOf
<1> HIDE DEF cut
<1>9. \A x \in DOMAIN decals : x \in PendingIds \ PendingIds' <=> \E p \in cut : p.id = x
  BY <1>3, <1>5, <1>6, <1>7, <1>8 DEF IdsOf
<1>10. \A p \in cut : p.id \in DOMAIN decals => p.committed = decals[p.id].own
  BY <1>3, <1>5, <1>7 DEF DecalTraceInv, Remembers
<1>11. DOMAIN c = DOMAIN decals \cup {new}
       /\ \A x \in DOMAIN c : c[x] = IF x = new THEN [mode |-> Highlight, own |-> template] ELSE decals[x]
  BY DEF WithDecal
<1> HIDE DEF c
<1>12. DOMAIN r = DOMAIN c
  BY DEF RestoredModes
<1>13. ASSUME NEW x \in DOMAIN c
       PROVE  /\ r[x].own = c[x].own
              /\ (\A p \in cut : p.id # x) => r[x] = c[x]
              /\ \A v : (\E p \in cut : p.id = x) /\ (\A p \in cut : p.id = x => p.committed = v)
                          => r[x].mode = v
  BY RestoredIs
<1> HIDE DEF r
<1>14. Settles(r, PendingIds \ PendingIds')
  <2> SUFFICES ASSUME NEW x \in DOMAIN r \cap DOMAIN decals
               PROVE  /\ r[x].own = decals[x].own
                      /\ r[x].mode = IF x \in PendingIds \ PendingIds' THEN decals[x].own ELSE Rest(x)
    BY DEF Settles
  <2>1. c[x] = decals[x] /\ x \in DOMAIN c
    BY <1>3, <1>11
  <2>2. Rest(x) = decals[x].mode
    BY <1>4, RestOffScreen
  <2>3. CASE \E p \in cut : p.id = x
    <3>1. \A p \in cut : p.id = x => p.committed = decals[x].own
      BY <1>10
    <3> QED
      BY <1>9, <1>13, <2>1, <2>3, <3>1
  <2>4. CASE \A p \in cut : p.id # x
    BY <1>9, <1>13, <2>1, <2>2, <2>4
  <2> QED
    BY <2>3, <2>4
<1>15. \A x \in DOMAIN decals' : (x \in DOMAIN r /\ decals'[x] = r[x]) \/ (x \in FreshIds /\ x \notin DOMAIN r)
  BY <1>2, SyncIs
<1>16. \A x \in DOMAIN decals \cap DOMAIN decals' : x \in DOMAIN r /\ decals'[x] = r[x]
  BY <1>15 DEF FreshIds
<1>17. \A x \in DOMAIN decals \cap DOMAIN decals' : Traceless(x)
  <2>1. \A t \in Hoverers : hover'[t].id = NoDecal
    BY <1>2, <1>4, NoneHovers
  <2> QED
    BY <1>4, <1>14, <1>16, <2>1, RestOfFree
<1>18. ASSUME NEW i \in DOMAIN dUndo'
       PROVE  \/ \E j \in DOMAIN dUndo : dUndo'[i] = dUndo[j]
              \/ /\ dUndo'[i].id \notin DOMAIN decals
                 /\ dUndo'[i].id \in DOMAIN decals' => dUndo'[i].committed = decals'[dUndo'[i].id].own
  <2>1. CASE dUndo'[i] = g
    <3>1. new \in DOMAIN r /\ r[new].own = template
      BY <1>11, <1>12, <1>13
    <3>2. new \in DOMAIN decals' => decals'[new].own = template
      BY <1>15, <3>1
    <3> QED
      BY <1>3, <1>5, <2>1, <3>2
  <2> QED
    BY <1>7, <2>1
<1>19. ASSUME NEW x \in DOMAIN decals' \ DOMAIN decals PROVE x \notin PendingIds
  BY <1>3, <1>11, <1>12, <1>15 DEF FreshIds
<1> QED
  BY <1>17, <1>18, <1>19 DEF DecalTrace, Recalls

\* A step that places nothing.
LEMMA NothingPlaced ==
  ASSUME \A i \in DOMAIN dUndo' : \E j \in DOMAIN dUndo : dUndo'[i] = dUndo[j],
         \A x \in DOMAIN decals' \ DOMAIN decals : x \in FreshIds
  PROVE  Recalls
  BY DEF Recalls, FreshIds

\* Shared by the steps that end with a preview, when the painter is or comes on
\* screen and the city is c.
LEMMA SyncTraces ==
  ASSUME DecalAssumption, DecalInv, \A t \in Hoverers : hover'[t].id = NoDecal,
         NEW c, DOMAIN c \subseteq DOMAIN decals, NEW S, Settles(c, S), SyncDecalPreview(c),
         \A x \in DOMAIN c : x \in S <=> x \in PendingIds \ PendingIds',
         \A i \in DOMAIN dUndo' : \E j \in DOMAIN dUndo : dUndo'[i] = dUndo[j]
  PROVE  DecalTrace
<1>1. \A x \in DOMAIN decals' : (x \in DOMAIN c /\ decals'[x] = c[x]) \/ (x \in FreshIds /\ x \notin DOMAIN c)
  BY SyncIs
<1>2. \A x \in DOMAIN decals \cap DOMAIN decals' :
         x \in DOMAIN c /\ decals'[x] = c[x] /\ (x \in S <=> x \in PendingIds \ PendingIds')
  BY <1>1 DEF FreshIds
<1>3. \A x \in DOMAIN decals \cap DOMAIN decals' : Traceless(x)
  BY <1>2, RestOfFree
<1>4. \A x \in DOMAIN decals' \ DOMAIN decals : x \in FreshIds
  BY <1>1
<1> QED
  BY <1>3, <1>4, NothingPlaced DEF DecalTrace

\* A group less, or none: nothing new is remembered.
LEMMA FewerPlacements ==
  ASSUME DecalInv, dUndo' = dUndo \/ dUndo' = <<>>
  PROVE  /\ \A i \in DOMAIN dUndo' : \E j \in DOMAIN dUndo : dUndo'[i] = dUndo[j]
         /\ dUndo' = dUndo => PendingIds' = PendingIds
         /\ dUndo' = <<>> => PendingIds' = {}
<1>1. CASE dUndo' = dUndo
  <2>1. PendingIds' = PendingIds
    BY <1>1 DEF PendingIds
  <2>2. dUndo' = <<>> => PendingIds' = {}
    BY DEF PendingIds
  <2> QED
    BY <1>1, <2>1, <2>2
<1>2. CASE dUndo' = <<>>
  <2>1. DOMAIN dUndo' = {}
    BY <1>2
  <2>2. PendingIds' = {}
    BY <2>1 DEF PendingIds
  <2>3. dUndo' = dUndo => PendingIds' = PendingIds
    BY DEF PendingIds
  <2> QED
    BY <2>1, <2>2, <2>3
<1> QED
  BY <1>1, <1>2

\* ApplySwitchPolicy_
LEMMA PolicySettles ==
  ASSUME DecalAssumption, DecalTraceInv, dScreen \notin Hoverers, PolicyApplied
  PROVE  /\ DOMAIN DecalsAfterPolicy \subseteq DOMAIN decals
         /\ Settles(DecalsAfterPolicy, PendingIds \ PendingIds')
         /\ dUndo' = dUndo \/ dUndo' = <<>>
<1>0. DecalInv /\ dPolicy \in Policies
  BY DEF DecalTraceInv, DecalInv, DecalRest
<1>1. CASE dPolicy = "Discard"
  <2> DEFINE c == WithoutDecals(decals, PendingIds)
  <2>1. DecalsAfterPolicy = c /\ dUndo' = <<>>
    BY <1>1 DEF DecalsAfterPolicy, DecalsCancelled, PolicyApplied
  <2>2. DOMAIN c = DOMAIN decals \ PendingIds /\ \A x \in DOMAIN c : c[x] = decals[x]
    BY DEF WithoutDecals, Restrict
  <2> HIDE DEF c
  <2>3. Settles(c, {})
    BY <1>0, <2>2, PartSettles
  <2>4. Settles(c, PendingIds \ PendingIds')
    BY <2>2, <2>3 DEF Settles
  <2> QED
    BY <2>1, <2>2, <2>4
<1>2. CASE dPolicy = "Commit"
  <2>1. DecalsAfterPolicy = DecalsCommitted(decals) /\ dUndo' = <<>>
    BY <1>2 DEF DecalsAfterPolicy, PolicyApplied
  <2>2. PendingIds' = {}
    BY <1>0, <2>1, FewerPlacements
  <2>3. PendingIds \ PendingIds' = PendingIds
    BY <2>2
  <2> QED
    BY <2>1, <2>3, CommittedSettles
<1>3. CASE dPolicy = "KeepPending"
  <2>1. DecalsAfterPolicy = decals /\ dUndo' = dUndo
    BY <1>3 DEF DecalsAfterPolicy, PolicyApplied
  <2>2. PendingIds \ PendingIds' = {}
    BY <1>0, <2>1, FewerPlacements
  <2>3. Settles(decals, {})
    BY <1>0, PartSettles
  <2> QED
    BY <2>1, <2>2, <2>3
<1> QED
  BY <1>0, <1>1, <1>2, <1>3 DEF Policies

\* Where nobody hovers, ClearHoveredDecal_ changes nothing.
LEMMA UnhoveredSame ==
  ASSUME DecalAssumption, DecalInv, dScreen \notin Hoverers, NEW c, DOMAIN c \subseteq DOMAIN decals
  PROVE  Unhovered(c) = c
<1>1. hover["Stripper"].id = NoDecal /\ hover["Picker"].id = NoDecal
  BY NoneHovers DEF Hoverers
<1>2. NoDecal \notin DOMAIN c
  BY OneHovers
<1> QED
  BY <1>1, <1>2 DEF Unhovered, WithMode

LEMMA DropTraces ==
  ASSUME DecalAssumption, DecalInv, NEW c, DecalToolDropped(c), NEW S,
         DOMAIN Unhovered(c) \subseteq DOMAIN decals, Settles(Unhovered(c), S),
         \A x \in DOMAIN Unhovered(c) : x \in S <=> x \in PendingIds \ PendingIds',
         dUndo' = dUndo \/ dUndo' = <<>>
  PROVE  DecalTrace
<1>1. PICK b : b = Unhovered(c)
  OBVIOUS
<1>2. decals' = WithoutDecals(b, {dPreview}) /\ hover' = [t \in Hoverers |-> NoHover]
  BY <1>1 DEF DecalToolDropped
<1>3. DOMAIN decals' = DOMAIN b \ {dPreview} /\ \A x \in DOMAIN decals' : decals'[x] = b[x]
  BY <1>2 DEF WithoutDecals, Restrict
<1>4. \A t \in Hoverers : hover'[t].id = NoDecal
  BY <1>2 DEF NoHover
<1>5. \A x \in DOMAIN decals \cap DOMAIN decals' : Traceless(x)
  BY <1>1, <1>3, <1>4, RestOfFree
<1>6. Recalls
  BY <1>1, <1>3, FewerPlacements, NothingPlaced
<1> QED
  BY <1>5, <1>6 DEF DecalTrace

\* The tool is dropped and the placements of decals in the city stay what they are,
\* or go with their decals.
LEMMA PlainDropTraces ==
  ASSUME DecalAssumption, DecalInv, NEW c, DOMAIN c \subseteq DOMAIN decals,
         \A x \in DOMAIN c : c[x] = decals[x], DecalToolDropped(c),
         \/ dUndo' = dUndo
         \/ dUndo' = <<>> /\ DOMAIN c \cap PendingIds = {}
  PROVE  DecalTrace
<1>1. DOMAIN Unhovered(c) = DOMAIN c /\ Settles(Unhovered(c), {})
  BY UnhoveredSettles
<1>2. \A x \in DOMAIN c : x \notin PendingIds \ PendingIds'
  BY FewerPlacements
<1> QED
  BY <1>1, <1>2, DropTraces

LEMMA SyncedSteps ==
  ASSUME DecalAssumption, DecalTraceInv,
         \/ MoveOrAdjust \/ CycleDecalPreview
         \/ \E m \in OwnModes : RetargetPainting(m) \/ StartDecalPainting(m)
  PROVE  DecalTrace
<1>0. DecalInv
  BY DEF DecalTraceInv
<1>1. CASE MoveOrAdjust \/ CycleDecalPreview
  <2>1. dScreen \notin Hoverers /\ hover' = hover /\ dUndo' = dUndo /\ SyncDecalPreview(decals)
    BY <1>1 DEF MoveOrAdjust, CycleDecalPreview, Hoverers
  <2>2. \A t \in Hoverers : hover'[t].id = NoDecal
    BY <1>0, <2>1, NoneHovers
  <2>3. Settles(decals, {})
    BY <1>0, <2>1, PartSettles
  <2>4. PendingIds \ PendingIds' = {} /\ \A i \in DOMAIN dUndo' : \E j \in DOMAIN dUndo : dUndo'[i] = dUndo[j]
    BY <1>0, <2>1, FewerPlacements
  <2> QED
    BY <1>0, <2>1, <2>2, <2>3, <2>4, SyncTraces
<1>2. ASSUME NEW m \in OwnModes, RetargetPainting(m) PROVE DecalTrace
  <2>1. dScreen \notin Hoverers /\ hover' = hover /\ PolicyApplied /\ SyncDecalPreview(DecalsAfterPolicy)
    BY <1>2 DEF RetargetPainting, Hoverers
  <2>2. \A t \in Hoverers : hover'[t].id = NoDecal
    BY <1>0, <2>1, NoneHovers
  <2>3. PICK c : c = DecalsAfterPolicy
    OBVIOUS
  <2>4. /\ DOMAIN c \subseteq DOMAIN decals /\ Settles(c, PendingIds \ PendingIds')
        /\ dUndo' = dUndo \/ dUndo' = <<>>
    BY <2>1, <2>3, PolicySettles
  <2>5. \A i \in DOMAIN dUndo' : \E j \in DOMAIN dUndo : dUndo'[i] = dUndo[j]
    BY <1>0, <2>4, FewerPlacements
  <2>6. SyncDecalPreview(c)
    BY <2>1, <2>3
  <2> QED
    BY <1>0, <2>2, <2>4, <2>5, <2>6, SyncTraces
<1>3. ASSUME NEW m \in OwnModes, StartDecalPainting(m) PROVE DecalTrace
  <2>1. hover' = [t \in Hoverers |-> NoHover] /\ dUndo' = dUndo /\ SyncDecalPreview(Unhovered(decals))
    BY <1>3 DEF StartDecalPainting
  <2>2. \A t \in Hoverers : hover'[t].id = NoDecal
    BY <2>1 DEF NoHover
  <2>3. PICK c : c = Unhovered(decals)
    OBVIOUS
  <2>4. DOMAIN c = DOMAIN decals /\ Settles(c, {})
    BY <1>0, <2>3, UnhoveredSettles
  <2>5. PendingIds \ PendingIds' = {} /\ \A i \in DOMAIN dUndo' : \E j \in DOMAIN dUndo : dUndo'[i] = dUndo[j]
    BY <1>0, <2>1, FewerPlacements
  <2>6. SyncDecalPreview(c)
    BY <2>1, <2>3
  <2> QED
    BY <1>0, <2>2, <2>4, <2>5, <2>6, SyncTraces
<1> QED
  BY <1>1, <1>2, <1>3

\* Ctrl+Z, Enter and Esc in the painter.
LEMMA PainterKeysTrace ==
  ASSUME DecalAssumption, DecalTraceInv, UndoDecalPlacement \/ Enter \/ EscInDecalPainter
  PROVE  DecalTrace
<1>0. DecalInv /\ dScreen \notin Hoverers /\ hover' = hover
  BY DEF DecalTraceInv, UndoDecalPlacement, Enter, EscInDecalPainter, Hoverers
<1>1. CASE Enter
  <2>1. decals' = DecalsCommitted(decals) /\ dUndo' = <<>>
    BY <1>1 DEF Enter
  <2>2. DOMAIN decals' = DOMAIN decals /\ Settles(decals', PendingIds)
    BY <1>0, <2>1, CommittedSettles
  <2>3. PendingIds' = {} /\ \A i \in DOMAIN dUndo' : \E j \in DOMAIN dUndo : dUndo'[i] = dUndo[j]
    BY <1>0, <2>1, FewerPlacements
  <2>4. \A t \in Hoverers : hover'[t].id = NoDecal
    BY <1>0, NoneHovers
  <2>5. \A x \in DOMAIN decals \cap DOMAIN decals' : Traceless(x)
    BY <1>0, <2>2, <2>3, <2>4, RestOfFree
  <2> QED
    BY <2>2, <2>3, <2>5, NothingPlaced DEF DecalTrace
<1>2. CASE EscInDecalPainter
  <2>1. decals' = WithoutDecals(decals, PendingIds) /\ dUndo' = <<>>
    BY <1>2 DEF EscInDecalPainter, DecalsCancelled
  <2>2. DOMAIN decals' = DOMAIN decals \ PendingIds /\ \A x \in DOMAIN decals' : decals'[x] = decals[x]
    BY <2>1 DEF WithoutDecals, Restrict
  <2>3. \A i \in DOMAIN dUndo' : \E j \in DOMAIN dUndo : dUndo'[i] = dUndo[j]
    BY <1>0, <2>1, FewerPlacements
  <2>4. \A x \in DOMAIN decals \cap DOMAIN decals' : Traceless(x)
    BY <1>0, <2>2, RestOfSame
  <2> QED
    BY <2>2, <2>3, <2>4, NothingPlaced DEF DecalTrace
<1>3. CASE UndoDecalPlacement
  <2>1. PICK last : last = dUndo[Len(dUndo)].id
    OBVIOUS
  <2>2. /\ decals' = WithoutDecals(decals, {last}) /\ dUndo # <<>>
        /\ dUndo' = SubSeq(dUndo, 1, Len(dUndo) - 1)
    BY <1>3, <2>1 DEF UndoDecalPlacement
  <2>3. DOMAIN decals' = DOMAIN decals \ {last} /\ \A x \in DOMAIN decals' : decals'[x] = decals[x]
    BY <2>2 DEF WithoutDecals, Restrict
  <2>4. StackOK(dUndo) /\ dUndo \in Seq(Placement)
    BY <1>0 DEF DecalInv, StackOK
  <2>5. DOMAIN dUndo = 1 .. Len(dUndo) /\ Len(dUndo) \in Nat \ {0}
    BY <2>2, <2>4, LenProperties, EmptySeq
  <2>6. /\ Len(dUndo') = Len(dUndo) - 1 /\ dUndo' \in Seq(Placement)
        /\ \A i \in 1 .. Len(dUndo) - 1 : dUndo'[i] = dUndo[i]
    <3> DEFINE n == Len(dUndo) - 1
    <3>1. n \in Nat /\ \A i \in 1 .. n : dUndo[i] \in Placement
      BY <2>4, <2>5, ElementOfSeq
    <3>2. dUndo' = SubSeq(dUndo, 1, n)
      BY <2>2
    <3> HIDE DEF n
    <3>3. /\ dUndo' \in Seq(Placement)
          /\ Len(dUndo') = IF 1 <= n THEN n - 1 + 1 ELSE 0
          /\ \A i \in 1 .. n - 1 + 1 : dUndo'[i] = dUndo[1 + i - 1]
      BY <3>1, <3>2, SubSeqProperties
    <3>4. Len(dUndo') = n /\ \A i \in 1 .. n : dUndo'[i] = dUndo[i]
      BY <3>1, <3>3
    <3> QED
      BY <3>3, <3>4 DEF n
  <2>7. DOMAIN dUndo' = 1 .. Len(dUndo) - 1
    BY <2>6, LenProperties
  <2>8. \A i \in DOMAIN dUndo' : i \in DOMAIN dUndo /\ dUndo'[i] = dUndo[i]
    BY <2>5, <2>6, <2>7
  <2>9. \A x \in PendingIds \ PendingIds' : x = last
    <3>1. \A i \in DOMAIN dUndo : i \in DOMAIN dUndo' \/ i = Len(dUndo)
      BY <2>5, <2>7
    <3> QED
      BY <2>1, <2>8, <3>1 DEF PendingIds
  <2>10. \A x \in DOMAIN decals \cap DOMAIN decals' : Traceless(x)
    BY <1>0, <2>3, <2>9, RestOfSame
  <2> QED
    BY <2>3, <2>8, <2>10, NothingPlaced DEF DecalTrace
<1> QED
  BY <1>1, <1>2, <1>3

\* The tool that is on screen leaves it, or the painter's placements go.
LEMMA DroppedSteps ==
  ASSUME DecalAssumption, DecalTraceInv,
         \/ StopDecalPainting \/ DecalToolLeavesScreen \/ DecalCityShutdown \/ DecalCityInit
         \/ \E t \in Tools : DecalTick(t)
         \/ \E t \in Hoverers \cup {"None"} : OtherToolStarts(t)
         \/ \E id \in Ids : DecalVanishes(id)
  PROVE  DecalTrace
<1>0. DecalInv
  BY DEF DecalTraceInv
<1>1. PICK left : left = WithoutDecals(decals, PendingIds)
  OBVIOUS
<1>2. /\ DOMAIN left = DOMAIN decals \ PendingIds /\ \A x \in DOMAIN left : left[x] = decals[x]
      /\ left = DecalsCancelled(decals)
  BY <1>1 DEF WithoutDecals, Restrict, DecalsCancelled
<1>3. ASSUME DecalToolDropped(decals), dUndo' = dUndo PROVE DecalTrace
  BY <1>0, <1>3, PlainDropTraces
<1>4. ASSUME DecalToolDropped(left), dUndo' = <<>> PROVE DecalTrace
  <2>1. DOMAIN left \subseteq DOMAIN decals /\ DOMAIN left \cap PendingIds = {}
    BY <1>2
  <2> QED
    BY <1>0, <1>2, <1>4, <2>1, PlainDropTraces
<1>5. ASSUME hover' = hover, decals' = decals, dUndo' = dUndo PROVE DecalTrace
  <2>1. PendingIds' = PendingIds /\ \A i \in DOMAIN dUndo' : \E j \in DOMAIN dUndo : dUndo'[i] = dUndo[j]
    BY <1>0, <1>5, FewerPlacements
  <2>2. \A x \in DOMAIN decals \cap DOMAIN decals' : Traceless(x)
    BY <1>5, <2>1, RestOfSame
  <2> QED
    BY <1>5, <2>1, <2>2, NothingPlaced DEF DecalTrace
<1>6. CASE StopDecalPainting
  <2>1. CASE dScreen = "Painter"
    BY <1>2, <1>4, <1>6, <2>1 DEF StopDecalPainting
  <2>2. CASE dScreen # "Painter"
    <3>1. decals' = left /\ hover' = hover /\ dUndo' = <<>>
      BY <1>2, <1>6, <2>2 DEF StopDecalPainting
    <3>2. \A i \in DOMAIN dUndo' : \E j \in DOMAIN dUndo : dUndo'[i] = dUndo[j]
      BY <1>0, <3>1, FewerPlacements
    <3>3. \A x \in DOMAIN decals \cap DOMAIN decals' : Traceless(x)
      BY <1>2, <3>1, RestOfSame
    <3> QED
      BY <1>2, <3>1, <3>2, <3>3, NothingPlaced DEF DecalTrace
  <2> QED
    BY <2>1, <2>2
<1>7. CASE DecalToolLeavesScreen
  BY <1>3, <1>7 DEF DecalToolLeavesScreen
<1>8. CASE DecalCityShutdown
  BY <1>2, <1>4, <1>8 DEF DecalCityShutdown
<1>9. CASE DecalCityInit
  BY <1>5, <1>9 DEF DecalCityInit, dPainter
<1>10. ASSUME NEW t \in Tools, DecalTick(t) PROVE DecalTrace
  BY <1>3, <1>5, <1>10 DEF DecalTick
<1>11. ASSUME NEW t \in Hoverers \cup {"None"}, OtherToolStarts(t) PROVE DecalTrace
  <2>1. CASE ~dPainting
    BY <1>3, <1>11, <2>1 DEF OtherToolStarts
  <2>2. CASE dPainting
    <3>1. PICK c : c = DecalsAfterPolicy
      OBVIOUS
    <3>2. PolicyApplied /\ DecalToolDropped(c) /\ dScreen \notin Hoverers
      BY <1>11, <2>2, <3>1 DEF OtherToolStarts, DecalTraceInv, HovererIsAlone
    <3>3. /\ DOMAIN c \subseteq DOMAIN decals /\ Settles(c, PendingIds \ PendingIds')
          /\ dUndo' = dUndo \/ dUndo' = <<>>
      BY <3>1, <3>2, PolicySettles
    <3>4. Unhovered(c) = c
      BY <1>0, <3>2, <3>3, UnhoveredSame
    <3> QED
      BY <1>0, <3>2, <3>3, <3>4, DropTraces
  <2> QED
    BY <2>1, <2>2
<1>12. ASSUME NEW id \in Ids, DecalVanishes(id) PROVE DecalTrace
  <2>1. decals' = WithoutDecals(decals, {id}) /\ hover' = hover /\ dUndo' = dUndo
    BY <1>12 DEF DecalVanishes, dPainter
  <2>2. DOMAIN decals' = DOMAIN decals \ {id} /\ \A x \in DOMAIN decals' : decals'[x] = decals[x]
    BY <2>1 DEF WithoutDecals, Restrict
  <2>3. PendingIds' = PendingIds /\ \A i \in DOMAIN dUndo' : \E j \in DOMAIN dUndo : dUndo'[i] = dUndo[j]
    BY <1>0, <2>1, FewerPlacements
  <2>4. \A x \in DOMAIN decals \cap DOMAIN decals' : Traceless(x)
    BY <2>1, <2>2, <2>3, RestOfSame
  <2> QED
    BY <2>2, <2>3, <2>4, NothingPlaced DEF DecalTrace
<1> QED
  BY <1>6, <1>7, <1>8, <1>9, <1>10, <1>11, <1>12

\* SetHoveredDecal_: the decal that is left gets its mode back, the one that is
\* hovered is remembered with its own.
LEMMA HoveringTraces ==
  ASSUME DecalAssumption, DecalInv, NEW t \in Hoverers, dScreen = t,
         NEW id \in DOMAIN decals \cup {NoDecal}, Hovering(t, id), dUndo' = dUndo
  PROVE  DecalTrace /\ DOMAIN decals' = DOMAIN decals
<1>1. PICK h : h = hover[t]
  OBVIOUS
<1>2. PendingIds' = PendingIds /\ \A i \in DOMAIN dUndo' : \E j \in DOMAIN dUndo : dUndo'[i] = dUndo[j]
  BY FewerPlacements
<1>3. CASE id = h.id
  <2>1. hover' = hover /\ decals' = decals
    BY <1>1, <1>3 DEF Hovering
  <2>2. \A x \in DOMAIN decals \cap DOMAIN decals' : Traceless(x)
    BY <1>2, <2>1, RestOfSame
  <2> QED
    BY <1>2, <2>1, <2>2, NothingPlaced DEF DecalTrace
<1>4. CASE id # h.id
  <2>1. PICK back : back = WithMode(decals, h.id, h.original)
    OBVIOUS
  <2>2. DOMAIN back = DOMAIN decals
        /\ \A x \in DOMAIN decals : back[x] = IF x = h.id THEN InMode(decals[x], h.original) ELSE decals[x]
    BY <2>1, WithModeIs
  <2>3. /\ hover' = [hover EXCEPT ![t] = [id |-> id, original |-> IF id \in DOMAIN back THEN back[id].mode ELSE 0]]
        /\ decals' = WithMode(back, id, Highlight)
    BY <1>1, <1>4, <2>1 DEF Hovering
  <2>4. DOMAIN decals' = DOMAIN back
        /\ \A x \in DOMAIN back : decals'[x] = IF x = id THEN InMode(back[x], Highlight) ELSE back[x]
    BY <2>3, WithModeIs
  <2>5. /\ \A u \in Hoverers : hover[u].id # NoDecal => u = t
        /\ \A x \in DOMAIN decals : x # NoDecal
        /\ DOMAIN hover = Hoverers
    BY OneHovers
  <2>6. /\ hover'[t].id = id
        /\ id \in DOMAIN decals => hover'[t].original = back[id].mode
        /\ \A u \in Hoverers \ {t} : hover'[u] = hover[u]
    BY <2>2, <2>3, <2>5
  <2>7. ASSUME NEW x \in DOMAIN decals PROVE decals'[x].own = decals[x].own /\ Rest(x)' = Rest(x)
    <3>0. \A d, m : InMode(d, m).mode = m /\ InMode(d, m).own = d.own
      BY DEF InMode
    <3>1. Rest(x) = RestIn(hover, decals, x) /\ Rest(x)' = RestIn(hover', decals', x)
      BY RestIs, RestThen
    <3>2. CASE x = id
      <4>1. \A u \in Hoverers : hover[u].id # x
        BY <1>1, <1>4, <2>5, <3>2
      <4>2. Rest(x) = decals[x].mode
        BY <3>1, <4>1, RestOfOthers
      <4>3. \A u \in Hoverers : hover'[u].id = x => u = t
        BY <2>6, <4>1
      <4>4. Rest(x)' = back[x].mode
        BY <2>6, <3>1, <3>2, <4>3, RestOfHovered
      <4>5. back[x] = decals[x] /\ decals'[x].own = back[x].own
        BY <1>4, <2>2, <2>4, <3>0, <3>2
      <4> QED
        BY <4>2, <4>4, <4>5
    <3>3. CASE x = h.id
      <4>1. \A u \in Hoverers : hover[u].id = x => u = t
        BY <2>5
      <4>2. Rest(x) = h.original
        BY <1>1, <3>1, <3>3, <4>1, RestOfHovered
      <4>3. \A u \in Hoverers : hover'[u].id # x
        BY <1>4, <2>5, <2>6, <3>3
      <4>4. Rest(x)' = decals'[x].mode
        BY <3>1, <4>3, RestOfOthers
      <4>5. decals'[x] = InMode(decals[x], h.original)
        BY <1>4, <2>2, <2>4, <3>3
      <4> QED
        BY <3>0, <4>2, <4>4, <4>5
    <3>4. CASE x # id /\ x # h.id
      <4>1. \A u \in Hoverers : hover[u].id # x /\ hover'[u].id # x
        BY <1>1, <2>5, <2>6, <3>4
      <4>2. Rest(x) = decals[x].mode /\ Rest(x)' = decals'[x].mode
        BY <3>1, <4>1, RestOfOthers
      <4>3. decals'[x] = decals[x]
        BY <2>2, <2>4, <3>4
      <4> QED
        BY <4>2, <4>3
    <3> QED
      BY <3>2, <3>3, <3>4
  <2>8. \A x \in DOMAIN decals : Traceless(x)
    BY <1>2, <2>7 DEF Traceless
  <2> QED
    BY <1>2, <2>2, <2>4, <2>8, NothingPlaced DEF DecalTrace
<1> QED
  BY <1>3, <1>4

\* The strippers' and the picker's input.
LEMMA HoveringSteps ==
  ASSUME DecalAssumption, DecalInv, NEW t \in Hoverers,
         EscInHoverer(t) \/ \E id \in DOMAIN decals \cup {NoDecal} : MoveHovering(t, id) \/ ToggleDecalMode(id)
  PROVE  DecalTrace /\ DOMAIN decals' = DOMAIN decals /\ dUndo' = dUndo /\ dDeleted' = dDeleted
<1>1. CASE EscInHoverer(t)
  <2>1. dScreen = t /\ Hovering(t, NoDecal) /\ dUndo' = dUndo /\ dDeleted' = dDeleted
    BY <1>1 DEF EscInHoverer, dPainter
  <2> QED
    BY <2>1, HoveringTraces
<1>2. ASSUME NEW id \in DOMAIN decals \cup {NoDecal}, MoveHovering(t, id)
      PROVE  DecalTrace /\ DOMAIN decals' = DOMAIN decals /\ dUndo' = dUndo /\ dDeleted' = dDeleted
  <2>1. dScreen = t /\ Hovering(t, id) /\ dUndo' = dUndo /\ dDeleted' = dDeleted
    BY <1>2 DEF MoveHovering, dPainter, dStripper
  <2> QED
    BY <2>1, HoveringTraces
<1>3. ASSUME NEW id \in DOMAIN decals \cup {NoDecal}, ToggleDecalMode(id)
      PROVE  DecalTrace /\ DOMAIN decals' = DOMAIN decals /\ dUndo' = dUndo /\ dDeleted' = dDeleted
  <2>1. PICK to \in DOMAIN decals \cup {NoDecal} : to = IF dBrush THEN id ELSE NoDecal
    OBVIOUS
  <2>2. dScreen = "Stripper" /\ "Stripper" \in Hoverers /\ Hovering("Stripper", to)
        /\ dUndo' = dUndo /\ dDeleted' = dDeleted
    BY <1>3, <2>1 DEF ToggleDecalMode, dPainter, Hoverers
  <2> QED
    BY <2>2, HoveringTraces
<1> QED
  BY <1>1, <1>2, <1>3

\* What a deletion leaves of the others.
LEMMA DeletionTraces ==
  ASSUME DecalAssumption, DecalInv, NEW gone, decals' = WithoutDecals(decals, gone), dUndo' = dUndo,
         \/ hover' = hover
         \/ /\ \A t \in Hoverers : hover'[t].id = NoDecal
            /\ \A t \in Hoverers : hover[t].id \notin DOMAIN decals \ gone
  PROVE  DecalTrace /\ DOMAIN decals' = DOMAIN decals \ gone
<1>1. DOMAIN decals' = DOMAIN decals \ gone /\ \A x \in DOMAIN decals' : decals'[x] = decals[x]
  BY DEF WithoutDecals, Restrict
<1>2. PendingIds' = PendingIds /\ \A i \in DOMAIN dUndo' : \E j \in DOMAIN dUndo : dUndo'[i] = dUndo[j]
  BY FewerPlacements
<1>3. \A x \in DOMAIN decals \cap DOMAIN decals' : Traceless(x)
  <2>1. CASE hover' = hover
    BY <1>1, <1>2, <2>1, RestOfSame
  <2>2. CASE (\A t \in Hoverers : hover'[t].id = NoDecal) /\ (\A t \in Hoverers : hover[t].id \notin DOMAIN decals \ gone)
    <3> SUFFICES ASSUME NEW x \in DOMAIN decals \cap DOMAIN decals' PROVE Traceless(x)
      OBVIOUS
    <3>1. \A t \in Hoverers : hover'[t].id # x /\ hover[t].id # x
      BY <1>1, <2>2, OneHovers
    <3>2. Rest(x) = decals[x].mode /\ Rest(x)' = decals'[x].mode
      BY <3>1, RestIs, RestThen, RestOfOthers
    <3> QED
      BY <1>1, <1>2, <3>2 DEF Traceless
  <2> QED
    BY <2>1, <2>2
<1> QED
  BY <1>1, <1>2, <1>3, NothingPlaced DEF DecalTrace

LEMMA StrippingTraces ==
  ASSUME DecalAssumption, DecalInv,
         \/ DecalSingleClick \/ DecalButtonUp \/ UndoDecalDeletion \/ DecalUndoFails
         \/ \E gone \in SUBSET DOMAIN decals : BrushStroke(gone)
  PROVE  DecalTrace /\ dUndo' = dUndo
<1>0. dUndo' = dUndo
  BY DEF DecalSingleClick, DecalButtonUp, UndoDecalDeletion, DecalUndoFails, BrushStroke, dPainter
<1>1. CASE DecalSingleClick
  <2>1. PICK gone : gone = {hover["Stripper"].id} \cap DOMAIN decals
    OBVIOUS
  <2>2. /\ decals' = WithoutDecals(decals, gone) /\ dScreen = "Stripper"
        /\ hover' = [hover EXCEPT !["Stripper"] = NoHover]
    BY <1>1, <2>1 DEF DecalSingleClick, DeleteDecals
  <2>3. /\ \A t \in Hoverers : hover[t].id # NoDecal => t = "Stripper"
        /\ NoDecal \notin DOMAIN decals /\ DOMAIN hover = Hoverers
    BY <2>2, OneHovers
  <2>4. \A t \in Hoverers : hover'[t].id = NoDecal
    BY <2>2, <2>3 DEF NoHover
  <2>5. \A t \in Hoverers : hover[t].id \notin DOMAIN decals \ gone
    BY <2>1, <2>3
  <2> QED
    BY <1>0, <2>2, <2>4, <2>5, DeletionTraces
<1>2. PendingIds' = PendingIds /\ \A i \in DOMAIN dUndo' : \E j \in DOMAIN dUndo : dUndo'[i] = dUndo[j]
  BY <1>0, FewerPlacements
<1>3. ASSUME NEW gone \in SUBSET DOMAIN decals, BrushStroke(gone) PROVE DecalTrace
  <2>1. decals' = WithoutDecals(decals, gone) /\ hover' = hover
    BY <1>3 DEF BrushStroke, DeleteDecals
  <2>2. DOMAIN decals' = DOMAIN decals \ gone /\ \A x \in DOMAIN decals' : decals'[x] = decals[x]
    BY <2>1 DEF WithoutDecals, Restrict
  <2>3. \A x \in DOMAIN decals \cap DOMAIN decals' : Traceless(x)
    BY <2>1, <2>2, <1>2, RestOfSame
  <2> QED
    BY <1>2, <2>2, <2>3, NothingPlaced DEF DecalTrace
<1>4. CASE UndoDecalDeletion
  <2>1. PICK new \in FreshIds : decals' = WithDecal(decals, new, dDeleted[Len(dDeleted)])
    BY <1>4 DEF UndoDecalDeletion
  <2>2. hover' = hover
    BY <1>4 DEF UndoDecalDeletion
  <2>3. /\ DOMAIN decals' = DOMAIN decals \cup {new} /\ new \notin DOMAIN decals
        /\ \A x \in DOMAIN decals : decals'[x] = decals[x]
    BY <2>1 DEF WithDecal, FreshIds
  <2>4. \A x \in DOMAIN decals \cap DOMAIN decals' : Traceless(x)
    BY <1>0, <1>2, <2>2, <2>3, RestOfSame
  <2>5. \A x \in DOMAIN decals' \ DOMAIN decals : x \in FreshIds
    BY <2>1, <2>3
  <2> QED
    BY <1>0, <1>2, <2>4, <2>5, NothingPlaced DEF DecalTrace
<1>5. CASE DecalButtonUp \/ DecalUndoFails
  <2>1. hover' = hover /\ decals' = decals
    BY <1>5 DEF DecalButtonUp, DecalUndoFails
  <2>2. \A x \in DOMAIN decals \cap DOMAIN decals' : Traceless(x)
    BY <1>0, <1>2, <2>1, RestOfSame
  <2> QED
    BY <1>0, <1>2, <2>1, <2>2, NothingPlaced DEF DecalTrace
<1> QED
  BY <1>0, <1>1, <1>3, <1>4, <1>5

-----------------------------------------------------------------------------
(* The invariant, and the property.                                        *)

LEMMA DecalTraces ==
  ASSUME DecalAssumption, DecalTraceInv, DecalNext
  PROVE  DecalTrace
<1>0. DecalInv
  BY DEF DecalTraceInv
<1>1. CASE DecalPainter
  BY <1>1, PlaceTraces, SyncedSteps, PainterKeysTrace, DroppedSteps DEF DecalPainter
<1>2. CASE DecalHovering
  <2>1. ASSUME NEW t \in Hoverers, EscInHoverer(t) PROVE DecalTrace
    BY <1>0, <2>1, HoveringSteps
  <2>2. ASSUME NEW t \in Hoverers, NEW id \in DOMAIN decals \cup {NoDecal}, MoveHovering(t, id) PROVE DecalTrace
    BY <1>0, <2>2, HoveringSteps
  <2>3. ASSUME NEW id \in DOMAIN decals \cup {NoDecal}, ToggleDecalMode(id) PROVE DecalTrace
    <3>1. "Stripper" \in Hoverers
      BY DEF Hoverers
    <3> QED
      BY <1>0, <2>3, <3>1, HoveringSteps
  <2>4. CASE \/ DecalSingleClick \/ DecalButtonUp \/ UndoDecalDeletion \/ DecalUndoFails
             \/ \E gone \in SUBSET DOMAIN decals : BrushStroke(gone)
    BY <1>0, <2>4, StrippingTraces
  <2> QED
    BY <1>2, <2>1, <2>2, <2>3, <2>4 DEF DecalHovering
<1>3. CASE DecalDirector \/ \E id \in Ids : DecalVanishes(id)
  BY <1>3, DroppedSteps DEF DecalDirector
<1> QED
  BY <1>1, <1>2, <1>3 DEF DecalNext

LEMMA RemembersKeeps ==
  ASSUME DecalTraceInv, DecalTrace
  PROVE  Remembers(dUndo', decals')
<1> SUFFICES ASSUME NEW i \in DOMAIN dUndo', dUndo'[i].id \in DOMAIN decals'
             PROVE  dUndo'[i].committed = decals'[dUndo'[i].id].own
  BY DEF Remembers
<1>1. CASE \E j \in DOMAIN dUndo : dUndo'[i] = dUndo[j]
  <2>1. PICK j \in DOMAIN dUndo : dUndo'[i] = dUndo[j]
    BY <1>1
  <2>2. dUndo[j].id \in PendingIds
    BY DEF PendingIds
  <2>3. dUndo[j].id \in DOMAIN decals
    BY <2>1, <2>2 DEF DecalTrace, Recalls
  <2>4. dUndo[j].committed = decals[dUndo[j].id].own
    BY <2>3 DEF DecalTraceInv, Remembers
  <2>5. decals'[dUndo[j].id].own = decals[dUndo[j].id].own
    BY <2>1, <2>3 DEF DecalTrace, Traceless
  <2> QED
    BY <2>1, <2>4, <2>5
<1>2. CASE dUndo'[i].committed = decals'[dUndo'[i].id].own
  BY <1>2
<1> QED
  BY <1>1, <1>2 DEF DecalTrace, Recalls

LEMMA HovererStaysAlone ==
  ASSUME DecalTraceInv, [DecalNext]_dVars
  PROVE  HovererIsAlone'
<1> USE DEF HovererIsAlone, DecalTraceInv
<1>1. CASE UNCHANGED <<dScreen, dPainting>>
  BY <1>1
<1>2. ASSUME NEW m \in OwnModes, RetargetPainting(m) \/ StartDecalPainting(m) PROVE HovererIsAlone'
  BY <1>2 DEF RetargetPainting, StartDecalPainting, dDirector, Hoverers
<1>3. ASSUME NEW t \in Hoverers \cup {"None"}, OtherToolStarts(t) PROVE HovererIsAlone'
  BY <1>3 DEF OtherToolStarts
<1>4. ASSUME NEW t \in Tools, DecalTick(t) PROVE HovererIsAlone'
  BY <1>4 DEF DecalTick, Hoverers
<1>5. CASE StopDecalPainting \/ DecalToolLeavesScreen \/ DecalCityShutdown
  BY <1>5 DEF StopDecalPainting, DecalToolLeavesScreen, DecalCityShutdown, Hoverers
<1>6. CASE DecalPainter
  <2>1. CASE Place \/ MoveOrAdjust \/ CycleDecalPreview \/ UndoDecalPlacement \/ Enter \/ EscInDecalPainter
    BY <1>1, <2>1 DEF Place, MoveOrAdjust, CycleDecalPreview, UndoDecalPlacement, Enter, EscInDecalPainter, dDirector
  <2> QED
    BY <1>2, <1>5, <1>6, <2>1 DEF DecalPainter
<1>7. CASE DecalHovering
  <2>1. UNCHANGED <<dScreen, dPainting>>
    BY <1>7 DEF DecalHovering, EscInHoverer, MoveHovering, ToggleDecalMode, DecalSingleClick, DecalButtonUp,
                BrushStroke, UndoDecalDeletion, DecalUndoFails, dDirector
  <2> QED
    BY <1>1, <2>1
<1>8. CASE DecalDirector
  <2>1. CASE DecalCityInit
    BY <1>1, <2>1 DEF DecalCityInit
  <2> QED
    BY <1>3, <1>4, <1>5, <1>8, <2>1 DEF DecalDirector
<1>9. CASE (\E id \in Ids : DecalVanishes(id)) \/ UNCHANGED dVars
  BY <1>1, <1>9 DEF DecalVanishes, dVars, dDirector
<1> QED
  BY <1>6, <1>7, <1>8, <1>9 DEF DecalNext

LEMMA DecalTraceAlways == ASSUME DecalAssumption PROVE DecalSpec => []DecalTraceInv
<1>1. DecalInit => DecalTraceInv
  <2> SUFFICES ASSUME DecalInit PROVE DecalTraceInv
    OBVIOUS
  <2>1. DecalInv
    BY DecalStart
  <2>2. DOMAIN dUndo = {} /\ dScreen = "None"
    BY DEF DecalInit
  <2> QED
    BY <2>1, <2>2 DEF DecalTraceInv, Remembers, HovererIsAlone, Hoverers
<1>2. DecalTraceInv /\ [DecalNext]_dVars => DecalTraceInv'
  <2> SUFFICES ASSUME DecalTraceInv, [DecalNext]_dVars PROVE DecalTraceInv'
    OBVIOUS
  <2>1. DecalInv'
    BY DecalStep DEF DecalTraceInv
  <2>2. HovererIsAlone'
    BY HovererStaysAlone
  <2>3. Remembers(dUndo', decals')
    <3>1. CASE DecalNext
      BY <3>1, DecalTraces, RemembersKeeps
    <3>2. CASE UNCHANGED dVars
      BY <3>2 DEF dVars, dPainter, DecalTraceInv
    <3> QED
      BY <3>1, <3>2
  <2> QED
    BY <2>1, <2>2, <2>3 DEF DecalTraceInv
<1> QED
  BY <1>1, <1>2, PTL DEF DecalSpec

\* Three tools borrow the draw mode of a decal, and each decal gets its own back.
THEOREM HoverTheorem == ASSUME DecalAssumption PROVE DecalSpec => HoverLeavesNoTrace
<1>1. DecalTraceInv /\ [DecalNext]_dVars =>
        [\A id \in DOMAIN decals \cap DOMAIN decals' :
           Rest(id)' = IF id \in PendingIds \ PendingIds' THEN decals'[id].own ELSE Rest(id)]_dVars
  <2> SUFFICES ASSUME DecalTraceInv, DecalNext
               PROVE  \A id \in DOMAIN decals \cap DOMAIN decals' :
                        Rest(id)' = IF id \in PendingIds \ PendingIds' THEN decals'[id].own ELSE Rest(id)
    OBVIOUS
  <2>1. DecalTrace
    BY DecalTraces
  <2> QED
    BY <2>1 DEF DecalTrace, Traceless
<1> QED
  BY <1>1, DecalTraceAlways, PTL DEF DecalSpec, HoverLeavesNoTrace

-----------------------------------------------------------------------------
(* No decal is lost.                                                       *)

\* The decal x, when the hovers have ended; the decals of state d in the city.
Settled(x) == InMode(decals[x], Rest(x))
Alive(d) == {x \in DOMAIN decals : Settled(x) = d}

LEMMA DecalTotalIs == ASSUME NEW d PROVE DecalTotal(d) = Cardinality(Alive(d)) + Cardinality(At(dDeleted, d))
  BY DEF DecalTotal, Alive, Settled, At

LEMMA DecalTotalThen ==
  ASSUME NEW d
  PROVE  /\ DecalTotal(d)' = Cardinality(Alive(d)') + Cardinality(At(dDeleted', d))
         /\ Alive(d)' = {x \in DOMAIN decals' : Settled(x)' = d}
  BY DEF DecalTotal, Alive, Settled, At

LEMMA AliveFinite ==
  ASSUME DecalAssumption, DecalInv, NEW d
  PROVE  IsFiniteSet(Alive(d)) /\ IsFiniteSet(DOMAIN decals) /\ Cardinality(Alive(d)) \in Nat
<1>1. DOMAIN decals \subseteq Ids /\ IsFiniteSet(Ids)
  BY DEF DecalInv, DecalsOK, DecalAssumption
<1>2. Alive(d) \subseteq DOMAIN decals
  BY DEF Alive
<1>3. IsFiniteSet(DOMAIN decals)
  BY <1>1, FS_Subset
<1>4. IsFiniteSet(Alive(d))
  BY <1>2, <1>3, FS_Subset
<1> QED
  BY <1>3, <1>4, FS_CardinalityType

LEMMA SettledKept ==
  ASSUME DecalTrace, dUndo' = dUndo, NEW x \in DOMAIN decals \cap DOMAIN decals'
  PROVE  Settled(x)' = Settled(x)
<1>1. PendingIds' = PendingIds
  BY DEF PendingIds
<1>2. decals'[x].own = decals[x].own /\ Rest(x)' = Rest(x)
  BY <1>1 DEF DecalTrace, Traceless
<1>3. Settled(x) = [mode |-> Rest(x), own |-> decals[x].own]
  BY DEF Settled, InMode
<1>4. Settled(x)' = [mode |-> Rest(x)', own |-> decals'[x].own]
  BY DEF Settled, InMode
<1> QED
  BY <1>2, <1>3, <1>4

LEMMA SameTotal ==
  ASSUME DecalTrace, dUndo' = dUndo, dDeleted' = dDeleted, DOMAIN decals' = DOMAIN decals, NEW d
  PROVE  DecalTotal(d)' = DecalTotal(d)
<1>1. \A x \in DOMAIN decals : Settled(x)' = Settled(x)
  BY SettledKept
<1>2. Alive(d)' = Alive(d)
  BY <1>1, DecalTotalThen DEF Alive
<1> QED
  BY <1>2, DecalTotalIs, DecalTotalThen

\* A deletion is recorded without the hover.
LEMMA ErasedIsSettled ==
  ASSUME DecalAssumption, DecalInv, dScreen = "Stripper",
         NEW gone \in SUBSET DOMAIN decals, NEW x \in gone
  PROVE  Erased(gone)[x] = Settled(x)
<1>0. "Stripper" \in Hoverers
  BY DEF Hoverers
<1>1. /\ \A t \in Hoverers : hover[t].id # NoDecal => t = "Stripper"
      /\ x # NoDecal
  BY OneHovers
<1>2. CASE x = hover["Stripper"].id
  <2>0. \A t \in Hoverers : hover[t].id = x => t = "Stripper"
    BY <1>1
  <2>1. Rest(x) = RestIn(hover, decals, x)
    BY RestIs
  <2>2. hover["Stripper"].id = x
    BY <1>2
  <2>3. RestIn(hover, decals, x) = hover["Stripper"].original
    BY <1>0, <2>0, <2>2, RestOfHovered
  <2> QED
    BY <1>2, <2>1, <2>3 DEF Erased, Settled
<1>3. CASE x # hover["Stripper"].id
  <2>1. \A t \in Hoverers : hover[t].id # x
    BY <1>1, <1>3
  <2>2. Rest(x) = decals[x].mode
    BY <2>1, RestIs, RestOfOthers
  <2>3. decals[x] \in Decal
    BY DEF DecalInv, DecalsOK
  <2>4. InMode(decals[x], decals[x].mode) = decals[x]
    BY <2>3 DEF InMode, Decal
  <2> QED
    BY <1>3, <2>2, <2>4 DEF Erased, Settled
<1> QED
  BY <1>2, <1>3

LEMMA DeletedTotal ==
  ASSUME DecalAssumption, DecalInv, DecalTrace, dUndo' = dUndo, dScreen = "Stripper",
         NEW gone \in SUBSET DOMAIN decals, DeleteDecals(gone), NEW d
  PROVE  DecalTotal(d)' = DecalTotal(d)
<1>1. DOMAIN decals' = DOMAIN decals \ gone
  BY DEF DeleteDecals, WithoutDecals, Restrict
<1>2. PICK val : val = Erased(gone)
  OBVIOUS
<1>3. PICK n : n = Cardinality(gone)
  OBVIOUS
<1>4. PICK order \in [1 .. n -> gone] :
        /\ \A id \in gone : \E i \in 1 .. n : order[i] = id
        /\ dDeleted' = dDeleted \o [i \in 1 .. n |-> val[order[i]]]
  BY <1>2, <1>3 DEF DeleteDecals
<1>5. IsFiniteSet(gone)
  BY AliveFinite, FS_Subset
<1>6. IsFiniteSet(1 .. n) /\ n \in Nat /\ Lists(order, n, gone)
  BY <1>3, <1>4, <1>5, OncePlaced
<1>7. PICK w : w = [i \in 1 .. n |-> val[order[i]]]
  OBVIOUS
<1>8. dDeleted \in Seq(Decal)
  BY DEF DecalInv, DecalRest
<1>9. w \in Seq(Decal)
  <2>1. \A id \in gone : val[id] \in Decal
    <3> SUFFICES ASSUME NEW id \in gone PROVE val[id] \in Decal
      OBVIOUS
    <3>1. decals[id] \in Decal /\ hover["Stripper"].original \in Nat
      BY OneHovers DEF DecalInv, DecalsOK, Hoverers
    <3> QED
      BY <1>2, <3>1 DEF Erased, InMode, Decal
  <2>2. \A i \in 1 .. n : w[i] \in Decal
    BY <1>4, <1>7, <2>1
  <2> QED
    BY <1>6, <1>7, <2>2, SeqDef
<1>10. Cardinality(At(dDeleted', d)) = Cardinality(At(dDeleted, d)) + Cardinality(At(w, d))
  <2>1. dDeleted' = dDeleted \o w
    BY <1>4, <1>7
  <2>2. Cardinality(At(dDeleted \o w, d)) = Cardinality(At(dDeleted, d)) + Cardinality(At(w, d))
    BY <1>8, <1>9, AppendedCounts
  <2> QED
    BY <2>1, <2>2
<1>11. Cardinality(Valued(gone, val, d)) = Cardinality(At(w, d))
  BY <1>6, <1>7, OrderedCounts
<1>12. Valued(gone, val, d) = Alive(d) \cap gone
  BY <1>2, ErasedIsSettled DEF Alive, Valued
<1>13. Alive(d)' = Alive(d) \ (Alive(d) \cap gone)
  <2>1. \A x \in DOMAIN decals' : x \in DOMAIN decals /\ Settled(x)' = Settled(x)
    BY <1>1, SettledKept
  <2> QED
    BY <1>1, <2>1, DecalTotalThen DEF Alive
<1>14. /\ Cardinality(Alive(d)) \in Nat /\ Cardinality(Alive(d) \cap gone) \in Nat
       /\ Cardinality(Alive(d)') = Cardinality(Alive(d)) - Cardinality(Alive(d) \cap gone)
  <2>1. PICK S : S = Alive(d)
    OBVIOUS
  <2>2. IsFiniteSet(S) /\ S \cap gone \in SUBSET S
    BY <2>1, AliveFinite
  <2>3. /\ Cardinality(S) \in Nat /\ Cardinality(S \cap gone) \in Nat
        /\ Cardinality(S \ (S \cap gone)) = Cardinality(S) - Cardinality(S \cap gone)
    BY <2>2, Parted
  <2> QED
    BY <1>13, <2>1, <2>3
<1>15. Cardinality(At(dDeleted, d)) \in Nat
  BY <1>8, AtFinite
<1>16. /\ DecalTotal(d) = Cardinality(Alive(d)) + Cardinality(At(dDeleted, d))
       /\ DecalTotal(d)' = Cardinality(Alive(d)') + Cardinality(At(dDeleted', d))
  BY DecalTotalIs, DecalTotalThen
<1>17. Cardinality(Alive(d) \cap gone) = Cardinality(At(w, d))
  BY <1>11, <1>12
<1> QED
  BY <1>10, <1>14, <1>15, <1>16, <1>17

LEMMA RestoredTotal ==
  ASSUME DecalAssumption, DecalInv, DecalTrace, dUndo' = dUndo, UndoDecalDeletion, NEW d
  PROVE  DecalTotal(d)' = DecalTotal(d)
<1>1. PICK last : last = dDeleted[Len(dDeleted)]
  OBVIOUS
<1>2. PICK new \in FreshIds : decals' = WithDecal(decals, new, last)
  BY <1>1 DEF UndoDecalDeletion
<1>3. /\ hover' = hover /\ dDeleted # <<>> /\ dDeleted' = SubSeq(dDeleted, 1, Len(dDeleted) - 1)
      /\ dDeleted \in Seq(Decal)
  BY DEF UndoDecalDeletion, DecalInv, DecalRest
<1>4. /\ DOMAIN decals' = DOMAIN decals \cup {new} /\ new \notin DOMAIN decals
      /\ decals'[new] = last
  BY <1>2 DEF WithDecal, FreshIds
<1>5. /\ last \in Decal /\ Cardinality(At(dDeleted', d)) \in Nat
      /\ Cardinality(At(dDeleted, d)) = Cardinality(At(dDeleted', d)) + IF last = d THEN 1 ELSE 0
  BY <1>1, <1>3, PoppedCounts
<1>6. Settled(new)' = last
  <2>1. \A t \in Hoverers : hover'[t].id # new
    BY <1>3 DEF FreshIds, HoveredIds
  <2>2. Rest(new)' = last.mode
    BY <1>4, <2>1, RestThen, RestOfOthers
  <2>3. Settled(new)' = InMode(decals'[new], Rest(new)')
    BY DEF Settled, InMode
  <2>4. InMode(last, last.mode) = last
    BY <1>5 DEF InMode, Decal
  <2> QED
    BY <1>4, <2>2, <2>3, <2>4
<1>7. \A x \in DOMAIN decals : Settled(x)' = Settled(x)
  BY <1>4, SettledKept
<1>8. PICK S : S = Alive(d)
  OBVIOUS
<1>9. Alive(d)' = IF last = d THEN S \cup {new} ELSE S
  BY <1>4, <1>6, <1>7, <1>8, DecalTotalThen DEF Alive
<1>10. IsFiniteSet(S) /\ Cardinality(S) \in Nat /\ new \notin S
  BY <1>4, <1>8, AliveFinite DEF Alive
<1>11. Cardinality(Alive(d)') = Cardinality(S) + IF last = d THEN 1 ELSE 0
  BY <1>9, <1>10, FS_AddElement
<1>12. /\ DecalTotal(d) = Cardinality(S) + Cardinality(At(dDeleted, d))
       /\ DecalTotal(d)' = Cardinality(Alive(d)') + Cardinality(At(dDeleted', d))
  BY <1>8, DecalTotalIs, DecalTotalThen
<1> QED
  BY <1>5, <1>10, <1>11, <1>12

\* Stripping and undoing neither lose nor duplicate a decal.
THEOREM NoDecalLostTheorem == ASSUME DecalAssumption PROVE DecalSpec => NoDecalLost
<1>1. DecalTraceInv /\ [DecalNext]_dVars =>
        [(\A d \in [mode : OwnModes \cup {Highlight}, own : OwnModes] : DecalTotal(d)' = DecalTotal(d))
           \/ DecalUndoFails \/ ~DecalHovering]_dVars
  <2> SUFFICES ASSUME DecalTraceInv, DecalHovering, ~DecalUndoFails, NEW d
               PROVE  DecalTotal(d)' = DecalTotal(d)
    OBVIOUS
  <2>0. DecalInv /\ DecalTrace
    BY DecalTraces DEF DecalTraceInv, DecalNext
  <2>1. ASSUME NEW t \in Hoverers,
               EscInHoverer(t) \/ \E id \in DOMAIN decals \cup {NoDecal} : MoveHovering(t, id) \/ ToggleDecalMode(id)
        PROVE  DecalTotal(d)' = DecalTotal(d)
    <3>1. DOMAIN decals' = DOMAIN decals /\ dUndo' = dUndo /\ dDeleted' = dDeleted
      BY <2>0, <2>1, HoveringSteps
    <3> QED
      BY <2>0, <3>1, SameTotal
  <2>2. CASE DecalSingleClick
    <3>1. PICK gone : gone = {hover["Stripper"].id} \cap DOMAIN decals
      OBVIOUS
    <3>2. dScreen = "Stripper" /\ DeleteDecals(gone) /\ dUndo' = dUndo
      BY <2>2, <3>1 DEF DecalSingleClick, dPainter
    <3>3. gone \in SUBSET DOMAIN decals
      BY <3>1
    <3> QED
      BY <2>0, <3>2, <3>3, DeletedTotal
  <2>3. ASSUME NEW gone \in SUBSET DOMAIN decals, BrushStroke(gone)
        PROVE  DecalTotal(d)' = DecalTotal(d)
    <3>1. dScreen = "Stripper" /\ DeleteDecals(gone) /\ dUndo' = dUndo
      BY <2>3 DEF BrushStroke, dPainter
    <3> QED
      BY <2>0, <3>1, DeletedTotal
  <2>4. CASE UndoDecalDeletion
    <3>1. dUndo' = dUndo
      BY <2>4 DEF UndoDecalDeletion, dPainter
    <3> QED
      BY <2>0, <2>4, <3>1, RestoredTotal
  <2>5. CASE DecalButtonUp
    <3>1. decals' = decals /\ dUndo' = dUndo /\ dDeleted' = dDeleted
      BY <2>5 DEF DecalButtonUp, dPainter
    <3> QED
      BY <2>0, <3>1, SameTotal
  <2> QED
    BY <2>1, <2>2, <2>3, <2>4, <2>5 DEF DecalHovering, Hoverers
<1> QED
  BY <1>1, DecalTraceAlways, PTL DEF DecalSpec, NoDecalLost

-----------------------------------------------------------------------------
(* Flora: the invariant, in parts that the lemmas speak of.                *)

FloraOK(c) == DOMAIN c \subseteq FloraOcc /\ \A o \in DOMAIN c : c[o] \in Plants

OccsOf(us) == UNION {Range(us[i]) : i \in DOMAIN us}
GroupsOK(us) == us \in Seq(Seq(FloraOcc)) /\ Len(us) <= MaxFloraGroups

\* The plants of P that are in c stand on spots of their own.
Alone(c, P) == \A o, q \in P \cap DOMAIN c : o # q => c[o].at # c[q].at

\* The preview is a plant of the city c, none of P, while the painter shows it.
FloraPreviewOK ==
  /\ fPreview \in [occ : FloraOcc \cup {NoPlant}, visible : BOOLEAN]
  /\ fPreview.visible => fPreview.occ # NoPlant
  /\ fPreview.occ # NoPlant =>
       fPreview.occ \in DOMAIN flora \ OccsOf(fUndo) /\ Paints /\ ShowsModel

FloraScreenOK ==
  /\ fState \in {"Off", "Direct", "Sketch"} /\ fScreen \in {"None", "Painter", "Stripper"}
  /\ {model, fBrush, fLeft, fLoaded} \subseteq BOOLEAN
  /\ {fCursor, aim} \subseteq Spots \cup {NoSpot} /\ kind \in Kinds \cup {NoKind}
  /\ fDeleted \in Seq(Plants)
  /\ fScreen # "None" => fLoaded
  /\ Paints => kind \in Kinds
  /\ ~fLoaded => OccsOf(fUndo) = {}

FloraHoverOK ==
  /\ fHovered \in FloraOcc \cup {NoPlant} /\ fLit \subseteq FloraOcc
  /\ fHovered # NoPlant =>
       Strips /\ ~fBrush /\ (fHovered \in DOMAIN flora => fHovered \in InBox(aim) \cap fLit)
  /\ fLeft => Strips /\ fBrush
  /\ fLit \subseteq OccsOf(fUndo) \cup {fHovered}

FloraInv ==
  /\ FloraOK(flora) /\ GroupsOK(fUndo) /\ Alone(flora, OccsOf(fUndo))
  /\ FloraPreviewOK /\ FloraScreenOK /\ FloraHoverOK

\* What PreviewTellsClick says of a step that is not the simulator's.
StillTells == Tells \/ fCursor' \in Spots \ {fCursor} => Tells'


-----------------------------------------------------------------------------
(* What the helpers of the flora tools return.                             *)

\* Some plants leave.
LEMMA WithoutFloraIs ==
  ASSUME NEW c, NEW gone
  PROVE  /\ DOMAIN WithoutFlora(c, gone) = DOMAIN c \ gone
         /\ \A o \in DOMAIN c \ gone : WithoutFlora(c, gone)[o] = c[o]
         /\ FloraOK(c) => FloraOK(WithoutFlora(c, gone))
BY DEF WithoutFlora, Restrict, FloraOK

\* The others stand as they did.
LEMMA StillAlone ==
  ASSUME NEW c, NEW gone, NEW P, Alone(c, P)
  PROVE  Alone(WithoutFlora(c, gone), P)
BY DEF WithoutFlora, Restrict, Alone

\* A plant joins.
LEMMA WithPlantIs ==
  ASSUME NEW c, NEW o, o \notin DOMAIN c, NEW p
  PROVE  /\ DOMAIN WithPlant(c, o, p) = DOMAIN c \cup {o}
         /\ \A q \in DOMAIN c : WithPlant(c, o, p)[q] = c[q]
         /\ WithPlant(c, o, p)[o] = p
         /\ FloraOK(c) /\ o \in FloraOcc /\ p \in Plants => FloraOK(WithPlant(c, o, p))
BY DEF WithPlant, FloraOK

\* It is none of P, or it stands where no other does.
LEMMA JoinsAlone ==
  ASSUME NEW c, NEW o, o \notin DOMAIN c, NEW p, NEW P, Alone(c, P)
  PROVE  /\ o \notin P => Alone(WithPlant(c, o, p), P)
         /\ (\A q \in DOMAIN c : c[q].at # p.at) => Alone(WithPlant(c, o, p), P \cup {o})
BY DEF WithPlant, Alone

\* Whom the simulator lets stand somewhere is a plant.
LEMMA PlantOK ==
  ASSUME FloraAssumption, NEW k \in Kinds, NEW s, NEW c, IsPlacementValid(k, s, c), NEW t \in Turns
  PROVE  Plant(k, s, t) \in Plants /\ Plant(k, s, t).kind = k /\ Plant(k, s, t).at = s
BY DEF FloraAssumption, IsPlacementValid, Plant, Plants

\* Fewer are alone when more are.
LEMMA FewerAlone ==
  ASSUME NEW c, NEW P, NEW Q, Q \subseteq P, Alone(c, P)
  PROVE  Alone(c, Q)
BY DEF Alone

LEMMA OccsOfIs ==
  ASSUME NEW us, GroupsOK(us)
  PROVE  /\ OccsOf(us) \subseteq FloraOcc
         /\ \A i \in 1 .. Len(us) : Range(us[i]) \subseteq OccsOf(us)
<1>1. DOMAIN us = 1 .. Len(us) /\ \A i \in 1 .. Len(us) : us[i] \in Seq(FloraOcc)
  BY LenProperties, ElementOfSeq DEF GroupsOK
<1>2. \A i \in 1 .. Len(us) : Range(us[i]) \subseteq FloraOcc
  <2> SUFFICES ASSUME NEW i \in 1 .. Len(us), NEW k \in DOMAIN us[i]
               PROVE  us[i][k] \in FloraOcc
    BY DEF Range
  <2> QED
    BY <1>1, LenProperties, ElementOfSeq
<1> QED
  BY <1>1, <1>2 DEF OccsOf

\* Nothing is pending on an empty stack.
LEMMA NoGroups == ASSUME FloraAssumption PROVE GroupsOK(<<>>) /\ OccsOf(<<>>) = {}
<1>1. <<>> \in Seq(Seq(FloraOcc)) /\ Len(<<>>) = 0 /\ DOMAIN <<>> = {}
  BY EmptySeq
<1> QED
  BY <1>1 DEF GroupsOK, OccsOf, FloraAssumption

\* TrimUndoStack_ forgets the groups that it cuts off, and no other.
LEMMA TrimmedOK ==
  ASSUME FloraAssumption, NEW us \in Seq(Seq(FloraOcc)), Len(us) <= MaxFloraGroups + 1
  PROVE  /\ GroupsOK(Trimmed(us)) /\ OccsOf(Trimmed(us)) \subseteq OccsOf(us)
         /\ OccsOf(us) \ Forgotten(us) \subseteq OccsOf(Trimmed(us))
<1> DEFINE e == Excess(us)
           n == Len(us)
<1>1. n \in Nat /\ DOMAIN us = 1 .. n /\ MaxFloraGroups \in Nat
  BY LenProperties DEF FloraAssumption
<1>2. e \in {0, 1} /\ (e = 1 => n > 0) /\ n - e <= MaxFloraGroups
  BY <1>1 DEF Excess, FloraAssumption
<1> HIDE DEF e
<1>3. /\ Trimmed(us) \in Seq(Seq(FloraOcc)) /\ Len(Trimmed(us)) = n - e
      /\ \A i \in 1 .. n - e : Trimmed(us)[i] = us[i + e]
  <2>1. Trimmed(us) = SubSeq(us, 1 + e, n)
    BY DEF Trimmed, e
  <2>2. \A i \in 1 + e .. n : us[i] \in Seq(FloraOcc)
    BY <1>1, <1>2, ElementOfSeq
  <2>3. /\ 1 + e \in Int /\ n \in Int /\ n - (1 + e) + 1 = n - e
        /\ ~(1 + e <= n) => n - e = 0
    <3> HIDE DEF n
    <3>1. CASE e = 0
      BY <1>1, <3>1
    <3>2. CASE e = 1
      BY <1>1, <1>2, <3>2
    <3> QED
      BY <1>2, <3>1, <3>2
  <2>4. /\ SubSeq(us, 1 + e, n) \in Seq(Seq(FloraOcc)) /\ Len(SubSeq(us, 1 + e, n)) = n - e
        /\ \A i \in 1 .. n - e : SubSeq(us, 1 + e, n)[i] = us[1 + e + i - 1]
    <3> HIDE DEF n
    <3> QED
      BY <2>2, <2>3, SubSeqProperties
  <2>5. \A i \in 1 .. n - e : 1 + e + i - 1 = i + e
    BY <1>1, <1>2
  <2> QED
    BY <2>1, <2>4, <2>5
<1>4. DOMAIN Trimmed(us) = 1 .. n - e
  BY <1>3, LenProperties
<1>5. \A i \in 1 .. n - e : i + e \in 1 .. n
  BY <1>1, <1>2
<1>6. \A i \in 1 .. n : i \in 1 .. e \/ i - e \in 1 .. n - e
  BY <1>1, <1>2
<1>7. OccsOf(us) \ Forgotten(us) \subseteq OccsOf(Trimmed(us))
  <2> SUFFICES ASSUME NEW i \in 1 .. n, NEW o \in Range(us[i]), o \notin Forgotten(us)
               PROVE  o \in OccsOf(Trimmed(us))
    BY <1>1 DEF OccsOf
  <2>1. CASE i \in 1 .. e
    <3>1. e = 1 /\ i = 1
      BY <1>2, <2>1
    <3> QED
      BY <3>1 DEF Forgotten, e
  <2>2. CASE i - e \in 1 .. n - e
    <3>1. Trimmed(us)[i - e] = us[i]
      BY <1>1, <1>2, <1>3, <2>2
    <3> QED
      BY <1>4, <2>2, <3>1 DEF OccsOf
  <2> QED
    BY <1>6, <2>1, <2>2
<1>8. OccsOf(Trimmed(us)) \subseteq OccsOf(us)
  BY <1>1, <1>3, <1>4, <1>5 DEF OccsOf
<1> QED
  BY <1>2, <1>3, <1>7, <1>8 DEF GroupsOK

\* AddOccupantToUndo_ for a group of occupants.
LEMMA FloraRecordedOK ==
  ASSUME FloraAssumption, GroupsOK(fUndo), NEW group \in Seq(FloraOcc), FloraRecorded(group),
         fLit \subseteq OccsOf(fUndo)
  PROVE  /\ GroupsOK(fUndo') /\ OccsOf(fUndo') \subseteq OccsOf(fUndo) \cup Range(group)
         /\ fLit' \subseteq OccsOf(fUndo')
<1> DEFINE us == IF group = <<>> THEN fUndo ELSE Append(fUndo, group)
<1>1. fUndo \in Seq(Seq(FloraOcc)) /\ Len(fUndo) \in Nat /\ DOMAIN fUndo = 1 .. Len(fUndo)
      /\ Len(fUndo) <= MaxFloraGroups /\ MaxFloraGroups \in Nat
  BY LenProperties DEF GroupsOK, FloraAssumption
<1>2. /\ us \in Seq(Seq(FloraOcc)) /\ Len(us) <= MaxFloraGroups + 1
      /\ OccsOf(us) = OccsOf(fUndo) \cup Range(group)
  <2>1. CASE group = <<>>
    <3>1. Range(group) = {}
      BY <2>1, EmptySeq DEF Range
    <3> QED
      BY <1>1, <2>1, <3>1
  <2>2. CASE group # <<>>
    <3>1. us = Append(fUndo, group)
      BY <2>2
    <3> HIDE DEF us
    <3>2. /\ us \in Seq(Seq(FloraOcc)) /\ Len(us) = Len(fUndo) + 1
          /\ \A i \in 1 .. Len(fUndo) : us[i] = fUndo[i]
          /\ us[Len(fUndo) + 1] = group
      BY <1>1, <3>1, AppendProperties
    <3>3. DOMAIN us = 1 .. Len(fUndo) + 1
      BY <3>2, LenProperties
    <3>4. OccsOf(us) \subseteq OccsOf(fUndo) \cup Range(group)
      <4> SUFFICES ASSUME NEW i \in 1 .. Len(fUndo) + 1
                   PROVE  Range(us[i]) \subseteq OccsOf(fUndo) \cup Range(group)
        BY <3>3 DEF OccsOf
      <4> QED
        BY <1>1, <3>2 DEF OccsOf
    <3>5. \A i \in DOMAIN us : Range(us[i]) \subseteq OccsOf(us)
      BY DEF OccsOf
    <3>6. OccsOf(fUndo) \subseteq OccsOf(us)
      <4> SUFFICES ASSUME NEW i \in 1 .. Len(fUndo)
                   PROVE  Range(fUndo[i]) \subseteq OccsOf(us)
        BY <1>1 DEF OccsOf
      <4>1. i \in DOMAIN us /\ us[i] = fUndo[i]
        BY <1>1, <3>2, <3>3
      <4> QED
        BY <3>5, <4>1
    <3>7. Range(group) \subseteq OccsOf(us)
      <4>1. Len(fUndo) + 1 \in DOMAIN us
        BY <1>1, <3>3
      <4> QED
        BY <3>2, <3>5, <4>1
    <3>8. OccsOf(us) = OccsOf(fUndo) \cup Range(group)
      BY <3>4, <3>6, <3>7
    <3>9. Len(us) <= MaxFloraGroups + 1
      BY <1>1, <3>2
    <3> QED
      BY <3>2, <3>8, <3>9
  <2> QED
    BY <2>1, <2>2
<1>3. fUndo' = Trimmed(us) /\ fLit' = (fLit \cup Range(group)) \ Forgotten(us)
  BY DEF FloraRecorded
<1> HIDE DEF us
<1>4. /\ GroupsOK(Trimmed(us)) /\ OccsOf(Trimmed(us)) \subseteq OccsOf(us)
      /\ OccsOf(us) \ Forgotten(us) \subseteq OccsOf(Trimmed(us))
  BY <1>2, TrimmedOK
<1> QED
  BY <1>2, <1>3, <1>4

\* What undo leaves of the stack: all groups but the last, or that one without
\* its last plant.
LEMMA LessPending ==
  ASSUME FloraAssumption, GroupsOK(fUndo), fUndo # <<>>
  PROVE  LET n == Len(fUndo)
             m == Len(fUndo[n])
             fewer == SubSeq(fUndo, 1, n - 1)
             less == [fUndo EXCEPT ![n] = SubSeq(@, 1, m - 1)]
         IN /\ GroupsOK(fewer) /\ OccsOf(fewer) \subseteq OccsOf(fUndo)
            /\ OccsOf(fUndo) \ Range(fUndo[n]) \subseteq OccsOf(fewer)
            /\ Range(fUndo[n]) \subseteq OccsOf(fUndo)
            /\ m > 1 => /\ GroupsOK(less) /\ OccsOf(less) \subseteq OccsOf(fUndo)
                        /\ OccsOf(fUndo) \ {fUndo[n][m]} \subseteq OccsOf(less)
                        /\ fUndo[n][m] \in OccsOf(fUndo)
<1> DEFINE n == Len(fUndo)
           m == Len(fUndo[n])
           fewer == SubSeq(fUndo, 1, n - 1)
           cut == SubSeq(fUndo[n], 1, m - 1)
           less == [fUndo EXCEPT ![n] = cut]
<1>1. fUndo \in Seq(Seq(FloraOcc)) /\ n \in Nat /\ n > 0 /\ DOMAIN fUndo = 1 .. n /\ n <= MaxFloraGroups
  BY LenProperties, EmptySeq DEF GroupsOK
<1>2. fUndo[n] \in Seq(FloraOcc) /\ m \in Nat /\ DOMAIN fUndo[n] = 1 .. m
  BY <1>1, ElementOfSeq, LenProperties
<1>3. /\ fewer \in Seq(Seq(FloraOcc)) /\ Len(fewer) = n - 1
      /\ \A i \in 1 .. n - 1 : fewer[i] = fUndo[i]
  <2>1. \A i \in 1 .. n - 1 : fUndo[i] \in Seq(FloraOcc)
    BY <1>1, ElementOfSeq
  <2> QED
    BY <1>1, <2>1, SubSeqProperties
<1>4. DOMAIN fewer = 1 .. n - 1
  BY <1>3, LenProperties
<1>5. /\ GroupsOK(fewer) /\ OccsOf(fewer) \subseteq OccsOf(fUndo)
      /\ OccsOf(fUndo) \ Range(fUndo[n]) \subseteq OccsOf(fewer)
      /\ Range(fUndo[n]) \subseteq OccsOf(fUndo)
  <2> HIDE DEF fewer
  <2>1. GroupsOK(fewer)
    <3>1. n - 1 <= MaxFloraGroups
      BY <1>1 DEF FloraAssumption
    <3> QED
      BY <1>3, <3>1 DEF GroupsOK
  <2>2. OccsOf(fewer) \subseteq OccsOf(fUndo)
    <3> SUFFICES ASSUME NEW i \in 1 .. n - 1 PROVE Range(fewer[i]) \subseteq OccsOf(fUndo)
      BY <1>4 DEF OccsOf
    <3>1. i \in 1 .. n /\ fewer[i] = fUndo[i]
      BY <1>1, <1>3
    <3> QED
      BY <1>1, <3>1 DEF OccsOf
  <2>3. OccsOf(fUndo) \ Range(fUndo[n]) \subseteq OccsOf(fewer)
    <3> SUFFICES ASSUME NEW o \in OccsOf(fUndo), o \notin Range(fUndo[n])
                 PROVE  o \in OccsOf(fewer)
      OBVIOUS
    <3>0. PICK i \in 1 .. n : o \in Range(fUndo[i])
      BY <1>1 DEF OccsOf
    <3>1. i \in 1 .. n - 1
      BY <1>1, <3>0
    <3>2. fewer[i] = fUndo[i]
      BY <1>3, <3>1
    <3> QED
      BY <1>4, <3>0, <3>1, <3>2 DEF OccsOf
  <2>4. Range(fUndo[n]) \subseteq OccsOf(fUndo)
    BY <1>1 DEF OccsOf
  <2> QED
    BY <2>1, <2>2, <2>3, <2>4
<1>6. ASSUME m > 1
      PROVE  /\ GroupsOK(less) /\ OccsOf(less) \subseteq OccsOf(fUndo)
             /\ OccsOf(fUndo) \ {fUndo[n][m]} \subseteq OccsOf(less)
             /\ fUndo[n][m] \in OccsOf(fUndo)
  <2>1. /\ cut \in Seq(FloraOcc) /\ Len(cut) = m - 1
        /\ \A k \in 1 .. m - 1 : cut[k] = fUndo[n][k]
    <3>1. \A k \in 1 .. m - 1 : fUndo[n][k] \in FloraOcc
      BY <1>2, ElementOfSeq
    <3> QED
      BY <1>2, <1>6, <3>1, SubSeqProperties
  <2>2. DOMAIN cut = 1 .. m - 1
    BY <2>1, LenProperties
  <2>3. /\ less \in Seq(Seq(FloraOcc)) /\ Len(less) = n
        /\ less[n] = cut /\ \A i \in (1 .. n) \ {n} : less[i] = fUndo[i]
    <3> HIDE DEF cut
    <3> QED
      BY <1>1, <2>1, ExceptSeq
  <2>4. DOMAIN less = 1 .. n
    BY <2>3, LenProperties
  <2> HIDE DEF less, cut
  <2>5. Range(cut) \subseteq Range(fUndo[n]) /\ Range(fUndo[n]) \ {fUndo[n][m]} \subseteq Range(cut)
    BY <1>2, <2>1, <2>2 DEF Range
  <2>6. OccsOf(less) \subseteq OccsOf(fUndo)
    <3>1. \A i \in 1 .. n : Range(less[i]) \subseteq Range(fUndo[i])
      BY <2>3, <2>5
    <3> QED
      BY <1>1, <2>4, <3>1 DEF OccsOf
  <2>7. OccsOf(fUndo) \ {fUndo[n][m]} \subseteq OccsOf(less)
    <3>1. \A i \in 1 .. n : Range(fUndo[i]) \ {fUndo[n][m]} \subseteq Range(less[i])
      BY <2>3, <2>5
    <3> QED
      BY <1>1, <2>4, <3>1 DEF OccsOf
  <2>8. fUndo[n][m] \in Range(fUndo[n])
    BY <1>2, <1>6 DEF Range
  <2> QED
    BY <1>1, <1>5, <2>3, <2>6, <2>7, <2>8 DEF GroupsOK
<1> QED
  BY <1>5, <1>6


-----------------------------------------------------------------------------
(* Flora: what the steps of the painter keep.                              *)

\* The painter is left without a preview in the city c.
LEMMA HiddenOK ==
  ASSUME NEW c, fPreview' = NoPreview, flora' = c
  PROVE  FloraPreviewOK' /\ Tells'
<1>1. fPreview'.occ = NoPlant /\ ~fPreview'.visible /\ fPreview' \in [occ : FloraOcc \cup {NoPlant}, visible : BOOLEAN]
  BY DEF NoPreview
<1> QED
  BY <1>1 DEF FloraPreviewOK, Tells

\* The painter shows a new preview, where a click would be let, in the city c.
LEMMA ShownOK ==
  ASSUME FloraAssumption, NEW c, FloraOK(c), Alone(c, OccsOf(fUndo')), kind' \in Kinds, Paints',
         ShowsModel', IsPlacementValid(kind', fCursor', c), NEW t \in Turns,
         NEW o \in FloraOcc, o \notin DOMAIN c, o \notin OccsOf(fUndo'),
         fPreview' = [occ |-> o, visible |-> TRUE],
         flora' = WithPlant(c, o, Plant(kind', fCursor', t))
  PROVE  /\ FloraOK(flora') /\ Alone(flora', OccsOf(fUndo'))
         /\ FloraPreviewOK' /\ Tells'
<1> DEFINE p == Plant(kind', fCursor', t)
           P == OccsOf(fUndo')
<1>1. p \in Plants /\ p.kind = kind' /\ p.at = fCursor'
  BY PlantOK
<1>2. flora' = WithPlant(c, o, p)
  OBVIOUS
<1> HIDE DEF p, P
<1>3. Alone(flora', P)
  BY <1>2, JoinsAlone DEF P
<1>4. /\ DOMAIN flora' = DOMAIN c \cup {o} /\ \A q \in DOMAIN c : flora'[q] = c[q]
      /\ flora'[o] = p /\ FloraOK(flora')
  BY <1>1, <1>2 DEF WithPlant, FloraOK
<1>5. fPreview'.occ = o /\ fPreview'.visible = TRUE /\ o # NoPlant
  BY DEF FloraAssumption
<1>6. FloraPreviewOK'
  BY <1>4, <1>5 DEF FloraPreviewOK
<1>7. /\ DOMAIN NoPreviewIn(flora)' = DOMAIN c
      /\ \A q \in DOMAIN c : NoPreviewIn(flora)'[q] = c[q]
  <2>1. NoPreviewIn(flora)' = WithoutFlora(flora', {o})
    BY <1>5 DEF NoPreviewIn
  <2> QED
    BY <1>4, <2>1 DEF WithoutFlora, Restrict
<1>8. IsPlacementValid(kind, flora[fPreview.occ].at, NoPreviewIn(flora))'
  BY <1>1, <1>4, <1>5, <1>7 DEF IsPlacementValid
<1>9. Tells'
  BY <1>1, <1>4, <1>5, <1>8 DEF Tells
<1> QED
  BY <1>3, <1>4, <1>6, <1>9 DEF P

\* Where the preview may have been, before it is destroyed or moved.
LEMMA NoPreviewInOK ==
  ASSUME NEW c, FloraOK(c), NEW P, Alone(c, P)
  PROVE  /\ DOMAIN NoPreviewIn(c) = DOMAIN c \ {fPreview.occ}
         /\ \A o \in DOMAIN NoPreviewIn(c) : NoPreviewIn(c)[o] = c[o]
         /\ FloraOK(NoPreviewIn(c)) /\ Alone(NoPreviewIn(c), P)
BY StillAlone DEF NoPreviewIn, WithoutFlora, Restrict, FloraOK

\* SyncPreviewForState_ while the painter is on screen, in the city c.  The old
\* preview may be in it; of P, what is pending, nothing is.
LEMMA SyncFloraOK ==
  ASSUME FloraAssumption, NEW c, FloraOK(c), SyncFloraPreview(c), FloraPreviewOK,
         fPreview.occ # NoPlant => fPreview.occ \in DOMAIN c,
         OccsOf(fUndo') \subseteq OccsOf(fUndo), Alone(c, OccsOf(fUndo')),
         kind' \in Kinds, Paints'
  PROVE  /\ FloraOK(flora') /\ Alone(flora', OccsOf(fUndo'))
         /\ FloraPreviewOK' /\ Tells'
<1> DEFINE P == OccsOf(fUndo')
           d == NoPreviewIn(c)
<1>1. PendingOcc' = P
  BY DEF PendingOcc, OccsOf
<1>2. DOMAIN d = DOMAIN c \ {fPreview.occ} /\ FloraOK(d) /\ Alone(d, P)
  BY NoPreviewInOK
<1>3. CASE DestroyPreview(c)
  <2>1. fPreview' = NoPreview /\ flora' = d
    BY <1>3 DEF DestroyPreview
  <2> QED
    BY <1>2, <2>1, HiddenOK
<1>4. CASE ShowsModel' /\ fPreview.occ # NoPlant /\ HidePreview(c)
  <2>1. flora' = c /\ fPreview' = [occ |-> fPreview.occ, visible |-> FALSE]
    BY <1>4 DEF HidePreview, FloraPreviewOK
  <2>2. fPreview'.occ = fPreview.occ /\ ~fPreview'.visible
    BY <2>1
  <2>3. fPreview.occ \in DOMAIN c \ P
    BY <1>4 DEF FloraPreviewOK
  <2> QED
    BY <1>4, <2>1, <2>2, <2>3 DEF FloraPreviewOK, Tells
<1>5. ASSUME ShowsModel', IsPlacementValid(kind', fCursor', d),
             NEW o \in FloraOcc \ (DOMAIN d \cup P), NEW t \in Turns,
             fPreview' = [occ |-> o, visible |-> TRUE],
             flora' = WithPlant(d, o, Plant(kind', fCursor', t))
      PROVE  /\ FloraOK(flora') /\ Alone(flora', P) /\ FloraPreviewOK' /\ Tells'
  <2> HIDE DEF d
  <2> QED
    BY <1>2, <1>5, ShownOK
<1> QED
  BY <1>1, <1>3, <1>4, <1>5 DEF SyncFloraPreview

\* OnMouseMove and P.
LEMMA SyncFloraKeeps ==
  ASSUME FloraAssumption, FloraInv, (\E s \in Spots : MoveFloraPainter(s)) \/ CycleFloraPreview
  PROVE  FloraInv' /\ StillTells
<1>1. /\ Paints /\ SyncFloraPreview(flora) /\ model' \in BOOLEAN
      /\ fCursor' \in Spots \cup {NoSpot}
      /\ UNCHANGED <<fLit, fState, kind, fUndo, fStripping, fDirector>>
  BY DEF MoveFloraPainter, CycleFloraPreview, FloraInv, FloraScreenOK
<1>2. UNCHANGED <<fHovered, fDeleted, fBrush, fLeft, aim, fScreen, fCancel, fPolicy, fLoaded>>
  BY <1>1 DEF fStripping, fDirector
<1>3. Paints' /\ kind' \in Kinds /\ fUndo' = fUndo
  BY <1>1, <1>2 DEF Paints, FloraInv, FloraScreenOK
<1>4. /\ FloraOK(flora') /\ Alone(flora', OccsOf(fUndo'))
      /\ FloraPreviewOK' /\ Tells'
  BY <1>1, <1>3, SyncFloraOK DEF FloraInv, FloraPreviewOK
<1>5. fHovered = NoPlant
  BY <1>1 DEF FloraInv, FloraHoverOK, Strips, Paints
<1>6. FloraScreenOK'
  BY <1>1, <1>2 DEF FloraInv, FloraScreenOK, Paints
<1>7. FloraHoverOK'
  BY <1>1, <1>2, <1>5 DEF FloraInv, FloraHoverOK, Strips
<1> QED
  BY <1>1, <1>4, <1>6, <1>7 DEF FloraInv, StillTells

\* What a refused placement, undo, commit and cancel do: some of what is pending
\* leaves, and the preview stays as it is.
LEMMA FloraReleaseOK ==
  ASSUME FloraAssumption, FloraInv, Paints, GroupsOK(fUndo'),
         OccsOf(fUndo') \subseteq OccsOf(fUndo), NEW gone, gone \subseteq OccsOf(fUndo),
         flora' = WithoutFlora(flora, gone),
         fLit' \subseteq fLit, fLit' \subseteq OccsOf(fUndo'), fCursor' \in {fCursor, NoSpot},
         UNCHANGED <<fState, kind, model, fPreview, fStripping, fScreen, fPolicy, fLoaded>>
  PROVE  FloraInv' /\ StillTells
<1>1. UNCHANGED <<fHovered, fDeleted, fBrush, fLeft, aim>>
  BY DEF fStripping
<1>2. /\ DOMAIN flora' = DOMAIN flora \ gone /\ \A o \in DOMAIN flora' : flora'[o] = flora[o]
      /\ FloraOK(flora') /\ Alone(flora', OccsOf(fUndo))
  <2>1. FloraOK(flora) /\ Alone(flora, OccsOf(fUndo))
    BY DEF FloraInv
  <2>2. Alone(flora', OccsOf(fUndo))
    BY <2>1, StillAlone
  <2> QED
    BY <2>1, <2>2 DEF WithoutFlora, Restrict, FloraOK
<1>3. Alone(flora', OccsOf(fUndo'))
  BY <1>2, FewerAlone
<1>4. fHovered = NoPlant
  BY DEF FloraInv, FloraHoverOK, Strips, Paints
<1>5. FloraScreenOK'
  BY <1>1 DEF FloraInv, FloraScreenOK, Paints
<1>6. FloraHoverOK'
  BY <1>1, <1>4 DEF FloraInv, FloraHoverOK, Strips
<1>7. FloraPreviewOK'
  BY <1>2 DEF FloraInv, FloraPreviewOK, Paints, ShowsModel
<1>8. ASSUME Tells PROVE Tells'
  <2> SUFFICES ASSUME fPreview.visible PROVE Tells'
    BY DEF Tells
  <2>1. fPreview.occ \in DOMAIN flora'
    BY <1>2 DEF FloraInv, FloraPreviewOK
  <2>2. \A o \in DOMAIN NoPreviewIn(flora)' :
          o \in DOMAIN NoPreviewIn(flora) /\ NoPreviewIn(flora)'[o] = NoPreviewIn(flora)[o]
    <3>1. NoPreviewIn(flora)' = WithoutFlora(flora', {fPreview.occ})
      BY DEF NoPreviewIn
    <3> QED
      BY <1>2, <3>1 DEF NoPreviewIn, WithoutFlora, Restrict
  <2>3. flora'[fPreview.occ] = flora[fPreview.occ]
    BY <1>2, <2>1
  <2>4. IsPlacementValid(kind, flora[fPreview.occ].at, NoPreviewIn(flora))'
    BY <1>8, <2>2, <2>3 DEF Tells, IsPlacementValid
  <2> QED
    BY <1>8, <2>3, <2>4 DEF Tells
<1>9. StillTells
  BY <1>8 DEF StillTells, FloraInv, FloraScreenOK, FloraAssumption
<1> QED
  BY <1>2, <1>3, <1>5, <1>6, <1>7, <1>9 DEF FloraInv

\* Ctrl+Z, Ctrl+Backspace, Enter and Esc.
LEMMA FloraUndoSteps ==
  ASSUME FloraAssumption, FloraInv, UndoFloraPlacement \/ EnterCommits \/ EscInFloraPainter
  PROVE  FloraInv' /\ StillTells
<1>1. fLit \subseteq OccsOf(fUndo) \cup {fHovered} /\ PendingOcc = OccsOf(fUndo)
  BY DEF FloraInv, FloraHoverOK, PendingOcc, OccsOf
<1>2. Paints /\ fHovered = NoPlant /\ NoPlant \notin fLit
  BY DEF FloraInv, FloraHoverOK, Strips, Paints, UndoFloraPlacement, EnterCommits, EscInFloraPainter,
         FloraAssumption
<1>3. CASE UndoFloraPlacement
  <2> DEFINE n == Len(fUndo)
             m == Len(fUndo[n])
  <2>1. /\ fUndo # <<>>
        /\ UNCHANGED <<fState, kind, model, fCursor, fPreview, fStripping, fScreen, fPolicy, fLoaded>>
    BY <1>3 DEF UndoFloraPlacement, fDirector
  <2>2. CASE Removed(SubSeq(fUndo, 1, n - 1), Range(fUndo[n]))
    <3>1. /\ fUndo' = SubSeq(fUndo, 1, n - 1) /\ flora' = WithoutFlora(flora, Range(fUndo[n]))
          /\ fLit' = fLit \ Range(fUndo[n])
      BY <2>2 DEF Removed
    <3>2. /\ GroupsOK(fUndo') /\ OccsOf(fUndo') \subseteq OccsOf(fUndo)
          /\ OccsOf(fUndo) \ Range(fUndo[n]) \subseteq OccsOf(fUndo')
          /\ Range(fUndo[n]) \subseteq OccsOf(fUndo)
      BY <2>1, <3>1, LessPending DEF FloraInv
    <3>3. fLit' \subseteq OccsOf(fUndo') /\ fLit' \subseteq fLit
      BY <1>1, <1>2, <3>1, <3>2
    <3> QED
      BY <1>2, <2>1, <3>1, <3>2, <3>3, FloraReleaseOK
  <2>3. CASE m > 1 /\ Removed([fUndo EXCEPT ![n] = SubSeq(@, 1, m - 1)], {fUndo[n][m]})
    <3>1. /\ fUndo' = [fUndo EXCEPT ![n] = SubSeq(@, 1, m - 1)]
          /\ flora' = WithoutFlora(flora, {fUndo[n][m]})
          /\ fLit' = fLit \ {fUndo[n][m]}
      BY <2>3 DEF Removed
    <3>2. /\ GroupsOK(fUndo') /\ OccsOf(fUndo') \subseteq OccsOf(fUndo)
          /\ OccsOf(fUndo) \ {fUndo[n][m]} \subseteq OccsOf(fUndo')
          /\ fUndo[n][m] \in OccsOf(fUndo)
      BY <2>1, <2>3, <3>1, LessPending DEF FloraInv
    <3>3. fLit' \subseteq OccsOf(fUndo') /\ fLit' \subseteq fLit
      BY <1>1, <1>2, <3>1, <3>2
    <3> QED
      BY <1>2, <2>1, <3>1, <3>2, <3>3, FloraReleaseOK
  <2> QED
    BY <1>3, <2>2, <2>3 DEF UndoFloraPlacement
<1>4. CASE EnterCommits
  <2>1. /\ fUndo' = <<>> /\ fLit' = fLit \ OccsOf(fUndo) /\ flora' = flora
        /\ UNCHANGED <<fState, kind, model, fCursor, fPreview, fStripping, fScreen, fPolicy, fLoaded>>
    BY <1>1, <1>4 DEF EnterCommits, fDirector
  <2>2. flora' = WithoutFlora(flora, {}) \/ flora' = flora
    BY <2>1
  <2>3. fLit' = {} /\ OccsOf(fUndo') = {} /\ GroupsOK(fUndo')
    BY <1>1, <1>2, <2>1, NoGroups
  <2>4. UNCHANGED <<fHovered, fDeleted, fBrush, fLeft, aim>>
    BY <2>1 DEF fStripping
  <2>5. FloraPreviewOK' /\ FloraScreenOK' /\ FloraHoverOK'
    BY <1>2, <2>1, <2>3, <2>4
       DEF FloraInv, FloraPreviewOK, FloraScreenOK, FloraHoverOK, Paints, Strips, ShowsModel, InBox
  <2>6. Alone(flora', OccsOf(fUndo')) /\ FloraOK(flora')
    BY <2>1, <2>3 DEF Alone, FloraInv
  <2>7. Tells => Tells'
    BY <2>1 DEF Tells, NoPreviewIn
  <2> QED
    BY <2>1, <2>3, <2>5, <2>6, <2>7 DEF FloraInv, StillTells
<1>5. CASE EscInFloraPainter
  <2>1. /\ fUndo' = <<>> /\ flora' = WithoutFlora(flora, OccsOf(fUndo)) /\ fLit' = fLit \ OccsOf(fUndo)
        /\ fCursor' = NoSpot
        /\ UNCHANGED <<fState, kind, model, fPreview, fStripping, fScreen, fPolicy, fLoaded>>
    BY <1>1, <1>5 DEF EscInFloraPainter, Removed
  <2>2. fLit' = {} /\ OccsOf(fUndo') = {} /\ GroupsOK(fUndo')
    BY <1>1, <1>2, <2>1, NoGroups
  <2> QED
    BY <1>2, <2>1, <2>2, FloraReleaseOK
<1> QED
  BY <1>3, <1>4, <1>5


\* What stays as it is, when only plants and the undo stack change while the
\* painter is on screen.
LEMMA FloraPainterRest ==
  ASSUME FloraInv, Paints, UNCHANGED <<fState, model, fStripping, fScreen, fPolicy, fLoaded>>,
         kind' \in Kinds, fCursor' \in Spots \cup {NoSpot},
         fLit' \subseteq OccsOf(fUndo'), OccsOf(fUndo') \subseteq FloraOcc
  PROVE  FloraScreenOK' /\ FloraHoverOK' /\ Paints'
<1>1. UNCHANGED <<fHovered, fDeleted, fBrush, fLeft, aim>>
  BY DEF fStripping
<1>2. fHovered = NoPlant
  BY DEF FloraInv, FloraHoverOK, Strips, Paints
<1>3. FloraScreenOK'
  BY <1>1 DEF FloraInv, FloraScreenOK, Paints
<1>4. FloraHoverOK'
  BY <1>1, <1>2 DEF FloraInv, FloraHoverOK, Strips
<1> QED
  BY <1>3, <1>4 DEF Paints

\* On screen the painter's highlights are of what is pending.
LEMMA LitIsPending ==
  ASSUME FloraAssumption, FloraInv, ~Strips
  PROVE  fHovered = NoPlant /\ fLit \subseteq OccsOf(fUndo) /\ PendingOcc = OccsOf(fUndo)
BY DEF FloraInv, FloraHoverOK, FloraAssumption, PendingOcc, OccsOf

\* PlaceAtWorld_
LEMMA FloraClickOK ==
  ASSUME FloraAssumption, FloraInv, NEW s \in Spots, Click(s)
  PROVE  FloraInv' /\ StillTells
<1> DEFINE d == NoPreviewIn(flora)
           P == OccsOf(fUndo)
<1>1. /\ Paints /\ fState = "Direct"
      /\ UNCHANGED <<fState, model, fCursor, fStripping, fScreen, fPolicy, fLoaded>>
  BY DEF Click, fDirector
<1>2. /\ GroupsOK(fUndo) /\ P \subseteq FloraOcc /\ kind \in Kinds /\ fCursor \in Spots \cup {NoSpot}
      /\ fLit \subseteq P /\ PendingOcc = P
  BY <1>1, LitIsPending, OccsOfIs DEF FloraInv, FloraScreenOK, Paints, Strips
<1>3. /\ DOMAIN d = DOMAIN flora \ {fPreview.occ} /\ FloraOK(d) /\ Alone(d, P)
  BY NoPreviewInOK DEF FloraInv
<1>4. CASE DestroyPreview(flora) /\ UNCHANGED <<fLit, kind, fUndo>>
  <2>1. fPreview' = NoPreview /\ flora' = d
    BY <1>4 DEF DestroyPreview
  <2>2. FloraPreviewOK' /\ Tells'
    BY <2>1, HiddenOK
  <2>3. FloraScreenOK' /\ FloraHoverOK'
    BY <1>1, <1>2, <1>4, FloraPainterRest
  <2> QED
    BY <1>2, <1>3, <1>4, <2>1, <2>2, <2>3 DEF FloraInv, StillTells
<1>5. ASSUME IsPlacementValid(kind, s, d), NEW o \in FreshFlora, NEW t \in Turns,
             FloraRecorded(<<o>>), kind' \in Kinds,
             LET planted == WithPlant(d, o, Plant(kind, s, t)) IN
             \/ fPreview' = NoPreview /\ flora' = planted
             \/ /\ ShowsModel /\ IsPlacementValid(kind', fCursor, planted)
                /\ \E p \in FreshFlora \ {o}, u \in Turns :
                     /\ fPreview' = [occ |-> p, visible |-> TRUE]
                     /\ flora' = WithPlant(planted, p, Plant(kind', fCursor, u))
      PROVE  FloraInv' /\ StillTells
  <2> DEFINE x == Plant(kind, s, t)
             c == WithPlant(d, o, x)
             Q == OccsOf(fUndo')
  <2>1. x \in Plants /\ x.at = s
    BY <1>2, <1>5, PlantOK
  <2>2. o \in FloraOcc /\ o \notin DOMAIN flora /\ o \notin DOMAIN d /\ o \notin P
    BY <1>2, <1>3 DEF FreshFlora
  <2>3. Alone(c, P \cup {o})
    <3>1. \A q \in DOMAIN d : d[q].at # x.at
      BY <1>5, <2>1 DEF IsPlacementValid
    <3> HIDE DEF d, x
    <3> QED
      BY <1>3, <2>2, <3>1, JoinsAlone
  <2>4. DOMAIN c = DOMAIN d \cup {o} /\ FloraOK(c)
    <3> HIDE DEF d, x
    <3> QED
      BY <1>3, <2>1, <2>2 DEF WithPlant, FloraOK
  <2>5. GroupsOK(fUndo') /\ Q \subseteq P \cup {o} /\ fLit' \subseteq Q
    <3>1. <<o>> \in Seq(FloraOcc) /\ Range(<<o>>) = {o}
      BY <2>2 DEF Range
    <3> QED
      BY <1>2, <1>5, <3>1, FloraRecordedOK
  <2>6. FloraScreenOK' /\ FloraHoverOK' /\ Paints'
    BY <1>1, <1>2, <1>5, <2>2, <2>5, FloraPainterRest
  <2>7. Alone(c, Q)
    BY <2>3, <2>5, FewerAlone
  <2> HIDE DEF c
  <2>8. /\ FloraOK(flora') /\ Alone(flora', Q) /\ FloraPreviewOK' /\ Tells'
    <3>1. CASE fPreview' = NoPreview /\ flora' = c
      BY <2>4, <2>7, <3>1, HiddenOK
    <3>2. ASSUME ShowsModel, IsPlacementValid(kind', fCursor, c),
                 NEW p \in FreshFlora \ {o}, NEW u \in Turns,
                 fPreview' = [occ |-> p, visible |-> TRUE],
                 flora' = WithPlant(c, p, Plant(kind', fCursor, u))
          PROVE  FloraOK(flora') /\ Alone(flora', Q) /\ FloraPreviewOK' /\ Tells'
      <4>1. p \in FloraOcc /\ p \notin DOMAIN c /\ p \notin Q
        BY <1>2, <1>3, <2>4, <2>5, <3>2 DEF FreshFlora
      <4>2. ShowsModel' /\ fCursor' = fCursor
        BY <1>1, <3>2 DEF ShowsModel
      <4> HIDE DEF Q
      <4>3. FloraOK(c) /\ Alone(c, OccsOf(fUndo')) /\ p \notin OccsOf(fUndo')
        BY <2>4, <2>7, <4>1 DEF Q
      <4> QED
        BY <1>5, <2>6, <3>2, <4>1, <4>2, <4>3, ShownOK DEF Q
    <3> QED
      BY <1>5, <3>1, <3>2 DEF c
  <2> QED
    BY <2>5, <2>6, <2>8 DEF FloraInv, StillTells
<1> QED
  BY <1>4, <1>5 DEF Click

\* ExecuteLinePlacement_ and ExecutePolygonPlacement_: what a batch plants stands
\* alone, because each spot goes to one of its plants.
LEMMA PlaceSketchOK ==
  ASSUME FloraAssumption, FloraInv, NEW batch \in FloraBatches, PlaceSketch(batch)
  PROVE  FloraInv' /\ StillTells
<1> DEFINE which == Planted(batch)
           order == Ascending(which)
           P == OccsOf(fUndo)
           May(i) == IsPlacementValid(batch[i].kind, batch[i].at, flora)
<1>1. /\ Paints /\ fState = "Sketch" /\ fCursor' = NoSpot
      /\ UNCHANGED <<fState, kind, model, fPreview, fStripping, fScreen, fPolicy, fLoaded>>
  BY DEF PlaceSketch, fDirector
<1>2. /\ GroupsOK(fUndo) /\ P \subseteq FloraOcc /\ kind \in Kinds
      /\ fLit \subseteq P /\ PendingOcc = P /\ FloraOK(flora) /\ Alone(flora, P)
  BY <1>1, LitIsPending, OccsOfIs DEF FloraInv, FloraScreenOK, Paints, Strips
<1>3. batch \in Seq([kind : Kinds, at : Spots])
  BY DEF FloraAssumption
<1>4. /\ which \in SUBSET DOMAIN batch
      /\ \A i \in which : batch[i] \in [kind : Kinds, at : Spots] /\ May(i)
      /\ \A i, j \in which : i # j => batch[i].at # batch[j].at
  <2>1. DOMAIN batch = 1 .. Len(batch) /\ Len(batch) \in Nat
    BY <1>3, LenProperties
  <2>2. \A i \in which : i \in DOMAIN batch /\ May(i) /\ \A j \in 1 .. i - 1 : May(j) => batch[j].at # batch[i].at
    BY DEF Planted
  <2>3. \A i \in which : batch[i] \in [kind : Kinds, at : Spots]
    BY <1>3, <2>1, <2>2, ElementOfSeq
  <2>4. ASSUME NEW i \in which, NEW j \in which, i < j PROVE batch[i].at # batch[j].at
    <3> HIDE DEF which, May
    <3>1. i \in 1 .. j - 1
      BY <2>1, <2>2, <2>4
    <3> QED
      BY <2>2, <3>1
  <2>5. \A i, j \in which : i # j => i < j \/ j < i
    <3> HIDE DEF which, May
    <3> QED
      BY <2>1, <2>2
  <2> HIDE DEF which, May
  <2> QED
    BY <2>2, <2>3, <2>4, <2>5
<1>5. order \in [1 .. Cardinality(which) -> which]
  BY <1>3, <1>4, PickedOK
<1>6. PICK f \in Injection(which, FreshFlora), t \in Turns :
        /\ FloraRecorded([k \in DOMAIN order |-> f[order[k]]])
        /\ flora' = [o \in DOMAIN flora \cup Range(f) |->
                       IF o \in DOMAIN flora THEN flora[o]
                       ELSE LET i == CHOOSE j \in which : f[j] = o
                            IN Plant(batch[i].kind, batch[i].at, t)]
  BY DEF PlaceSketch
<1> HIDE DEF which
<1>7. f \in [which -> FreshFlora] /\ Range(f) = {f[i] : i \in which}
  BY DEF Injection, IsInjective, Range
<1>8. \A o \in Range(f) : o \in FloraOcc /\ o \notin DOMAIN flora /\ o \notin P
  BY <1>2, <1>7 DEF FreshFlora
<1>9. /\ DOMAIN flora' = DOMAIN flora \cup Range(f)
      /\ \A o \in DOMAIN flora : flora'[o] = flora[o]
      /\ \A o \in Range(f) : \E i \in which :
           /\ f[i] = o /\ flora'[o] = Plant(batch[i].kind, batch[i].at, t)
  BY <1>6, <1>7, <1>8
<1>10. \A i \in which : LET p == Plant(batch[i].kind, batch[i].at, t)
                        IN p \in Plants /\ p.at = batch[i].at
  BY <1>4 DEF Plant, Plants
<1>11. FloraOK(flora')
  BY <1>2, <1>8, <1>9, <1>10 DEF FloraOK
<1>12. Alone(flora', P \cup Range(f))
  <2> SUFFICES ASSUME NEW o \in (P \cup Range(f)) \cap DOMAIN flora',
                      NEW q \in (P \cup Range(f)) \cap DOMAIN flora', o # q
               PROVE  flora'[o].at # flora'[q].at
    BY DEF Alone
  <2>1. \A x \in (P \cup Range(f)) \cap DOMAIN flora' : x \in Range(f) \/ x \in P \cap DOMAIN flora
    BY <1>9
  <2>2. \A x \in Range(f) : \A y \in DOMAIN flora : flora'[x].at # flora'[y].at
    BY <1>4, <1>9, <1>10 DEF IsPlacementValid
  <2>3. CASE o \in P \cap DOMAIN flora /\ q \in P \cap DOMAIN flora
    BY <1>2, <1>9, <2>3 DEF Alone
  <2>4. CASE o \in Range(f) /\ q \in Range(f)
    <3>1. PICK i \in which : f[i] = o /\ flora'[o] = Plant(batch[i].kind, batch[i].at, t)
      BY <1>9, <2>4
    <3>2. PICK j \in which : f[j] = q /\ flora'[q] = Plant(batch[j].kind, batch[j].at, t)
      BY <1>9, <2>4
    <3>3. i # j
      BY <3>1, <3>2
    <3> QED
      BY <1>4, <1>10, <3>1, <3>2, <3>3
  <2> QED
    BY <2>1, <2>2, <2>3, <2>4
<1>13. /\ GroupsOK(fUndo') /\ OccsOf(fUndo') \subseteq P \cup Range(f)
       /\ fLit' \subseteq OccsOf(fUndo')
  <2> DEFINE group == [k \in DOMAIN order |-> f[order[k]]]
             n == Cardinality(which)
  <2>1. n \in Nat /\ DOMAIN order = 1 .. n
    BY <1>3, <1>4, <1>5, PickedOK
  <2>2. group \in [1 .. n -> FloraOcc] /\ \A k \in 1 .. n : group[k] \in Range(f)
    <3> HIDE DEF order
    <3> QED
      BY <1>5, <1>7, <1>8, <2>1
  <2>3. group \in Seq(FloraOcc) /\ Range(group) \subseteq Range(f)
    <3> HIDE DEF group
    <3>1. group \in Seq(FloraOcc)
      BY <2>1, <2>2, IsASeq
    <3>2. DOMAIN group = 1 .. n
      BY <2>2
    <3> QED
      BY <2>2, <3>1, <3>2 DEF Range
  <2>4. FloraRecorded(group)
    BY <1>6
  <2> HIDE DEF group
  <2> QED
    BY <1>2, <2>3, <2>4, FloraRecordedOK
<1>14. Alone(flora', OccsOf(fUndo'))
  BY <1>12, <1>13, FewerAlone
<1>15. FloraScreenOK' /\ FloraHoverOK' /\ Paints'
  <2>1. OccsOf(fUndo') \subseteq FloraOcc /\ kind' \in Kinds /\ fCursor' \in Spots \cup {NoSpot}
    BY <1>1, <1>2, <1>8, <1>13
  <2> QED
    BY <1>1, <1>13, <2>1, FloraPainterRest
<1>16. fPreview.occ = NoPlant /\ ~fPreview.visible
  BY <1>1 DEF FloraInv, FloraPreviewOK, ShowsModel
<1>17. FloraPreviewOK' /\ Tells'
  BY <1>1, <1>16 DEF FloraInv, FloraPreviewOK, Tells
<1> QED
  BY <1>11, <1>13, <1>14, <1>15, <1>17 DEF FloraInv, StillTells


-----------------------------------------------------------------------------
(* Flora: what the steps of the stripper keep.                             *)

\* While the stripper is on screen there is no preview.
LEMMA FloraStripperRest ==
  ASSUME FloraInv, Strips, UNCHANGED <<fPainting, fScreen, fPolicy, fLoaded>>,
         FloraOK(flora'), Alone(flora', OccsOf(fUndo)), fDeleted' \in Seq(Plants),
         fBrush' \in BOOLEAN, fLeft' \in BOOLEAN, aim' \in Spots \cup {NoSpot}, FloraHoverOK'
  PROVE  FloraInv' /\ StillTells
<1>1. UNCHANGED <<fState, kind, model, fCursor, fPreview, fUndo>>
  BY DEF fPainting
<1>2. fPreview.occ = NoPlant /\ ~fPreview.visible
  BY DEF FloraInv, FloraPreviewOK, Paints, Strips
<1>3. FloraPreviewOK' /\ Tells'
  BY <1>1, <1>2 DEF FloraInv, FloraPreviewOK, Tells
<1>4. FloraScreenOK'
  BY <1>1 DEF FloraInv, FloraScreenOK, Paints
<1> QED
  BY <1>1, <1>3, <1>4 DEF FloraInv, StillTells

\* What GetOccupantsByBBox returns, in some order.
LEMMA OrdersOK ==
  ASSUME FloraAssumption, NEW S, S \subseteq FloraOcc, NEW order \in Orders(S)
  PROVE  order \in Seq(S) /\ Range(order) = S
<1>1. Cardinality(S) \in Nat
  BY FS_Subset, FS_CardinalityType DEF FloraAssumption
<1>2. order \in [1 .. Cardinality(S) -> S]
  BY DEF Orders, Bijection, Injection, Surjection, IsInjective
<1>3. \A x \in S : \E k \in 1 .. Cardinality(S) : order[k] = x
  BY DEF Orders, Bijection, Surjection
<1>4. order \in Seq(S)
  BY <1>1, <1>2, IsASeq
<1> QED
  BY <1>2, <1>3, <1>4 DEF Range

\* DeleteFloraInBrush_ and DeleteHoveredFlora_ record plants.
LEMMA DeleteFloraOK ==
  ASSUME FloraAssumption, FloraInv, NEW order \in Seq(DOMAIN flora), DeleteFlora(order)
  PROVE  /\ FloraOK(flora') /\ Alone(flora', OccsOf(fUndo)) /\ fDeleted' \in Seq(Plants)
         /\ DOMAIN flora' \subseteq DOMAIN flora /\ \A o \in DOMAIN flora' : flora'[o] = flora[o]
<1>1. PICK kept \in SUBSET Range(order) :
        LET gone == Picked(order, {i \in DOMAIN order : order[i] \notin kept})
        IN /\ flora' = WithoutFlora(flora, Range(gone))
           /\ fDeleted' = fDeleted \o [i \in DOMAIN gone |-> flora[gone[i]]]
  BY DEF DeleteFlora
<1> DEFINE I == {i \in DOMAIN order : order[i] \notin kept}
           gone == Picked(order, I)
           recs == [i \in DOMAIN gone |-> flora[gone[i]]]
<1>2. gone \in Seq(DOMAIN flora) /\ DOMAIN gone = 1 .. Cardinality(I) /\ Cardinality(I) \in Nat
      /\ Len(gone) = Cardinality(I)
  BY PickedOK
<1>3. flora' = WithoutFlora(flora, Range(gone)) /\ fDeleted' = fDeleted \o recs
  BY <1>1
<1> HIDE DEF gone
<1>4. \A i \in DOMAIN gone : gone[i] \in DOMAIN flora
  BY <1>2, ElementOfSeq
<1>5. recs \in Seq(Plants)
  <2>1. recs \in [1 .. Cardinality(I) -> Plants]
    BY <1>2, <1>4 DEF FloraInv, FloraOK
  <2> HIDE DEF recs, I
  <2> QED
    BY <1>2, <2>1, IsASeq
<1>6. fDeleted' \in Seq(Plants)
  <2>1. fDeleted \in Seq(Plants)
    BY DEF FloraInv, FloraScreenOK
  <2> HIDE DEF recs
  <2> QED
    BY <1>3, <1>5, <2>1, ConcatProperties
<1>7. FloraOK(flora) /\ Alone(flora, OccsOf(fUndo))
  BY DEF FloraInv
<1>8. Alone(flora', OccsOf(fUndo))
  BY <1>3, <1>7, StillAlone
<1> QED
  BY <1>3, <1>6, <1>7, <1>8 DEF WithoutFlora, Restrict, FloraOK

\* PickNearestFlora_ aims at s.
LEMMA PickNearestFloraOK ==
  ASSUME FloraAssumption, FloraInv, Strips, NEW s, PickNearestFlora(s), aim' = s, ~fBrush', ~fLeft',
         UNCHANGED <<flora, fUndo, fScreen>>
  PROVE  FloraHoverOK'
<1>1. InBox(aim)' = InBox(s) /\ Strips'
  BY DEF InBox, Strips
<1>2. \A o \in InBox(s) : o \in DOMAIN flora /\ o \in FloraOcc
  BY DEF InBox, FloraInv, FloraOK
<1>3. /\ fLit \subseteq OccsOf(fUndo) \cup {fHovered} /\ fLit \subseteq FloraOcc
      /\ fHovered \in DOMAIN flora => fHovered \in fLit
  BY DEF FloraInv, FloraHoverOK, FloraOK, FloraAssumption
<1>4. CASE ClearFloraHover
  BY <1>3, <1>4 DEF ClearFloraHover, FloraHoverOK
<1>5. ASSUME NEW o \in InBox(s), fHovered' = o,
             fLit' = IF o = fHovered THEN fLit ELSE (fLit \ {fHovered}) \cup {o}
      PROVE  FloraHoverOK'
  BY <1>1, <1>2, <1>3, <1>5 DEF FloraHoverOK
<1> QED
  BY <1>4, <1>5 DEF PickNearestFlora

\* OnMouseMove
LEMMA MoveFloraStripperOK ==
  ASSUME FloraAssumption, FloraInv, NEW s \in Spots \cup {NoSpot}, MoveFloraStripper(s)
  PROVE  FloraInv' /\ StillTells
<1>1. /\ Strips /\ aim' = s
      /\ UNCHANGED <<fPainting, fBrush, fLeft, fScreen, fCancel, fPolicy, fLoaded>>
  BY DEF MoveFloraStripper, fDirector
<1>2. fUndo' = fUndo /\ fBrush \in BOOLEAN /\ fLeft \in BOOLEAN
  BY <1>1 DEF fPainting, FloraInv, FloraScreenOK
<1>3. CASE fBrush
  <2> DEFINE S == IF fLeft THEN InCircle(s) ELSE {}
  <2>1. PICK order \in Orders(S) : DeleteFlora(order) /\ fLit' = fLit \ ({fHovered} \cup Range(order))
    BY <1>3 DEF MoveFloraStripper
  <2>2. S \subseteq DOMAIN flora /\ S \subseteq FloraOcc
    BY DEF InCircle, InBox, FloraInv, FloraOK
  <2>3. order \in Seq(DOMAIN flora)
    <3> HIDE DEF S
    <3>1. order \in Seq(S)
      BY <2>1, <2>2, OrdersOK
    <3>2. DOMAIN order = 1 .. Len(order) /\ Len(order) \in Nat /\ \A i \in 1 .. Len(order) : order[i] \in S
      BY <3>1, LenProperties, ElementOfSeq
    <3>3. order \in [1 .. Len(order) -> DOMAIN flora]
      BY <2>2, <3>1, <3>2, LenProperties
    <3> QED
      BY <3>2, <3>3, IsASeq
  <2>4. /\ FloraOK(flora') /\ Alone(flora', OccsOf(fUndo)) /\ fDeleted' \in Seq(Plants)
    BY <2>1, <2>3, DeleteFloraOK
  <2>5. fHovered' = NoPlant
    BY <1>3 DEF MoveFloraStripper
  <2>6. FloraHoverOK'
    BY <1>1, <1>2, <2>1, <2>5 DEF FloraInv, FloraHoverOK, Strips
  <2> QED
    BY <1>1, <1>2, <2>4, <2>6, FloraStripperRest
<1>4. CASE ~fBrush
  <2>1. PickNearestFlora(s) /\ flora' = flora /\ fDeleted' = fDeleted
    BY <1>4 DEF MoveFloraStripper
  <2>2. ~fLeft
    BY <1>4 DEF FloraInv, FloraHoverOK
  <2>3. FloraHoverOK'
    BY <1>1, <1>2, <1>4, <2>1, <2>2, PickNearestFloraOK
  <2>4. FloraOK(flora') /\ Alone(flora', OccsOf(fUndo)) /\ fDeleted' \in Seq(Plants)
    BY <2>1 DEF FloraInv, FloraScreenOK
  <2> QED
    BY <1>1, <1>2, <2>3, <2>4, FloraStripperRest
<1> QED
  BY <1>3, <1>4

\* OnMouseDownL in brush mode.
LEMMA FloraBrushClickOK ==
  ASSUME FloraAssumption, FloraInv, FloraBrushClick
  PROVE  FloraInv' /\ StillTells
<1>1. /\ Strips /\ fBrush /\ fLeft' = TRUE
      /\ UNCHANGED <<fPainting, fHovered, fBrush, aim, fScreen, fPolicy, fLoaded>>
  BY DEF FloraBrushClick, fDirector
<1>2. fUndo' = fUndo /\ fHovered = NoPlant /\ fBrush' \in BOOLEAN /\ aim' \in Spots \cup {NoSpot}
  BY <1>1 DEF fPainting, FloraInv, FloraScreenOK, FloraHoverOK
<1>3. PICK order \in Orders(InCircle(aim)) : DeleteFlora(order) /\ fLit' = fLit \ Range(order)
  BY DEF FloraBrushClick
<1>4. InCircle(aim) \subseteq DOMAIN flora /\ InCircle(aim) \subseteq FloraOcc
  BY DEF InCircle, InBox, FloraInv, FloraOK
<1>5. order \in Seq(DOMAIN flora)
  <2>1. order \in Seq(InCircle(aim))
    BY <1>3, <1>4, OrdersOK
  <2>2. DOMAIN order = 1 .. Len(order) /\ Len(order) \in Nat /\ \A i \in 1 .. Len(order) : order[i] \in InCircle(aim)
    BY <2>1, LenProperties, ElementOfSeq
  <2>3. order \in [1 .. Len(order) -> DOMAIN flora]
    BY <1>4, <2>1, <2>2, LenProperties
  <2> QED
    BY <2>2, <2>3, IsASeq
<1>6. /\ FloraOK(flora') /\ Alone(flora', OccsOf(fUndo)) /\ fDeleted' \in Seq(Plants)
  BY <1>3, <1>5, DeleteFloraOK
<1>7. FloraHoverOK'
  BY <1>1, <1>2, <1>3 DEF FloraInv, FloraHoverOK, Strips
<1> QED
  BY <1>1, <1>2, <1>6, <1>7, FloraStripperRest

\* DeleteHoveredFlora_
LEMMA FloraSingleClickOK ==
  ASSUME FloraAssumption, FloraInv, FloraSingleClick
  PROVE  FloraInv' /\ StillTells
<1>1. /\ Strips /\ ~fBrush /\ fHovered' = NoPlant /\ fLit' = fLit \ {fHovered}
      /\ UNCHANGED <<fPainting, fBrush, fLeft, aim, fScreen, fPolicy, fLoaded>>
  BY DEF FloraSingleClick, fDirector
<1>2. fUndo' = fUndo /\ fBrush' \in BOOLEAN /\ fLeft' \in BOOLEAN /\ aim' \in Spots \cup {NoSpot}
  BY <1>1 DEF fPainting, FloraInv, FloraScreenOK
<1>3. FloraOK(flora') /\ Alone(flora', OccsOf(fUndo)) /\ fDeleted' \in Seq(Plants)
  <2>1. CASE fHovered \in DOMAIN flora
    <3>1. <<fHovered>> \in Seq(DOMAIN flora)
      BY <2>1
    <3> QED
      BY <2>1, <3>1, DeleteFloraOK DEF FloraSingleClick
  <2>2. CASE fHovered \notin DOMAIN flora
    BY <2>2 DEF FloraSingleClick, FloraInv, FloraScreenOK
  <2> QED
    BY <2>1, <2>2
<1>4. FloraHoverOK'
  BY <1>1, <1>2 DEF FloraInv, FloraHoverOK, Strips
<1> QED
  BY <1>1, <1>2, <1>3, <1>4, FloraStripperRest

\* Something grows, planted by nobody's placement.
LEMMA GrownOK ==
  ASSUME FloraAssumption, FloraInv, NEW o \in FreshFlora, NEW p \in Plants,
         flora' = WithPlant(flora, o, p)
  PROVE  /\ FloraOK(flora') /\ Alone(flora', OccsOf(fUndo))
         /\ DOMAIN flora' = DOMAIN flora \cup {o}
         /\ \A q \in DOMAIN flora : flora'[q] = flora[q]
<1>1. o \in FloraOcc /\ o \notin DOMAIN flora /\ o \notin OccsOf(fUndo)
  BY DEF FreshFlora, PendingOcc, OccsOf
<1>2. FloraOK(flora) /\ Alone(flora, OccsOf(fUndo))
  BY DEF FloraInv
<1>3. Alone(flora', OccsOf(fUndo))
  BY <1>1, <1>2, JoinsAlone
<1> QED
  BY <1>1, <1>2, <1>3 DEF WithPlant, FloraOK

\* OnMouseUpL, B, Ctrl+Z and Esc.
LEMMA FloraKeysOK ==
  ASSUME FloraAssumption, FloraInv,
         FloraButtonUp \/ ToggleFloraMode \/ UndoFloraDeletion \/ FloraUndoFails \/ EscInFloraStripper
  PROVE  FloraInv' /\ StillTells
<1>1. FloraOK(flora) /\ Alone(flora, OccsOf(fUndo)) /\ fDeleted \in Seq(Plants)
      /\ fBrush \in BOOLEAN /\ fLeft \in BOOLEAN /\ aim \in Spots \cup {NoSpot}
  BY DEF FloraInv, FloraScreenOK
<1>2. CASE FloraButtonUp
  <2>1. /\ fLeft /\ fLeft' = FALSE
        /\ UNCHANGED <<flora, fLit, fPainting, fHovered, fDeleted, fBrush, aim, fScreen, fPolicy, fLoaded>>
    BY <1>2 DEF FloraButtonUp, fDirector
  <2>2. Strips /\ fUndo' = fUndo
    BY <2>1 DEF FloraInv, FloraHoverOK, fPainting
  <2>3. FloraHoverOK'
    BY <2>1, <2>2 DEF FloraInv, FloraHoverOK, Strips, InBox
  <2> QED
    BY <1>1, <2>1, <2>2, <2>3, FloraStripperRest
<1>3. CASE ToggleFloraMode
  <2>1. /\ Strips /\ fBrush' = ~fBrush /\ fLeft' = FALSE
        /\ UNCHANGED <<flora, fPainting, fDeleted, aim, fScreen, fPolicy, fLoaded>>
    BY <1>3 DEF ToggleFloraMode, fDirector
  <2>2. fUndo' = fUndo
    BY <2>1 DEF fPainting
  <2>3. FloraHoverOK'
    <3>1. CASE fBrush'
      <4>1. fHovered' = NoPlant /\ fLit' = fLit \ {fHovered}
        BY <1>3, <3>1 DEF ToggleFloraMode, ClearFloraHover
      <4> QED
        BY <2>1, <2>2, <4>1 DEF FloraInv, FloraHoverOK, Strips
    <3>2. CASE ~fBrush'
      BY <1>3, <2>1, <2>2, <3>2, PickNearestFloraOK DEF ToggleFloraMode
    <3> QED
      BY <3>1, <3>2
  <2> QED
    BY <1>1, <2>1, <2>2, <2>3, FloraStripperRest
<1>4. CASE UndoFloraDeletion \/ FloraUndoFails
  <2>1. /\ Strips /\ fDeleted # <<>> /\ fDeleted' = SubSeq(fDeleted, 1, Len(fDeleted) - 1)
        /\ UNCHANGED <<fLit, fPainting, fHovered, fBrush, fLeft, aim, fScreen, fPolicy, fLoaded>>
    BY <1>4 DEF UndoFloraDeletion, FloraUndoFails, fDirector
  <2>2. fUndo' = fUndo
    BY <2>1 DEF fPainting
  <2>3. Len(fDeleted) \in Nat /\ Len(fDeleted) > 0 /\ \A i \in 1 .. Len(fDeleted) : fDeleted[i] \in Plants
    BY <1>1, <2>1, LenProperties, ElementOfSeq, EmptySeq
  <2>4. fDeleted' \in Seq(Plants) /\ fDeleted[Len(fDeleted)] \in Plants
    <3>1. \A i \in 1 .. Len(fDeleted) - 1 : fDeleted[i] \in Plants
      BY <2>3
    <3> QED
      BY <1>1, <2>1, <2>3, <3>1, SubSeqProperties
  <2>5. /\ FloraOK(flora') /\ Alone(flora', OccsOf(fUndo))
        /\ \A o \in DOMAIN flora' \ DOMAIN flora : o \in FreshFlora
        /\ \A o \in DOMAIN flora' \cap DOMAIN flora : flora'[o] = flora[o]
    <3>1. CASE FloraUndoFails
      BY <1>1, <3>1 DEF FloraUndoFails
    <3>2. CASE UndoFloraDeletion
      <4>1. PICK o \in FreshFlora : flora' = WithPlant(flora, o, fDeleted[Len(fDeleted)])
        BY <3>2 DEF UndoFloraDeletion
      <4> QED
        BY <2>4, <4>1, GrownOK
    <3> QED
      BY <1>4, <3>1, <3>2
  <2>6. FloraHoverOK'
    <3>1. fHovered \notin FreshFlora
      BY DEF FreshFlora
    <3>2. fHovered \in DOMAIN flora' => fHovered \in DOMAIN flora /\ flora'[fHovered] = flora[fHovered]
      BY <2>5, <3>1
    <3>3. fHovered \in DOMAIN flora' /\ fHovered \in InBox(aim) => fHovered \in InBox(aim)'
      BY <2>1, <3>2 DEF InBox
    <3> QED
      BY <2>1, <2>2, <3>2, <3>3 DEF FloraInv, FloraHoverOK, Strips
  <2> QED
    BY <1>1, <2>1, <2>2, <2>4, <2>5, <2>6, FloraStripperRest
<1>5. CASE EscInFloraStripper
  <2>1. /\ Strips /\ fLeft' = FALSE /\ fHovered' = NoPlant /\ fLit' = fLit \ {fHovered}
        /\ UNCHANGED <<flora, fPainting, fDeleted, fBrush, aim, fScreen, fPolicy, fLoaded>>
    BY <1>5 DEF EscInFloraStripper, ClearFloraHover
  <2>2. fUndo' = fUndo
    BY <2>1 DEF fPainting
  <2>3. FloraHoverOK'
    BY <2>1, <2>2 DEF FloraInv, FloraHoverOK, Strips
  <2> QED
    BY <1>1, <2>1, <2>2, <2>3, FloraStripperRest
<1> QED
  BY <1>2, <1>3, <1>4, <1>5


-----------------------------------------------------------------------------
(* Flora: what the director, the game and the simulator keep.              *)

\* View3D drops the control, when the painter's policy has left the city c.
LEMMA FloraDropOK ==
  ASSUME FloraAssumption, FloraInv, NEW c, FloraOK(c), GroupsOK(fUndo'), Alone(c, OccsOf(fUndo')),
         FloraToolDeactivates(c), fScreen' \in {"None", "Stripper"}, fScreen' # "None" => fLoaded,
         fLit' \subseteq OccsOf(fUndo'), OccsOf(fUndo') \subseteq OccsOf(fUndo)
  PROVE  FloraInv' /\ StillTells
<1>1. /\ fPreview' = NoPreview /\ flora' = NoPreviewIn(c)
      /\ fState' = "Off" /\ fCursor' \in {fCursor, NoSpot} /\ kind' = NoKind /\ model' = FALSE
      /\ fHovered' = NoPlant /\ fLeft' = FALSE
      /\ UNCHANGED <<fDeleted, fBrush, aim, fPolicy, fLoaded>>
  BY DEF FloraToolDeactivates, DestroyPreview
<1>2. FloraPreviewOK' /\ Tells'
  BY <1>1, HiddenOK
<1>3. FloraOK(flora') /\ Alone(flora', OccsOf(fUndo'))
  BY <1>1, NoPreviewInOK
<1>4. FloraScreenOK'
  BY <1>1 DEF FloraInv, FloraScreenOK, Paints
<1>5. OccsOf(fUndo') \subseteq FloraOcc
  BY OccsOfIs
<1>6. FloraHoverOK'
  BY <1>1, <1>5 DEF FloraHoverOK
<1> QED
  BY <1>2, <1>3, <1>4, <1>6 DEF FloraInv, StillTells

\* ApplySwitchPolicy_ and the painter's Deactivate.
LEMMA FloraPolicyOK ==
  ASSUME FloraAssumption, FloraInv, Paints, NEW discarded \in BOOLEAN, FloraAfterPolicy(discarded),
         fScreen' \in {"None", "Stripper"}
  PROVE  FloraInv' /\ StillTells
<1> DEFINE c == IF discarded THEN WithoutFlora(flora, PendingOcc) ELSE flora
<1>1. FloraToolDeactivates(c)
  BY DEF FloraAfterPolicy
<1>2. fHovered = NoPlant /\ fLit \subseteq OccsOf(fUndo) /\ PendingOcc = OccsOf(fUndo)
  BY LitIsPending DEF Paints, Strips
<1>3. FloraOK(flora) /\ Alone(flora, OccsOf(fUndo)) /\ GroupsOK(fUndo) /\ fLoaded
  BY DEF FloraInv, FloraScreenOK, Paints
<1>4. FloraOK(c) /\ Alone(c, OccsOf(fUndo))
  <2>1. Alone(WithoutFlora(flora, PendingOcc), OccsOf(fUndo))
    BY <1>3, StillAlone
  <2>2. FloraOK(WithoutFlora(flora, PendingOcc))
    BY <1>3 DEF WithoutFlora, Restrict, FloraOK
  <2> QED
    BY <1>3, <2>1, <2>2
<1>5. /\ GroupsOK(fUndo') /\ OccsOf(fUndo') \subseteq OccsOf(fUndo)
      /\ fLit' \subseteq OccsOf(fUndo')
  <2>1. CASE fPolicy = "KeepPending"
    BY <1>2, <1>3, <2>1 DEF FloraAfterPolicy
  <2>2. CASE fPolicy # "KeepPending"
    <3>1. fUndo' = <<>> /\ fLit' = {}
      BY <1>2, <2>2 DEF FloraAfterPolicy
    <3> QED
      BY <3>1, NoGroups
  <2> QED
    BY <2>1, <2>2
<1>6. Alone(c, OccsOf(fUndo'))
  <2> HIDE DEF c
  <2> QED
    BY <1>4, <1>5, FewerAlone
<1> HIDE DEF c
<1> QED
  BY <1>1, <1>3, <1>4, <1>5, <1>6, FloraDropOK

\* StartFloraStripping, StopFloraPainting, StopFloraStripping and the tick.
LEMMA FloraSwitchOK ==
  ASSUME FloraAssumption, FloraInv,
         \/ StartFloraStripping \/ StopFloraPainting
         \/ \E t \in {"Painter", "Stripper"} : FloraToolDropped(t) \/ FloraTick(t)
  PROVE  FloraInv' /\ StillTells
<1>1. /\ FloraOK(flora) /\ Alone(flora, OccsOf(fUndo)) /\ GroupsOK(fUndo)
      /\ PendingOcc = OccsOf(fUndo) /\ fLit \subseteq OccsOf(fUndo) \cup {fHovered}
  BY DEF FloraInv, FloraHoverOK, PendingOcc, OccsOf
<1>2. CASE StartFloraStripping
  <2>1. fLoaded /\ fScreen' = "Stripper"
    BY <1>2 DEF StartFloraStripping
  <2>2. CASE Paints
    <3>1. FloraAfterPolicy(fPolicy = "Discard")
      BY <1>2, <2>2 DEF StartFloraStripping
    <3> QED
      BY <2>1, <2>2, <3>1, FloraPolicyOK
  <2>3. CASE ~Paints
    <3>1. /\ fHovered' = NoPlant /\ fLit' = fLit \ {fHovered} /\ fLeft' = FALSE
          /\ UNCHANGED <<flora, fPainting, fDeleted, fBrush, aim, fPolicy, fLoaded>>
      BY <1>2, <2>3 DEF StartFloraStripping, ClearFloraHover
    <3>2. UNCHANGED <<fState, kind, model, fCursor, fPreview, fUndo>>
      BY <3>1 DEF fPainting
    <3>3. fPreview.occ = NoPlant /\ ~fPreview.visible
      BY <2>3 DEF FloraInv, FloraPreviewOK
    <3>4. FloraPreviewOK' /\ Tells'
      BY <3>2, <3>3 DEF FloraInv, FloraPreviewOK, Tells
    <3>5. FloraScreenOK'
      BY <2>1, <3>1, <3>2 DEF FloraInv, FloraScreenOK, Paints
    <3>6. FloraHoverOK'
      BY <1>1, <3>1, <3>2 DEF FloraInv, FloraHoverOK
    <3> QED
      BY <1>1, <3>1, <3>2, <3>4, <3>5, <3>6 DEF FloraInv, StillTells
  <2> QED
    BY <2>2, <2>3
<1>3. CASE StopFloraPainting
  <2>1. /\ fLoaded /\ ~Strips /\ fUndo' = <<>> /\ fLit' = fLit \ OccsOf(fUndo)
        /\ FloraToolDeactivates(WithoutFlora(flora, OccsOf(fUndo))) /\ fScreen' = "None"
    BY <1>1, <1>3 DEF StopFloraPainting
  <2>2. GroupsOK(fUndo') /\ OccsOf(fUndo') = {} /\ fLit' = {}
    <3>1. fLit \subseteq OccsOf(fUndo)
      BY <2>1, LitIsPending
    <3> QED
      BY <2>1, <3>1, NoGroups
  <2>3. FloraOK(WithoutFlora(flora, OccsOf(fUndo)))
    BY <1>1 DEF WithoutFlora, Restrict, FloraOK
  <2>4. Alone(WithoutFlora(flora, OccsOf(fUndo)), OccsOf(fUndo'))
    BY <2>2 DEF Alone
  <2> QED
    BY <2>1, <2>2, <2>3, <2>4, FloraDropOK
<1>4. ASSUME NEW t \in {"Painter", "Stripper"}, FloraToolDropped(t) \/ FloraTick(t), fScreen = t
      PROVE  FloraInv' /\ StillTells
  <2>1. /\ fLit' = fLit \ {fHovered} /\ fUndo' = fUndo
        /\ FloraToolDeactivates(flora) /\ fScreen' = "None"
    BY <1>4 DEF FloraToolDropped, FloraTick
  <2> QED
    BY <1>1, <2>1, FloraDropOK
<1>5. ASSUME NEW t \in {"Painter", "Stripper"}, FloraTick(t), fScreen # t
      PROVE  FloraInv' /\ StillTells
  <2>1. UNCHANGED <<flora, fLit, fPainting, fStripping, fScreen, fPolicy, fLoaded>>
    BY <1>5 DEF FloraTick
  <2>2. UNCHANGED <<fState, kind, model, fCursor, fPreview, fUndo, fHovered, fDeleted, fBrush, fLeft, aim>>
    BY <2>1 DEF fPainting, fStripping
  <2>3. FloraPreviewOK' /\ FloraScreenOK' /\ FloraHoverOK'
    BY <2>1, <2>2 DEF FloraInv, FloraPreviewOK, FloraScreenOK, FloraHoverOK, Paints, Strips, ShowsModel, InBox
  <2>4. Tells => Tells'
    BY <2>1, <2>2 DEF Tells, NoPreviewIn
  <2> QED
    BY <1>1, <2>1, <2>2, <2>3, <2>4 DEF FloraInv, StillTells
<1> QED
  BY <1>2, <1>3, <1>4, <1>5 DEF FloraToolDropped

\* StartFloraPainting
LEMMA StartFloraPaintingOK ==
  ASSUME FloraAssumption, FloraInv, NEW to \in {"Direct", "Sketch"}, StartFloraPainting(to)
  PROVE  FloraInv' /\ StillTells
<1> DEFINE c == IF Paints /\ fPolicy = "Discard" THEN WithoutFlora(flora, PendingOcc) ELSE flora
<1>1. /\ fLoaded /\ fState' = to /\ kind' \in Kinds /\ model' = TRUE
      /\ fCursor' \in {fCursor, NoSpot} /\ fHovered' = NoPlant /\ fLeft' = FALSE
      /\ fScreen' = "Painter"
      /\ UNCHANGED <<fDeleted, fBrush, aim, fPolicy, fLoaded>>
      /\ SyncFloraPreview(c)
  BY DEF StartFloraPainting
<1>2. /\ FloraOK(flora) /\ Alone(flora, OccsOf(fUndo)) /\ GroupsOK(fUndo)
      /\ PendingOcc = OccsOf(fUndo) /\ fLit \subseteq OccsOf(fUndo) \cup {fHovered}
  BY DEF FloraInv, FloraHoverOK, PendingOcc, OccsOf
<1>3. /\ GroupsOK(fUndo') /\ OccsOf(fUndo') \subseteq OccsOf(fUndo)
      /\ fLit' \subseteq OccsOf(fUndo')
  <2>1. CASE Paints /\ fPolicy # "KeepPending"
    <3>1. fLit \subseteq OccsOf(fUndo)
      BY <2>1, LitIsPending DEF Paints, Strips
    <3>2. fUndo' = <<>> /\ fLit' = {}
      BY <1>2, <2>1, <3>1 DEF StartFloraPainting
    <3> QED
      BY <3>2, NoGroups
  <2>2. CASE ~(Paints /\ fPolicy # "KeepPending")
    <3>1. fUndo' = fUndo /\ fLit' = fLit \ {fHovered}
      BY <2>2 DEF StartFloraPainting
    <3> QED
      BY <1>2, <3>1
  <2> QED
    BY <2>1, <2>2
<1>4. FloraOK(c) /\ Alone(c, OccsOf(fUndo))
  <2>1. Alone(WithoutFlora(flora, PendingOcc), OccsOf(fUndo))
    BY <1>2, StillAlone
  <2>2. FloraOK(WithoutFlora(flora, PendingOcc))
    BY <1>2 DEF WithoutFlora, Restrict, FloraOK
  <2> QED
    BY <1>2, <2>1, <2>2
<1>5. fPreview.occ # NoPlant => fPreview.occ \in DOMAIN c
  BY <1>2 DEF FloraInv, FloraPreviewOK, WithoutFlora, Restrict
<1> HIDE DEF c
<1>6. Alone(c, OccsOf(fUndo'))
  BY <1>3, <1>4, FewerAlone
<1>7. Paints' /\ FloraPreviewOK
  BY <1>1 DEF Paints, FloraInv
<1>8. /\ FloraOK(flora') /\ Alone(flora', OccsOf(fUndo')) /\ FloraPreviewOK' /\ Tells'
  BY <1>1, <1>3, <1>4, <1>5, <1>6, <1>7, SyncFloraOK
<1>9. FloraScreenOK'
  BY <1>1 DEF FloraInv, FloraScreenOK, Paints
<1>10. OccsOf(fUndo') \subseteq FloraOcc
  BY <1>3, OccsOfIs
<1>11. FloraHoverOK'
  BY <1>1, <1>3, <1>10 DEF FloraHoverOK
<1> QED
  BY <1>3, <1>8, <1>9, <1>11 DEF FloraInv, StillTells

\* PreCityShutdown_ and PostCityInit_: nothing of the last city is kept.
LEMMA FloraCityOK ==
  ASSUME FloraAssumption, FloraInv, FloraCityShutdown \/ FloraCityInit
  PROVE  FloraInv' /\ StillTells
<1>1. FloraOK(flora) /\ PendingOcc = OccsOf(fUndo) /\ fLit \subseteq OccsOf(fUndo) \cup {fHovered}
  BY DEF FloraInv, FloraHoverOK, PendingOcc, OccsOf
<1>2. CASE FloraCityShutdown
  <2>1. /\ fLoaded' = FALSE /\ fScreen' = "None" /\ fUndo' = <<>> /\ fDeleted' = <<>>
        /\ fLit' = {} /\ fPreview' = NoPreview /\ fState' = "Off" /\ fHovered' = NoPlant
        /\ fLeft' = FALSE /\ fCursor' = NoSpot /\ kind' = NoKind /\ model' = FALSE
        /\ UNCHANGED <<fBrush, aim, fPolicy>>
    BY <1>1, <1>2 DEF FloraCityShutdown
  <2>2. flora' = WithoutFlora(flora, PendingOcc \cup {fPreview.occ})
    BY <1>2 DEF FloraCityShutdown
  <2>3. FloraOK(flora')
    BY <1>1, <2>2 DEF WithoutFlora, Restrict, FloraOK
  <2>4. GroupsOK(fUndo') /\ OccsOf(fUndo') = {}
    BY <2>1, NoGroups
  <2>5. Alone(flora', OccsOf(fUndo'))
    BY <2>4 DEF Alone
  <2>6. FloraPreviewOK' /\ Tells'
    BY <2>1, HiddenOK
  <2>7. fDeleted' \in Seq(Plants)
    BY <2>1, EmptySeq
  <2>8. FloraScreenOK' /\ FloraHoverOK'
    BY <2>1, <2>4, <2>7 DEF FloraInv, FloraScreenOK, FloraHoverOK, Paints
  <2> QED
    BY <2>3, <2>4, <2>5, <2>6, <2>8 DEF FloraInv, StillTells
<1>3. CASE FloraCityInit
  <2>1. /\ ~fLoaded /\ fLoaded' = TRUE /\ flora' = Wild /\ fLit' = {}
        /\ UNCHANGED <<fPainting, fStripping, fScreen, fPolicy>>
    BY <1>3 DEF FloraCityInit
  <2>2. UNCHANGED <<fState, kind, model, fCursor, fPreview, fUndo, fHovered, fDeleted, fBrush, fLeft, aim>>
    BY <2>1 DEF fPainting, fStripping
  <2>3. /\ fScreen = "None" /\ fPreview.occ = NoPlant /\ ~fPreview.visible
        /\ fHovered = NoPlant /\ OccsOf(fUndo) = {}
    BY <2>1 DEF FloraInv, FloraScreenOK, FloraPreviewOK, FloraHoverOK, Paints, Strips
  <2>4. FloraOK(flora')
    BY <2>1 DEF FloraAssumption, FloraOK, Range
  <2>5. Alone(flora', OccsOf(fUndo'))
    BY <2>2, <2>3 DEF Alone
  <2>6. FloraPreviewOK' /\ Tells'
    BY <2>2, <2>3 DEF FloraInv, FloraPreviewOK, Tells
  <2>7. FloraScreenOK' /\ FloraHoverOK'
    BY <2>1, <2>2, <2>3 DEF FloraInv, FloraScreenOK, FloraHoverOK, Paints, Strips
  <2> QED
    BY <2>2, <2>4, <2>5, <2>6, <2>7 DEF FloraInv, StillTells
<1> QED
  BY <1>2, <1>3

\* The simulator lets plants die and grow, which the preview may not tell.
LEMMA NatureOK ==
  ASSUME FloraAssumption, FloraInv, Nature
  PROVE  FloraInv'
<1>1. FloraOK(flora) /\ Alone(flora, OccsOf(fUndo))
  BY DEF FloraInv
<1>2. UNCHANGED <<fPainting, fStripping, fDirector>>
  BY DEF Nature, Dies, Grows
<1>3. UNCHANGED <<fState, kind, model, fCursor, fPreview, fUndo, fHovered, fDeleted, fBrush, fLeft, aim,
                  fScreen, fCancel, fPolicy, fLoaded>>
  BY <1>2 DEF fPainting, fStripping, fDirector
<1>4. FloraScreenOK'
  BY <1>3 DEF FloraInv, FloraScreenOK, Paints
<1>5. ASSUME NEW o \in FloraOcc, Dies(o) PROVE FloraInv'
  <2>1. o # fPreview.occ /\ flora' = WithoutFlora(flora, {o}) /\ fLit' = fLit \ {o}
    BY <1>5 DEF Dies
  <2>2. /\ DOMAIN flora' = DOMAIN flora \ {o} /\ \A q \in DOMAIN flora' : flora'[q] = flora[q]
        /\ FloraOK(flora')
    BY <1>1, <2>1 DEF WithoutFlora, Restrict, FloraOK
  <2>3. Alone(flora', OccsOf(fUndo))
    BY <1>1, <2>1, StillAlone
  <2>4. FloraPreviewOK'
    BY <1>3, <2>1, <2>2 DEF FloraInv, FloraPreviewOK, Paints, ShowsModel
  <2>5. FloraHoverOK'
    BY <1>3, <2>1, <2>2 DEF FloraInv, FloraHoverOK, Strips, InBox
  <2> QED
    BY <1>3, <1>4, <2>2, <2>3, <2>4, <2>5 DEF FloraInv
<1>6. ASSUME NEW p \in Sprouts, Grows(p) PROVE FloraInv'
  <2>1. PICK o \in FreshFlora : flora' = WithPlant(flora, o, p)
    BY <1>6 DEF Grows
  <2>2. p \in Plants /\ fLit' = fLit /\ o # fHovered
    BY <1>6 DEF Grows, FloraAssumption, FreshFlora
  <2>3. /\ FloraOK(flora') /\ Alone(flora', OccsOf(fUndo))
        /\ DOMAIN flora' = DOMAIN flora \cup {o}
        /\ \A q \in DOMAIN flora : flora'[q] = flora[q]
    BY <2>1, <2>2, GrownOK
  <2>4. FloraPreviewOK'
    BY <1>3, <2>3 DEF FloraInv, FloraPreviewOK, Paints, ShowsModel
  <2>5. FloraHoverOK'
    BY <1>3, <2>2, <2>3 DEF FloraInv, FloraHoverOK, Strips, InBox
  <2> QED
    BY <1>3, <1>4, <2>3, <2>4, <2>5 DEF FloraInv
<1> QED
  BY <1>5, <1>6 DEF Nature

\* No tool is on screen at first.
LEMMA FloraStart ==
  ASSUME FloraAssumption, FloraInit
  PROVE  FloraInv
<1>1. FloraOK(flora) /\ fUndo = <<>> /\ fDeleted \in Seq(Plants)
  BY EmptySeq DEF FloraInit, FloraAssumption, FloraOK, Range
<1>2. GroupsOK(fUndo) /\ OccsOf(fUndo) = {}
  BY <1>1, NoGroups
<1>3. Alone(flora, OccsOf(fUndo))
  BY <1>2 DEF Alone
<1>4. FloraPreviewOK
  BY DEF FloraInit, NoPreview, FloraPreviewOK
<1>5. FloraScreenOK /\ FloraHoverOK
  BY <1>1, <1>2 DEF FloraInit, FloraScreenOK, FloraHoverOK, Paints, Strips
<1> QED
  BY <1>1, <1>2, <1>3, <1>4, <1>5 DEF FloraInv

\* Each step keeps the invariant, and what the preview tells.
LEMMA FloraStep ==
  ASSUME FloraAssumption, FloraInv, [FloraNext]_fVars
  PROVE  FloraInv' /\ (StillTells \/ Nature)
<1>1. CASE FloraPainter
  BY <1>1, FloraClickOK, SyncFloraKeeps, PlaceSketchOK, FloraUndoSteps DEF FloraPainter
<1>2. CASE FloraStripper
  BY <1>2, MoveFloraStripperOK, FloraBrushClickOK, FloraSingleClickOK, FloraKeysOK DEF FloraStripper
<1>3. CASE FloraDirector
  BY <1>3, StartFloraPaintingOK, FloraSwitchOK, FloraCityOK DEF FloraDirector
<1>4. CASE Nature
  BY <1>4, NatureOK
<1>5. CASE UNCHANGED fVars
  <2>1. UNCHANGED <<flora, fLit, fState, kind, model, fCursor, fPreview, fUndo, fHovered, fDeleted, fBrush,
                    fLeft, aim, fScreen, fCancel, fPolicy, fLoaded>>
    BY <1>5 DEF fVars, fPainting, fStripping, fDirector
  <2>2. FloraPreviewOK' /\ FloraScreenOK' /\ FloraHoverOK'
    BY <2>1 DEF FloraInv, FloraPreviewOK, FloraScreenOK, FloraHoverOK, Paints, Strips, ShowsModel, InBox
  <2>3. Tells => Tells'
    BY <2>1 DEF Tells, NoPreviewIn
  <2> QED
    BY <2>1, <2>2, <2>3 DEF FloraInv, StillTells
<1> QED
  BY <1>1, <1>2, <1>3, <1>4, <1>5 DEF FloraNext

\* The invariant of the flora tools.
LEMMA FloraAlways ==
  ASSUME FloraAssumption
  PROVE  FloraSpec => []FloraInv
<1>1. FloraInit => FloraInv
  BY FloraStart
<1>2. FloraInv /\ [FloraNext]_fVars => FloraInv'
  BY FloraStep
<1> QED
  BY <1>1, <1>2, PTL DEF FloraSpec

\* What follows from it for the flora tools: the types, the preview and the hover.
LEMMA FloraFollows ==
  ASSUME FloraAssumption, FloraInv
  PROVE  FloraTypeOK /\ PreviewIsNeverPlanted /\ FloraHoverIsAimed /\ NoCrowd
<1>1. PendingOcc = OccsOf(fUndo)
  BY DEF PendingOcc, OccsOf
<1>2. NoCrowd
  BY <1>1 DEF FloraInv, Alone, NoCrowd
<1>3. FloraHoverIsAimed
  BY <1>1 DEF FloraInv, FloraHoverOK, FloraHoverIsAimed
<1>4. PreviewIsNeverPlanted
  BY <1>1 DEF FloraInv, FloraPreviewOK, FloraHoverOK, FloraScreenOK, PreviewIsNeverPlanted, Paints, Strips
<1>5. FloraTypeOK
  BY DEF FloraInv, FloraOK, GroupsOK, FloraPreviewOK, FloraScreenOK, FloraHoverOK, FloraTypeOK, Range
<1> QED
  BY <1>2, <1>3, <1>4, <1>5

\* A batch that is planted stands alone, each plant on a spot of its own.
THEOREM NoCrowdTheorem ==
  ASSUME FloraAssumption
  PROVE  FloraSpec => []NoCrowd
BY FloraFollows, FloraAlways, PTL

\* A visible preview stands where the next click may plant its kind.
THEOREM PreviewTheorem ==
  ASSUME FloraAssumption
  PROVE  FloraSpec => PreviewTellsClick
<1>1. FloraInv /\ [FloraNext]_fVars => [StillTells \/ Nature]_fVars
  BY FloraStep
<1>2. [StillTells \/ Nature]_fVars => [Tells \/ fCursor' \in Spots \ {fCursor} => Tells' \/ Nature]_fVars
  BY DEF StillTells
<1> QED
  BY <1>1, <1>2, FloraAlways, PTL DEF FloraSpec, PreviewTellsClick

-----------------------------------------------------------------------------
(* No plant is lost.                                                       *)

\* The plants p of the city c.
Grown(c, p) == Valued(DOMAIN c, c, p)

LEMMA FloraTotalIs ==
  ASSUME NEW p
  PROVE  /\ FloraTotal(p) = Cardinality(Grown(flora, p)) + Cardinality(At(fDeleted, p))
         /\ FloraTotal(p)' = Cardinality(Grown(flora', p)) + Cardinality(At(fDeleted', p))
  BY DEF FloraTotal, Grown, Valued, At

LEMMA GrownFinite ==
  ASSUME FloraAssumption, FloraInv, NEW p
  PROVE  IsFiniteSet(Grown(flora, p)) /\ Cardinality(Grown(flora, p)) \in Nat
<1>1. Grown(flora, p) \subseteq FloraOcc
  BY DEF FloraInv, FloraOK, Grown, Valued
<1> QED
  BY <1>1, FS_Subset, FS_CardinalityType DEF FloraAssumption

LEMMA SameFlora ==
  ASSUME flora' = flora, fDeleted' = fDeleted, NEW p
  PROVE  FloraTotal(p)' = FloraTotal(p)
  BY FloraTotalIs

\* An order repeats nothing.
LEMMA OrdersOnce ==
  ASSUME FloraAssumption, FloraInv, NEW S, S \subseteq DOMAIN flora, NEW order \in Orders(S)
  PROVE  order \in Seq(DOMAIN flora) /\ IsInjective(order) /\ Range(order) = S
<1>1. S \subseteq FloraOcc
  BY DEF FloraInv, FloraOK
<1>2. order \in Seq(S) /\ Range(order) = S
  BY <1>1, OrdersOK
<1>3. DOMAIN order = 1 .. Len(order) /\ Len(order) \in Nat /\ \A i \in 1 .. Len(order) : order[i] \in S
  BY <1>2, LenProperties, ElementOfSeq
<1>4. order \in [1 .. Len(order) -> DOMAIN flora]
  BY <1>2, <1>3, LenProperties
<1>5. order \in Seq(DOMAIN flora)
  BY <1>3, <1>4, IsASeq
<1>6. IsInjective(order)
  BY DEF Orders, Bijection, Injection
<1> QED
  BY <1>2, <1>5, <1>6

\* What is demolished is recorded, once and as it stood; the rest stays.
LEMMA DemolishedTotal ==
  ASSUME FloraAssumption, FloraInv, NEW order \in Seq(DOMAIN flora), IsInjective(order),
         DeleteFlora(order), NEW p
  PROVE  /\ FloraTotal(p)' = FloraTotal(p)
         /\ DOMAIN flora \ DOMAIN flora' \subseteq Range(order)
<1>1. PICK kept \in SUBSET Range(order) :
        LET gone == Picked(order, {i \in DOMAIN order : order[i] \notin kept})
        IN /\ flora' = WithoutFlora(flora, Range(gone))
           /\ fDeleted' = fDeleted \o [i \in DOMAIN gone |-> flora[gone[i]]]
  BY DEF DeleteFlora
<1>2. PICK I : I = {i \in DOMAIN order : order[i] \notin kept}
  OBVIOUS
<1>3. I \in SUBSET DOMAIN order
  BY <1>2
<1>4. PICK gone : gone = Picked(order, I)
  OBVIOUS
<1>5. PICK n : n = Cardinality(I)
  OBVIOUS
<1>6. gone \in Seq(DOMAIN flora) /\ DOMAIN gone = 1 .. n /\ n \in Nat /\ Len(gone) = n
  BY <1>3, <1>4, <1>5, PickedOK
<1>7. Range(gone) = {order[i] : i \in I} /\ IsInjective(gone)
  BY <1>3, <1>4, PickedOnce
<1>8. PICK G : G = Range(gone)
  OBVIOUS
<1>9. PICK w : w = [i \in 1 .. n |-> flora[gone[i]]]
  OBVIOUS
<1>10. flora' = WithoutFlora(flora, G) /\ fDeleted' = fDeleted \o w
  BY <1>1, <1>2, <1>4, <1>6, <1>8, <1>9
<1>11. \A i \in 1 .. n : gone[i] \in DOMAIN flora
  BY <1>6, ElementOfSeq
<1>12. G \subseteq DOMAIN flora /\ G \subseteq Range(order)
  <2>1. G \subseteq DOMAIN flora
    BY <1>6, <1>8, <1>11 DEF Range
  <2>2. G \subseteq Range(order)
    BY <1>3, <1>7, <1>8 DEF Range
  <2> QED
    BY <2>1, <2>2
<1>13. Lists(gone, n, G)
  <2>1. \A x \in G : \E i \in 1 .. n : gone[i] = x
    BY <1>6, <1>8 DEF Range
  <2>2. \A i \in 1 .. n : gone[i] \in G
    BY <1>6, <1>8 DEF Range
  <2>3. gone = [i \in 1 .. n |-> gone[i]]
    BY <1>6, LenProperties
  <2>4. gone \in [1 .. n -> G]
    BY <2>2, <2>3
  <2>5. \A i, j \in 1 .. n : gone[i] = gone[j] => i = j
    BY <1>6, <1>7 DEF IsInjective
  <2> QED
    BY <2>1, <2>4, <2>5 DEF Lists
<1>14. IsFiniteSet(1 .. n)
  BY <1>6, FiniteUpTo
<1>15. Cardinality(Valued(G, flora, p)) = Cardinality(At(w, p))
  BY <1>9, <1>13, <1>14, OrderedCounts
<1>16. w \in Seq(Plants) /\ fDeleted \in Seq(Plants)
  <2>1. \A i \in 1 .. n : w[i] \in Plants
    BY <1>9, <1>11 DEF FloraInv, FloraOK
  <2>2. w \in [1 .. n -> Plants]
    BY <1>9, <2>1
  <2> QED
    BY <1>6, <2>2, IsASeq DEF FloraInv, FloraScreenOK
<1>17. Cardinality(At(fDeleted', p)) = Cardinality(At(fDeleted, p)) + Cardinality(At(w, p))
  <2>1. Cardinality(At(fDeleted \o w, p)) = Cardinality(At(fDeleted, p)) + Cardinality(At(w, p))
    BY <1>16, AppendedCounts
  <2> QED
    BY <1>10, <2>1
<1>18. DOMAIN flora' = DOMAIN flora \ G /\ \A o \in DOMAIN flora' : flora'[o] = flora[o]
  BY <1>10 DEF WithoutFlora, Restrict
<1>19. /\ Grown(flora', p) = Grown(flora, p) \ Valued(G, flora, p)
       /\ Valued(G, flora, p) \in SUBSET Grown(flora, p)
  BY <1>12, <1>18 DEF Grown, Valued
<1>20. /\ Cardinality(Grown(flora, p)) \in Nat /\ Cardinality(Valued(G, flora, p)) \in Nat
       /\ Cardinality(Grown(flora', p)) = Cardinality(Grown(flora, p)) - Cardinality(Valued(G, flora, p))
  BY <1>19, GrownFinite, Parted
<1>21. Cardinality(At(fDeleted, p)) \in Nat
  BY <1>16, AtFinite
<1>22. FloraTotal(p)' = FloraTotal(p)
  BY <1>15, <1>17, <1>20, <1>21, FloraTotalIs
<1> QED
  BY <1>12, <1>18, <1>22

\* Ctrl+Z: the plant comes back, from the stack.
LEMMA ReplantedTotal ==
  ASSUME FloraAssumption, FloraInv, UndoFloraDeletion, NEW p
  PROVE  FloraTotal(p)' = FloraTotal(p)
<1>1. PICK last : last = fDeleted[Len(fDeleted)]
  OBVIOUS
<1>2. PICK new \in FreshFlora : flora' = WithPlant(flora, new, last)
  BY <1>1 DEF UndoFloraDeletion
<1>3. /\ fDeleted # <<>> /\ fDeleted' = SubSeq(fDeleted, 1, Len(fDeleted) - 1)
      /\ fDeleted \in Seq(Plants)
  BY DEF UndoFloraDeletion, FloraInv, FloraScreenOK
<1>4. /\ DOMAIN flora' = DOMAIN flora \cup {new} /\ new \notin DOMAIN flora
      /\ flora'[new] = last /\ \A o \in DOMAIN flora : flora'[o] = flora[o]
  BY <1>2 DEF WithPlant, FreshFlora
<1>5. /\ Cardinality(At(fDeleted', p)) \in Nat
      /\ Cardinality(At(fDeleted, p)) = Cardinality(At(fDeleted', p)) + IF last = p THEN 1 ELSE 0
  BY <1>1, <1>3, PoppedCounts
<1>6. PICK S : S = Grown(flora, p)
  OBVIOUS
<1>7. Grown(flora', p) = IF last = p THEN S \cup {new} ELSE S
  BY <1>4, <1>6 DEF Grown, Valued
<1>8. IsFiniteSet(S) /\ Cardinality(S) \in Nat /\ new \notin S
  BY <1>4, <1>6, GrownFinite DEF Grown, Valued
<1>9. Cardinality(Grown(flora', p)) = Cardinality(S) + IF last = p THEN 1 ELSE 0
  BY <1>7, <1>8, FS_AddElement
<1>10. /\ FloraTotal(p) = Cardinality(S) + Cardinality(At(fDeleted, p))
       /\ FloraTotal(p)' = Cardinality(Grown(flora', p)) + Cardinality(At(fDeleted', p))
  BY <1>6, FloraTotalIs
<1> QED
  BY <1>5, <1>8, <1>9, <1>10

\* What a step of the stripper may take: in brush mode, what the circle holds.
Within == \A o \in DOMAIN flora \ DOMAIN flora' :
            fBrush /\ Strips => aim' # NoSpot /\ DistSq(flora[o].at, aim') <= Radius * Radius

LEMMA CircleIsNear ==
  ASSUME NEW s, NEW o \in InCircle(s)
  PROVE  o \in DOMAIN flora /\ s # NoSpot /\ DistSq(flora[o].at, s) <= Radius * Radius
  BY DEF InCircle, InBox

LEMMA StrokesTotal ==
  ASSUME FloraAssumption, FloraInv,
         \/ \E s \in Spots \cup {NoSpot} : MoveFloraStripper(s)
         \/ FloraBrushClick \/ FloraSingleClick
  PROVE  (\A p \in Plants : FloraTotal(p)' = FloraTotal(p)) /\ Within
<1>1. ASSUME NEW S, S \subseteq DOMAIN flora, NEW order \in Orders(S), DeleteFlora(order)
      PROVE  (\A p \in Plants : FloraTotal(p)' = FloraTotal(p)) /\ DOMAIN flora \ DOMAIN flora' \subseteq S
  <2>1. order \in Seq(DOMAIN flora) /\ IsInjective(order) /\ Range(order) = S
    BY <1>1, OrdersOnce
  <2>2. \A p : FloraTotal(p)' = FloraTotal(p) /\ DOMAIN flora \ DOMAIN flora' \subseteq Range(order)
    BY <1>1, <2>1, DemolishedTotal
  <2> QED
    BY <2>1, <2>2
<1>2. ASSUME NEW s \in Spots \cup {NoSpot}, MoveFloraStripper(s)
      PROVE  (\A p \in Plants : FloraTotal(p)' = FloraTotal(p)) /\ Within
  <2>1. aim' = s
    BY <1>2 DEF MoveFloraStripper
  <2>2. CASE fBrush
    <3>1. PICK S : S = IF fLeft THEN InCircle(s) ELSE {}
      OBVIOUS
    <3>2. PICK order \in Orders(S) : DeleteFlora(order)
      BY <1>2, <2>2, <3>1 DEF MoveFloraStripper
    <3>3. \A o \in S : o \in DOMAIN flora /\ s # NoSpot /\ DistSq(flora[o].at, s) <= Radius * Radius
      BY <3>1, CircleIsNear
    <3>4. (\A p \in Plants : FloraTotal(p)' = FloraTotal(p)) /\ DOMAIN flora \ DOMAIN flora' \subseteq S
      BY <1>1, <3>2, <3>3
    <3> QED
      BY <2>1, <3>3, <3>4 DEF Within
  <2>3. CASE ~fBrush
    <3>1. flora' = flora /\ fDeleted' = fDeleted
      BY <1>2, <2>3 DEF MoveFloraStripper
    <3> QED
      BY <2>3, <3>1, SameFlora DEF Within
  <2> QED
    BY <2>2, <2>3
<1>3. CASE FloraBrushClick
  <2>1. PICK S : S = InCircle(aim)
    OBVIOUS
  <2>2. PICK order \in Orders(S) : DeleteFlora(order)
    BY <1>3, <2>1 DEF FloraBrushClick
  <2>3. aim' = aim
    BY <1>3 DEF FloraBrushClick
  <2>4. \A o \in S : o \in DOMAIN flora /\ aim # NoSpot /\ DistSq(flora[o].at, aim) <= Radius * Radius
    BY <2>1, CircleIsNear
  <2>5. (\A p \in Plants : FloraTotal(p)' = FloraTotal(p)) /\ DOMAIN flora \ DOMAIN flora' \subseteq S
    BY <1>1, <2>2, <2>4
  <2> QED
    BY <2>3, <2>4, <2>5 DEF Within
<1>4. CASE FloraSingleClick
  <2>1. Within
    BY <1>4 DEF FloraSingleClick, Within
  <2>2. CASE fHovered \in DOMAIN flora
    <3>1. PICK order : order = <<fHovered>>
      OBVIOUS
    <3>2. order \in Seq(DOMAIN flora) /\ IsInjective(order)
      BY <2>2, <3>1 DEF IsInjective
    <3>3. DeleteFlora(order)
      BY <1>4, <2>2, <3>1 DEF FloraSingleClick
    <3> QED
      BY <2>1, <3>2, <3>3, DemolishedTotal
  <2>3. CASE fHovered \notin DOMAIN flora
    <3>1. flora' = flora /\ fDeleted' = fDeleted
      BY <1>4, <2>3 DEF FloraSingleClick
    <3> QED
      BY <2>1, <3>1, SameFlora
  <2> QED
    BY <2>2, <2>3
<1> QED
  BY <1>2, <1>3, <1>4

LEMMA StripperTotal ==
  ASSUME FloraAssumption, FloraInv, FloraStripper
  PROVE  ((\A p \in Plants : FloraTotal(p)' = FloraTotal(p)) \/ FloraUndoFails) /\ Within
<1>1. CASE FloraButtonUp \/ ToggleFloraMode \/ EscInFloraStripper
  <2>1. flora' = flora /\ fDeleted' = fDeleted
    BY <1>1 DEF FloraButtonUp, ToggleFloraMode, EscInFloraStripper
  <2>2. \A p \in Plants : FloraTotal(p)' = FloraTotal(p)
    BY <2>1, SameFlora
  <2> QED
    BY <2>1, <2>2 DEF Within
<1>2. CASE UndoFloraDeletion
  <2>1. \A p \in Plants : FloraTotal(p)' = FloraTotal(p)
    BY <1>2, ReplantedTotal
  <2>2. DOMAIN flora \ DOMAIN flora' = {}
    BY <1>2 DEF UndoFloraDeletion, WithPlant
  <2> QED
    BY <2>1, <2>2 DEF Within
<1>3. CASE FloraUndoFails
  BY <1>3 DEF FloraUndoFails, Within
<1> QED
  BY <1>1, <1>2, <1>3, StrokesTotal DEF FloraStripper

\* Stripping and undoing neither lose nor duplicate a plant, and a stroke stays
\* within its circle.
THEOREM NoPlantLostTheorem == ASSUME FloraAssumption PROVE FloraSpec => NoPlantLost
<1>1. FloraInv /\ [FloraNext]_fVars =>
        [/\ \/ \A p \in Plants : FloraTotal(p)' = FloraTotal(p)
            \/ FloraUndoFails \/ ~FloraStripper
         /\ \A o \in DOMAIN flora \ DOMAIN flora' :
              fBrush /\ Strips =>
                \/ aim' # NoSpot /\ DistSq(flora[o].at, aim') <= Radius * Radius
                \/ ~FloraStripper]_fVars
  <2> SUFFICES ASSUME FloraInv, FloraStripper
               PROVE  ((\A p \in Plants : FloraTotal(p)' = FloraTotal(p)) \/ FloraUndoFails) /\ Within
    BY DEF Within
  <2> QED
    BY StripperTotal
<1> QED
  BY <1>1, FloraAlways, PTL DEF FloraSpec, NoPlantLost

-----------------------------------------------------------------------------
(* The tools side by side: each kind does what it does alone, or nothing.   *)

\* A behavior of the tools side by side is one of each kind of tools.
THEOREM EachPart == SideBySide => Spec /\ DecalSpec /\ FloraSpec
<1>1. SideBySideInit => Init /\ DecalInit /\ FloraInit
  BY DEF SideBySideInit
<1>2. [SideBySideNext]_sideVars => [Next]_vars /\ [DecalNext]_dVars /\ [FloraNext]_fVars
  BY DEF SideBySideNext, sideVars
<1> QED
  BY <1>1, <1>2, PTL DEF SideBySide, Spec, DecalSpec, FloraSpec

\* What is highlighted is the hovered prop, of this session, near the cursor.
THEOREM HighlightTheorem == SideBySide => []HighlightIsHover
BY EachPart, HighlightFollowsHover, PTL

\* A click of the stripper acts on what the cursor aims at.
THEOREM AimTheorem == SideBySide => []ClickIsAimed
BY EachPart, DeletesWhatIsAimedAt, PTL

\* Nothing the prop stripper knows outlives its session or its city.
THEOREM SessionTheorem == SideBySide => []NothingOutlivesSession
BY EachPart, NothingIsCarriedOver, PTL

\* Every pending decal that is in the city stands out from the others.
THEOREM PendingTheorem == SideBySide => []PendingDecalsStandOut
BY EachPart, DecalPendingStandsOut, PartsAssumption, PTL

\* The previews and the hovers of the tools end with the tools, and no preview is
\* left in the city or planted.
THEOREM LeftBehindTheorem == SideBySide => []NothingLeftBehind
<1>1. FloraInv => FloraTypeOK /\ PreviewIsNeverPlanted /\ FloraHoverIsAimed
  BY PartsAssumption, FloraFollows
<1> QED
  BY <1>1, EachPart, DecalTypesCorrect, DecalHoverOnScreen, DecalNothingLeftBehind, FloraAlways,
     PartsAssumption, PTL DEF NothingLeftBehind

\* No two plants of the painter that are still in the city stand on one spot.
THEOREM CrowdTheorem == SideBySide => []NoCrowd
BY EachPart, NoCrowdTheorem, PartsAssumption, PTL

\* What the flora painter shows under the cursor is what a click plants there.
THEOREM TellsTheorem == SideBySide => PreviewTellsClick
BY EachPart, PreviewTheorem, PartsAssumption, PTL

\* A stroke takes whole seasonal sets, an undo brings them back whole.
THEOREM WholeTheorem == SideBySide => SetsStayWhole
BY EachPart, StaysWholeTheorem, PTL

\* Nothing that is stripped is lost, no stroke reaches too far, no hover leaves a
\* trace.
THEOREM LostTheorem == SideBySide => NothingIsLost
BY EachPart, NothingLostTheorem, NoDecalLostTheorem, NoPlantLostTheorem, HoverTheorem,
   PartsAssumption, PTL DEF NothingIsLost
=============================================================================
