--------------------------- MODULE OrderedProofs ---------------------------
(***************************************************************************)
(* What Sorted and Picked return.                                           *)
(***************************************************************************)
EXTENDS Ordered, SequencesExt, FiniteSetTheorems, SequenceTheorems,
        WellFoundedInduction, TLAPS

\* The positions of a sequence are finitely many.
THEOREM FiniteUpTo ==
  ASSUME NEW n \in Nat
  PROVE  IsFiniteSet(1 .. n) /\ Cardinality(1 .. n) = n
<1>1. 1 \in Int /\ n \in Int
  OBVIOUS
<1> QED
  BY <1>1, FS_Interval

\* How many elements there are up to each of S: no two have as many.
LEMMA RanksDiffer ==
  ASSUME NEW S, IsFiniteSet(S), NEW R, StrictlyOrders(R, S)
  PROVE  /\ \A x \in S : Cardinality(UpTo(x, S, R)) \in 1 .. Cardinality(S)
         /\ \A x, y \in S : <<x, y>> \in R =>
              Cardinality(UpTo(x, S, R)) < Cardinality(UpTo(y, S, R))
<1>1. \A x \in S : UpTo(x, S, R) \in SUBSET S /\ x \in UpTo(x, S, R)
  BY DEF UpTo
<1>2. ASSUME NEW x \in S
      PROVE  /\ IsFiniteSet(UpTo(x, S, R)) /\ Cardinality(UpTo(x, S, R)) \in Nat
             /\ Cardinality(UpTo(x, S, R)) <= Cardinality(S)
             /\ Cardinality(UpTo(x, S, R)) # 0
  <2>1. IsFiniteSet(UpTo(x, S, R)) /\ Cardinality(UpTo(x, S, R)) <= Cardinality(S)
    BY <1>1, FS_Subset
  <2> QED
    BY <2>1, <1>1, FS_CardinalityType, FS_EmptySet
<1>3. ASSUME NEW x \in S, NEW y \in S, <<x, y>> \in R
      PROVE  Cardinality(UpTo(x, S, R)) < Cardinality(UpTo(y, S, R))
  <2>1. UpTo(x, S, R) \in SUBSET UpTo(y, S, R) /\ y \notin UpTo(x, S, R)
    BY <1>3 DEF UpTo, StrictlyOrders
  <2>2. Cardinality(UpTo(x, S, R)) <= Cardinality(UpTo(y, S, R))
        /\ Cardinality(UpTo(x, S, R)) # Cardinality(UpTo(y, S, R))
    BY <2>1, <1>1, <1>2, FS_Subset
  <2> QED
    BY <2>2, <1>2
<1>4. Cardinality(S) \in Nat
  BY FS_CardinalityType
<1> QED
  BY <1>2, <1>3, <1>4

\* Sorting a set keeps each of its elements once, each after those before it.
THEOREM SortedOK ==
  ASSUME NEW S, IsFiniteSet(S), NEW R, StrictlyOrders(R, S)
  PROVE  /\ Cardinality(S) \in Nat
         /\ Sorted(S, R) \in [1 .. Cardinality(S) -> S]
         /\ Sorted(S, R) \in Seq(S) /\ Len(Sorted(S, R)) = Cardinality(S)
         /\ \A x \in S : \E k \in 1 .. Cardinality(S) : Sorted(S, R)[k] = x
         /\ \A j, k \in 1 .. Cardinality(S) :
              j < k <=> <<Sorted(S, R)[j], Sorted(S, R)[k]>> \in R
<1> DEFINE n == Cardinality(S)
           rank == [x \in S |-> Cardinality(UpTo(x, S, R))]
           s == Sorted(S, R)
<1>1. n \in Nat
  BY FS_CardinalityType
<1>2. /\ \A x \in S : rank[x] \in 1 .. n
      /\ \A x, y \in S : <<x, y>> \in R => rank[x] < rank[y]
  BY RanksDiffer
<1>3. rank \in [S -> 1 .. n]
  BY <1>2
<1>4. \A x, y \in S : rank[x] = rank[y] => x = y
  <2>1. ASSUME NEW x \in S, NEW y \in S, x # y
        PROVE  rank[x] < rank[y] \/ rank[y] < rank[x]
    BY <2>1, <1>2 DEF StrictlyOrders
  <2>2. \A x \in S : rank[x] \in Nat
    BY <1>1, <1>2
  <2> HIDE DEF rank
  <2> QED
    BY <2>1, <2>2
<1> HIDE DEF rank
<1>5. \A k \in 1 .. n : \E x \in S : rank[x] = k
  <2>1. rank \in Injection(S, 1 .. n)
    BY <1>3, <1>4 DEF Injection, IsInjective
  <2>2. IsFiniteSet(1 .. n) /\ Cardinality(1 .. n) = n
    BY <1>1, FS_Interval
  <2>3. rank \in Surjection(S, 1 .. n)
    BY <2>1, <2>2, FS_Injection
  <2> QED
    BY <2>3 DEF Surjection
<1>6. s = [k \in 1 .. n |-> CHOOSE x \in S : rank[x] = k]
  <2>1. \A x \in S : rank[x] = Cardinality(UpTo(x, S, R))
    BY DEF rank
  <2> QED
    BY <2>1 DEF Sorted
<1>7. \A k \in 1 .. n : s[k] \in S /\ rank[s[k]] = k
  BY <1>5, <1>6
<1>8. s \in [1 .. n -> S]
  BY <1>6, <1>7
<1>9. s \in Seq(S) /\ Len(s) = n
  BY <1>1, <1>8, IsASeq, LenProperties
<1>10. \A x \in S : \E k \in 1 .. n : s[k] = x
  BY <1>2, <1>4, <1>7
<1>11. ASSUME NEW j \in 1 .. n, NEW k \in 1 .. n
       PROVE  j < k <=> <<s[j], s[k]>> \in R
  <2>1. CASE <<s[j], s[k]>> \in R
    BY <2>1, <1>2, <1>7
  <2>2. CASE <<s[k], s[j]>> \in R
    <3>1. k < j
      BY <2>2, <1>2, <1>7
    <3>2. <<s[j], s[k]>> \notin R
      BY <2>2, <1>7 DEF StrictlyOrders
    <3> QED
      BY <3>1, <3>2, <1>1
  <2>3. CASE s[j] = s[k]
    <3>1. j = k
      BY <2>3, <1>7
    <3>2. <<s[j], s[k]>> \notin R
      BY <2>3, <1>7 DEF StrictlyOrders
    <3> QED
      BY <3>1, <3>2, <1>1
  <2> QED
    BY <2>1, <2>2, <2>3, <1>7 DEF StrictlyOrders
<1> HIDE DEF s
<1>12. \A j, k \in 1 .. n : j < k <=> <<s[j], s[k]>> \in R
  BY <1>11
<1> QED
  BY <1>1, <1>8, <1>9, <1>10, <1>12 DEF s

\* What is picked from a sequence keeps its order and leaves nothing out.
THEOREM PickedOK ==
  ASSUME NEW A, NEW s \in Seq(A), NEW I \in SUBSET DOMAIN s
  PROVE  /\ Cardinality(I) \in Nat /\ Cardinality(I) <= Len(s)
         /\ Picked(s, I) \in Seq(A) /\ Len(Picked(s, I)) = Cardinality(I)
         /\ DOMAIN Picked(s, I) = 1 .. Cardinality(I)
         /\ Ascending(I) \in [1 .. Cardinality(I) -> I]
         /\ \A k \in 1 .. Cardinality(I) : Picked(s, I)[k] = s[Ascending(I)[k]]
         /\ \A i \in I : \E k \in 1 .. Cardinality(I) : Ascending(I)[k] = i
         /\ \A j, k \in 1 .. Cardinality(I) : j < k <=> Ascending(I)[j] < Ascending(I)[k]
<1> DEFINE R == {p \in I \X I : p[1] < p[2]}
<1>1. Len(s) \in Nat /\ DOMAIN s = 1 .. Len(s) /\ \A i \in DOMAIN s : s[i] \in A
  BY LenProperties, ElementOfSeq
<1>2. IsFiniteSet(1 .. Len(s)) /\ Cardinality(1 .. Len(s)) = Len(s)
  <2>1. 1 \in Int /\ Len(s) \in Int
    BY <1>1
  <2>2. /\ IsFiniteSet(1 .. Len(s))
        /\ Cardinality(1 .. Len(s)) = IF 1 > Len(s) THEN 0 ELSE Len(s) - 1 + 1
    BY <2>1, FS_Interval
  <2> QED
    BY <2>2, <1>1
<1>3. IsFiniteSet(I) /\ Cardinality(I) <= Len(s)
  BY <1>1, <1>2, FS_Subset
<1>4. \A i, j \in I : <<i, j>> \in R <=> i < j
  OBVIOUS
<1> HIDE DEF R
<1>5. StrictlyOrders(R, I)
  <2>1. \A i \in I : i \in Nat
    BY <1>1
  <2> QED
    BY <1>4, <2>1 DEF StrictlyOrders
<1>6. Ascending(I) = Sorted(I, R)
  BY DEF Ascending, R
<1>7. /\ Cardinality(I) \in Nat
      /\ Ascending(I) \in [1 .. Cardinality(I) -> I]
      /\ \A i \in I : \E k \in 1 .. Cardinality(I) : Ascending(I)[k] = i
      /\ \A j, k \in 1 .. Cardinality(I) :
           j < k <=> <<Ascending(I)[j], Ascending(I)[k]>> \in R
  BY <1>3, <1>5, <1>6, SortedOK
<1>8. \A j, k \in 1 .. Cardinality(I) : j < k <=> Ascending(I)[j] < Ascending(I)[k]
  BY <1>4, <1>7
<1>9. \A k \in 1 .. Cardinality(I) : s[Ascending(I)[k]] \in A
  BY <1>1, <1>7
<1>10. Picked(s, I) \in [1 .. Cardinality(I) -> A]
       /\ \A k \in 1 .. Cardinality(I) : Picked(s, I)[k] = s[Ascending(I)[k]]
  BY <1>9 DEF Picked
<1>11. Picked(s, I) \in Seq(A) /\ Len(Picked(s, I)) = Cardinality(I)
  BY <1>7, <1>10, IsASeq, LenProperties
<1> QED
  BY <1>3, <1>7, <1>8, <1>10, <1>11

\* A finite set of numbers that is not empty has a least one and a greatest one.
THEOREM LeastAndGreatest ==
  ASSUME NEW S \in SUBSET Int, IsFiniteSet(S), S # {}
  PROVE  /\ \E a \in S : \A x \in S : a <= x
         /\ \E b \in S : \A x \in S : x <= b
<1> DEFINE R == {p \in S \X S : p[1] < p[2]}
           n == Cardinality(S)
<1>1. \A x, y \in S : <<x, y>> \in R <=> x < y
  OBVIOUS
<1> HIDE DEF R
<1>2. StrictlyOrders(R, S)
  BY <1>1 DEF StrictlyOrders
<1>3. n \in Nat /\ n # 0
  BY FS_CardinalityType, FS_EmptySet
<1>4. /\ Sorted(S, R) \in [1 .. n -> S]
      /\ \A x \in S : \E k \in 1 .. n : Sorted(S, R)[k] = x
      /\ \A j, k \in 1 .. n : j < k <=> <<Sorted(S, R)[j], Sorted(S, R)[k]>> \in R
  BY <1>2, SortedOK
<1> HIDE DEF n
<1>5. \A j, k \in 1 .. n : j < k => Sorted(S, R)[j] < Sorted(S, R)[k]
  BY <1>1, <1>4
<1>6. 1 \in 1 .. n /\ n \in 1 .. n
  BY <1>3
<1>7. \A x \in S : Sorted(S, R)[1] <= x /\ x <= Sorted(S, R)[n]
  <2>1. ASSUME NEW k \in 1 .. n
        PROVE  Sorted(S, R)[1] <= Sorted(S, R)[k] /\ Sorted(S, R)[k] <= Sorted(S, R)[n]
    <3>1. (k = 1 \/ 1 < k) /\ (k = n \/ k < n)
      BY <1>3
    <3>2. Sorted(S, R)[1] \in Int /\ Sorted(S, R)[k] \in Int /\ Sorted(S, R)[n] \in Int
      BY <1>4, <1>6
    <3> QED
      BY <3>1, <3>2, <1>5, <1>6
  <2> QED
    BY <2>1, <1>4
<1> QED
  BY <1>4, <1>6, <1>7

\* The lesser and the greater of two numbers.
THEOREM LesserOfTwo ==
  ASSUME NEW a \in Int, NEW b \in Int
  PROVE  /\ Min({a, b}) = IF a <= b THEN a ELSE b
         /\ Max({a, b}) = IF a <= b THEN b ELSE a
<1>1. ASSUME NEW x \in Int, NEW y \in Int, x <= y, NEW S, S = {x, y}
      PROVE  Min(S) = x /\ Max(S) = y
  <2>1. \A z \in S : (\A w \in S : z <= w) <=> z = x
    BY <1>1
  <2>2. \A z \in S : (\A w \in S : z >= w) <=> z = y
    BY <1>1
  <2>3. x \in S /\ y \in S
    BY <1>1
  <2>4. Min(S) \in S /\ \A w \in S : Min(S) <= w
    BY <2>1, <2>3 DEF Min
  <2>5. Max(S) \in S /\ \A w \in S : Max(S) >= w
    BY <2>2, <2>3 DEF Max
  <2> QED
    BY <2>1, <2>2, <2>4, <2>5
<1> QED
  BY <1>1

\* What is left of a sequence without its i-th element.
THEOREM RemoveAtOK ==
  ASSUME NEW A, NEW s \in Seq(A), NEW i \in 1 .. Len(s)
  PROVE  /\ RemoveAt(s, i) \in Seq(A) /\ Len(RemoveAt(s, i)) = Len(s) - 1
         /\ DOMAIN RemoveAt(s, i) = 1 .. Len(s) - 1
         /\ \A k \in 1 .. Len(s) - 1 :
              RemoveAt(s, i)[k] = IF k < i THEN s[k] ELSE s[k + 1]
<1> DEFINE a == SubSeq(s, 1, i - 1)
           b == SubSeq(s, i + 1, Len(s))
<1>1. Len(s) \in Nat /\ DOMAIN s = 1 .. Len(s) /\ \A k \in 1 .. Len(s) : s[k] \in A
  BY LenProperties, ElementOfSeq
<1>2. a \in Seq(A) /\ Len(a) = i - 1 /\ \A k \in 1 .. i - 1 : a[k] = s[k]
  <2>1. i - 1 \in Int /\ 1 \in Int /\ \A k \in 1 .. i - 1 : s[k] \in A
    BY <1>1
  <2>2. /\ a \in Seq(A)
        /\ Len(a) = IF 1 <= i - 1 THEN (i - 1) - 1 + 1 ELSE 0
        /\ \A k \in 1 .. (i - 1) - 1 + 1 : a[k] = s[1 + k - 1]
    BY <2>1, SubSeqProperties
  <2> HIDE DEF a
  <2> QED
    BY <1>1, <2>2
<1>3. b \in Seq(A) /\ Len(b) = Len(s) - i /\ \A k \in 1 .. Len(s) - i : b[k] = s[k + i]
  <2>1. i + 1 \in Int /\ Len(s) \in Int /\ \A k \in i + 1 .. Len(s) : s[k] \in A
    BY <1>1
  <2>2. /\ b \in Seq(A)
        /\ Len(b) = IF i + 1 <= Len(s) THEN Len(s) - (i + 1) + 1 ELSE 0
        /\ \A k \in 1 .. Len(s) - (i + 1) + 1 : b[k] = s[(i + 1) + k - 1]
    BY <2>1, SubSeqProperties
  <2> HIDE DEF b
  <2>3. ASSUME NEW k \in 1 .. Len(s) - i
        PROVE  b[k] = s[k + i]
    <3>1. (i + 1) + k - 1 = k + i /\ k \in 1 .. Len(s) - (i + 1) + 1
      BY <1>1
    <3>2. b[k] = s[(i + 1) + k - 1]
      BY <2>2, <3>1
    <3> QED
      BY <3>1, <3>2
  <2>4. Len(b) = Len(s) - i
    BY <1>1, <2>2
  <2> QED
    BY <2>2, <2>3, <2>4
<1> HIDE DEF a, b
<1>4. /\ a \o b \in Seq(A) /\ Len(a \o b) = Len(a) + Len(b)
      /\ \A k \in 1 .. Len(a) + Len(b) :
           (a \o b)[k] = IF k <= Len(a) THEN a[k] ELSE b[k - Len(a)]
  BY <1>2, <1>3, ConcatProperties
<1>5. RemoveAt(s, i) = a \o b
  BY DEF RemoveAt, a, b
<1>6. ASSUME NEW k \in 1 .. Len(s) - 1
      PROVE  (a \o b)[k] = IF k < i THEN s[k] ELSE s[k + 1]
  <2>1. CASE k < i
    BY <2>1, <1>1, <1>2, <1>3, <1>4
  <2>2. CASE ~(k < i)
    <3>1. /\ k - (i - 1) \in 1 .. Len(s) - i /\ (k - (i - 1)) + i = k + 1
          /\ k \in 1 .. (i - 1) + (Len(s) - i) /\ ~(k <= i - 1)
      BY <2>2, <1>1
    <3>2. (a \o b)[k] = b[k - (i - 1)]
      BY <3>1, <1>2, <1>3, <1>4
    <3>3. b[k - (i - 1)] = s[(k - (i - 1)) + i]
      BY <3>1, <1>3
    <3> QED
      BY <2>2, <3>1, <3>2, <3>3
  <2> QED
    BY <2>1, <2>2
<1>7. DOMAIN (a \o b) = 1 .. Len(a \o b)
  BY <1>4, LenProperties
<1>8. Len(a \o b) = Len(s) - 1
  BY <1>1, <1>2, <1>3, <1>4
<1> QED
  BY <1>4, <1>5, <1>6, <1>7, <1>8

-----------------------------------------------------------------------------
(* What sequences that repeat nothing hold.                                *)

\* A sequence that repeats nothing is as long as the set of its elements.
THEOREM OnceCounted ==
  ASSUME NEW A, NEW s \in Seq(A), IsInjective(s)
  PROVE  IsFiniteSet(Range(s)) /\ Cardinality(Range(s)) = Len(s)
<1>1. DOMAIN s = 1 .. Len(s) /\ Len(s) \in Nat
  BY LenProperties
<1>2. s \in Surjection(1 .. Len(s), Range(s)) /\ s \in Injection(1 .. Len(s), Range(s))
  <2>1. s \in [1 .. Len(s) -> Range(s)]
    BY <1>1 DEF Range
  <2>2. \A y \in Range(s) : \E k \in 1 .. Len(s) : s[k] = y
    BY <1>1 DEF Range
  <2>3. \A j, k \in 1 .. Len(s) : s[j] = s[k] => j = k
    BY <1>1 DEF IsInjective
  <2> QED
    BY <2>1, <2>2, <2>3 DEF Injection, Surjection, IsInjective
<1>3. 1 \in Int /\ Len(s) \in Int
  BY <1>1
<1>4. /\ IsFiniteSet(1 .. Len(s))
      /\ Cardinality(1 .. Len(s)) = IF 1 > Len(s) THEN 0 ELSE Len(s) - 1 + 1
  BY <1>3, FS_Interval
<1>5. IsFiniteSet(Range(s)) /\ Cardinality(Range(s)) = Cardinality(1 .. Len(s))
  BY <1>2, <1>4, FS_Surjection
<1> QED
  BY <1>1, <1>4, <1>5

\* What is appended is in, once.
THEOREM AppendOnce ==
  ASSUME NEW A, NEW s \in Seq(A), NEW x \in A
  PROVE  /\ Range(Append(s, x)) = Range(s) \cup {x}
         /\ IsInjective(s) /\ x \notin Range(s) => IsInjective(Append(s, x))
<1>1. DOMAIN s = 1 .. Len(s) /\ Len(s) \in Nat
  BY LenProperties
<1>2. /\ Append(s, x) \in Seq(A) /\ Len(Append(s, x)) = Len(s) + 1
      /\ \A k \in 1 .. Len(s) : Append(s, x)[k] = s[k]
      /\ Append(s, x)[Len(s) + 1] = x
  BY AppendProperties
<1>3. DOMAIN Append(s, x) = 1 .. Len(s) + 1
  BY <1>2, LenProperties
<1>4. \A k : k \in 1 .. Len(s) + 1 <=> k \in 1 .. Len(s) \/ k = Len(s) + 1
  BY <1>1
<1> DEFINE t == Append(s, x)
<1> HIDE DEF t
<1>5. /\ DOMAIN t = 1 .. Len(s) + 1 /\ t[Len(s) + 1] = x
      /\ \A k \in 1 .. Len(s) : t[k] = s[k]
  BY <1>2, <1>3 DEF t
<1>6. Range(t) = Range(s) \cup {x}
  BY <1>1, <1>4, <1>5 DEF Range
<1>7. IsInjective(s) /\ x \notin Range(s) => IsInjective(t)
  <2> SUFFICES ASSUME IsInjective(s), x \notin Range(s), NEW j \in DOMAIN t, NEW k \in DOMAIN t, t[j] = t[k]
               PROVE  j = k
    BY DEF IsInjective
  <2>1. \A i \in 1 .. Len(s) : s[i] # x
    BY <1>1 DEF Range
  <2>2. \A i, l \in 1 .. Len(s) : s[i] = s[l] => i = l
    BY <1>1 DEF IsInjective
  <2> QED
    BY <1>4, <1>5, <2>1, <2>2
<1> QED
  BY <1>6, <1>7 DEF t

\* The first element is in no other place than the first.
THEOREM TailOnce ==
  ASSUME NEW A, NEW s \in Seq(A), s # <<>>, IsInjective(s)
  PROVE  /\ Tail(s) \in Seq(A) /\ IsInjective(Tail(s))
         /\ Head(s) \in Range(s) /\ Head(s) \in A /\ Range(Tail(s)) = Range(s) \ {Head(s)}
<1>1. DOMAIN s = 1 .. Len(s) /\ Len(s) \in Nat \ {0} /\ Head(s) = s[1]
  BY LenProperties, EmptySeq
<1>2. /\ Tail(s) \in Seq(A) /\ Len(Tail(s)) = Len(s) - 1
      /\ \A k \in 1 .. Len(s) - 1 : Tail(s)[k] = s[k + 1]
  BY <1>1, HeadTailProperties
<1>3. DOMAIN Tail(s) = 1 .. Len(s) - 1
  BY <1>2, LenProperties
<1> DEFINE t == Tail(s)
<1>4. t \in Seq(A) /\ DOMAIN t = 1 .. Len(s) - 1 /\ \A k \in 1 .. Len(s) - 1 : t[k] = s[k + 1]
  BY <1>2, <1>3
<1> HIDE DEF t
<1>5. \A i, l \in 1 .. Len(s) : s[i] = s[l] => i = l
  BY <1>1 DEF IsInjective
<1>6. \A k \in 1 .. Len(s) - 1 : k + 1 \in 1 .. Len(s) /\ k + 1 # 1
  BY <1>1
<1>7. IsInjective(t)
  <2> SUFFICES ASSUME NEW j \in DOMAIN t, NEW k \in DOMAIN t, t[j] = t[k]
               PROVE  j = k
    BY DEF IsInjective
  <2>1. j + 1 = k + 1
    BY <1>4, <1>5, <1>6
  <2> QED
    BY <1>1, <1>4, <2>1
<1>8. ASSUME NEW y \in Range(t)
      PROVE  y \in Range(s) \ {s[1]}
  <2>1. PICK k \in 1 .. Len(s) - 1 : y = s[k + 1]
    BY <1>4 DEF Range
  <2>2. s[k + 1] # s[1]
    BY <1>1, <1>5, <1>6
  <2> QED
    BY <1>1, <1>6, <2>1, <2>2 DEF Range
<1>9. ASSUME NEW y \in Range(s), y # s[1]
      PROVE  y \in Range(t)
  <2>1. PICK k \in 1 .. Len(s) : y = s[k]
    BY <1>1 DEF Range
  <2>2. k - 1 \in 1 .. Len(s) - 1 /\ (k - 1) + 1 = k
    BY <1>1, <1>9, <2>1
  <2>3. t[k - 1] = y
    BY <1>4, <2>1, <2>2
  <2> QED
    BY <1>4, <2>2, <2>3 DEF Range
<1>10. Head(s) \in Range(s) /\ Head(s) \in A
  BY <1>1, ElementOfSeq DEF Range
<1> QED
  BY <1>1, <1>4, <1>7, <1>8, <1>9, <1>10 DEF t

\* What is removed is nowhere else.
THEOREM RemoveAtOnce ==
  ASSUME NEW A, NEW s \in Seq(A), IsInjective(s), NEW i \in 1 .. Len(s)
  PROVE  IsInjective(RemoveAt(s, i)) /\ Range(RemoveAt(s, i)) = Range(s) \ {s[i]}
<1> DEFINE t == RemoveAt(s, i)
           at(k) == IF k < i THEN k ELSE k + 1
<1>1. DOMAIN s = 1 .. Len(s) /\ Len(s) \in Nat
  BY LenProperties
<1>2. DOMAIN t = 1 .. Len(s) - 1
      /\ \A k \in 1 .. Len(s) - 1 : t[k] = IF k < i THEN s[k] ELSE s[k + 1]
  BY RemoveAtOK
<1> HIDE DEF t
<1>3. \A k \in 1 .. Len(s) - 1 : at(k) \in 1 .. Len(s) /\ at(k) # i /\ t[k] = s[at(k)]
  BY <1>1, <1>2
<1>4. \A j, k \in 1 .. Len(s) - 1 : at(j) = at(k) => j = k
  BY <1>1
<1>5. \A k \in 1 .. Len(s) : k # i => \E j \in 1 .. Len(s) - 1 : at(j) = k
  <2> SUFFICES ASSUME NEW k \in 1 .. Len(s), k # i
               PROVE  \E j \in 1 .. Len(s) - 1 : at(j) = k
    OBVIOUS
  <2>1. CASE k < i
    <3>1. k \in 1 .. Len(s) - 1 /\ at(k) = k
      BY <1>1, <2>1
    <3> QED
      BY <3>1
  <2>2. CASE ~(k < i)
    <3>1. k - 1 \in 1 .. Len(s) - 1 /\ at(k - 1) = k
      BY <1>1, <2>2
    <3> QED
      BY <3>1
  <2> QED
    BY <2>1, <2>2
<1> HIDE DEF at
<1>6. \A j, k \in 1 .. Len(s) : s[j] = s[k] => j = k
  BY <1>1 DEF IsInjective
<1>7. IsInjective(t)
  BY <1>2, <1>3, <1>4, <1>6 DEF IsInjective
<1>8. ASSUME NEW y \in Range(t) PROVE y \in Range(s) \ {s[i]}
  <2>1. PICK k \in 1 .. Len(s) - 1 : y = s[at(k)]
    BY <1>2, <1>3, <1>8 DEF Range
  <2> QED
    BY <1>1, <1>3, <1>6, <2>1 DEF Range
<1>9. ASSUME NEW y \in Range(s), y # s[i] PROVE y \in Range(t)
  <2>1. PICK k \in 1 .. Len(s) : y = s[k]
    BY <1>1 DEF Range
  <2>2. PICK j \in 1 .. Len(s) - 1 : at(j) = k
    BY <1>5, <1>9, <2>1
  <2> QED
    BY <1>2, <1>3, <2>1, <2>2 DEF Range
<1> QED
  BY <1>7, <1>8, <1>9 DEF t

\* What is sorted has every element, once.
THEOREM SortedOnce ==
  ASSUME NEW S, IsFiniteSet(S), NEW R, StrictlyOrders(R, S)
  PROVE  Range(Sorted(S, R)) = S /\ IsInjective(Sorted(S, R))
<1> DEFINE s == Sorted(S, R)
<1>1. /\ Cardinality(S) \in Nat /\ s \in [1 .. Cardinality(S) -> S]
      /\ \A x \in S : \E k \in 1 .. Cardinality(S) : s[k] = x
      /\ \A j, k \in 1 .. Cardinality(S) : j < k <=> <<s[j], s[k]>> \in R
  BY SortedOK
<1> HIDE DEF s
<1>2. Range(s) = S
  BY <1>1 DEF Range
<1>3. IsInjective(s)
  <2> SUFFICES ASSUME NEW j \in 1 .. Cardinality(S), NEW k \in 1 .. Cardinality(S), s[j] = s[k]
               PROVE  j = k
    BY <1>1 DEF IsInjective
  <2>1. <<s[j], s[k]>> \notin R /\ <<s[k], s[j]>> \notin R
    BY <1>1 DEF StrictlyOrders
  <2> QED
    BY <1>1, <2>1
<1> QED
  BY <1>2, <1>3 DEF s

\* What is picked, and that it repeats nothing that the sequence does not.
THEOREM PickedOnce ==
  ASSUME NEW A, NEW s \in Seq(A), NEW I \in SUBSET DOMAIN s
  PROVE  /\ Range(Picked(s, I)) = {s[i] : i \in I}
         /\ IsInjective(s) => IsInjective(Picked(s, I))
<1> DEFINE t == Picked(s, I)
           at == Ascending(I)
           n == Cardinality(I)
<1>1. /\ n \in Nat /\ DOMAIN t = 1 .. n /\ at \in [1 .. n -> I]
      /\ \A k \in 1 .. n : t[k] = s[at[k]]
      /\ \A i \in I : \E k \in 1 .. n : at[k] = i
      /\ \A j, k \in 1 .. n : j < k <=> at[j] < at[k]
  BY PickedOK
<1>2. I \subseteq 1 .. Len(s) /\ Len(s) \in Nat
  BY LenProperties
<1> HIDE DEF t, at, n
<1>3. Range(t) = {s[i] : i \in I}
  <2>1. ASSUME NEW y \in Range(t) PROVE y \in {s[i] : i \in I}
    <3>1. PICK k \in 1 .. n : y = t[k]
      BY <1>1 DEF Range
    <3> QED
      BY <1>1, <3>1
  <2>2. ASSUME NEW i \in I PROVE s[i] \in Range(t)
    <3>1. PICK k \in 1 .. n : at[k] = i
      BY <1>1
    <3>2. t[k] = s[i]
      BY <1>1, <3>1
    <3> QED
      BY <1>1, <3>2 DEF Range
  <2> QED
    BY <2>1, <2>2
<1>4. ASSUME IsInjective(s), NEW j \in 1 .. n, NEW k \in 1 .. n, t[j] = t[k]
      PROVE  j = k
  <2>1. at[j] = at[k] /\ at[j] \in Int
    BY <1>1, <1>2, <1>4 DEF IsInjective
  <2>2. ~(j < k) /\ ~(k < j)
    BY <1>1, <2>1
  <2> QED
    BY <1>1, <2>2
<1>5. IsInjective(s) => IsInjective(t)
  BY <1>1, <1>4 DEF IsInjective
<1> QED
  BY <1>3, <1>5 DEF t


-----------------------------------------------------------------------------
(* Sequences element by element.                                           *)

\* A function on 1 .. n is a sequence.
LEMMA FunctionIsSequence ==
  ASSUME NEW S, NEW n \in Nat, NEW f \in [1 .. n -> S]
  PROVE  f \in Seq(S) /\ Len(f) = n
OBVIOUS

\* A function on nothing is the empty one.
LEMMA EmptyFunction ==
  ASSUME NEW S, NEW f \in [{} -> S]
  PROVE  f = <<>>
OBVIOUS

\* Two sequences with the same elements are one.
LEMMA SameSequence ==
  ASSUME NEW S, NEW f \in Seq(S), NEW g \in Seq(S), Len(f) = Len(g),
         \A k \in 1 .. Len(f) : f[k] = g[k]
  PROVE  f = g
OBVIOUS

\* What is joined is the one and then the other.
LEMMA JoinedIs ==
  ASSUME NEW S, NEW f \in Seq(S), NEW g \in Seq(S)
  PROVE  /\ f \o g \in Seq(S) /\ Len(f \o g) = Len(f) + Len(g)
         /\ Len(f) \in Nat /\ Len(g) \in Nat
         /\ \A k \in 1 .. Len(f) : (f \o g)[k] = f[k]
         /\ \A k \in Len(f) + 1 .. Len(f) + Len(g) : (f \o g)[k] = g[k - Len(f)]
OBVIOUS

\* JoinedIs sequences have the elements of both, once if they share none.
LEMMA JoinedOnce ==
  ASSUME NEW A, NEW s \in Seq(A), NEW t \in Seq(A)
  PROVE  /\ Range(s \o t) = Range(s) \cup Range(t)
         /\ IsInjective(s \o t) <=>
              IsInjective(s) /\ IsInjective(t) /\ Range(s) \cap Range(t) = {}
<1> DEFINE u == s \o t
           m == Len(s)
           n == Len(t)
<1>1. /\ m \in Nat /\ n \in Nat /\ DOMAIN s = 1 .. m /\ DOMAIN t = 1 .. n
      /\ DOMAIN u = 1 .. m + n
      /\ \A k \in 1 .. m : u[k] = s[k]
      /\ \A k \in m + 1 .. m + n : u[k] = t[k - m]
  BY JoinedIs, LenProperties
<1> HIDE DEF u, m, n
<1>2. \A k \in 1 .. n : k + m \in m + 1 .. m + n /\ u[k + m] = t[k]
  BY <1>1
<1>3. Range(u) = Range(s) \cup Range(t)
  <2>1. ASSUME NEW y \in Range(u) PROVE y \in Range(s) \cup Range(t)
    <3>1. PICK k \in 1 .. m + n : y = u[k]
      BY <1>1, <2>1 DEF Range
    <3>2. CASE k \in 1 .. m
      BY <1>1, <3>1, <3>2 DEF Range
    <3>3. CASE k \notin 1 .. m
      <4>1. k \in m + 1 .. m + n /\ k - m \in 1 .. n
        BY <1>1, <3>3
      <4> QED
        BY <1>1, <3>1, <4>1 DEF Range
    <3> QED
      BY <3>2, <3>3
  <2>2. ASSUME NEW k \in 1 .. m PROVE s[k] \in Range(u)
    <3>1. k \in 1 .. m + n
      BY <1>1
    <3> QED
      BY <1>1, <3>1 DEF Range
  <2>3. ASSUME NEW k \in 1 .. n PROVE t[k] \in Range(u)
    <3>1. k + m \in 1 .. m + n
      BY <1>1
    <3> QED
      BY <1>1, <1>2, <3>1 DEF Range
  <2> QED
    BY <1>1, <2>1, <2>2, <2>3 DEF Range
<1>4. ASSUME IsInjective(u)
      PROVE  IsInjective(s) /\ IsInjective(t) /\ Range(s) \cap Range(t) = {}
  <2>1. \A j, k \in 1 .. m + n : u[j] = u[k] => j = k
    BY <1>1, <1>4 DEF IsInjective
  <2>2. \A j, k \in 1 .. m : s[j] = s[k] => j = k
    <3>1. \A k \in 1 .. m : k \in 1 .. m + n
      BY <1>1
    <3> QED
      BY <1>1, <2>1, <3>1
  <2>3. ASSUME NEW j \in 1 .. n, NEW k \in 1 .. n, t[j] = t[k] PROVE j = k
    <3>1. j + m \in 1 .. m + n /\ k + m \in 1 .. m + n /\ u[j + m] = u[k + m]
      BY <1>1, <1>2, <2>3
    <3>2. j + m = k + m
      BY <2>1, <3>1
    <3> QED
      BY <1>1, <3>2
  <2>4. ASSUME NEW j \in 1 .. m, NEW k \in 1 .. n PROVE s[j] # t[k]
    <3>1. j \in 1 .. m + n /\ k + m \in 1 .. m + n /\ j # k + m
      BY <1>1
    <3> QED
      BY <1>1, <1>2, <2>1, <3>1
  <2> QED
    BY <1>1, <2>2, <2>3, <2>4 DEF IsInjective, Range
<1>5. ASSUME IsInjective(s), IsInjective(t), Range(s) \cap Range(t) = {},
             NEW j \in 1 .. m + n, NEW k \in 1 .. m + n, u[j] = u[k]
      PROVE  j = k
  <2>1. \A i \in 1 .. m, l \in 1 .. n : s[i] # t[l]
    BY <1>1, <1>5 DEF Range
  <2>2. /\ \A i, l \in 1 .. m : s[i] = s[l] => i = l
        /\ \A i, l \in 1 .. n : t[i] = t[l] => i = l
    BY <1>1, <1>5 DEF IsInjective
  <2>3. \A i \in 1 .. m + n : i \in 1 .. m \/ (i - m \in 1 .. n /\ u[i] = t[i - m])
    BY <1>1
  <2>4. CASE j \in 1 .. m /\ k \in 1 .. m
    BY <1>1, <1>5, <2>2, <2>4
  <2>5. CASE j \notin 1 .. m /\ k \notin 1 .. m
    <3>1. j - m = k - m
      BY <1>5, <2>2, <2>3, <2>5
    <3> QED
      BY <1>1, <3>1
  <2> QED
    BY <1>1, <1>5, <2>1, <2>3, <2>4, <2>5
<1> QED
  BY <1>1, <1>3, <1>4, <1>5 DEF u, IsInjective

\* Backwards is the same.
LEMMA ReversedOnce ==
  ASSUME NEW A, NEW s \in Seq(A)
  PROVE  /\ Reverse(s) \in Seq(A) /\ Len(Reverse(s)) = Len(s) /\ Len(s) \in Nat
         /\ Range(Reverse(s)) = Range(s)
         /\ IsInjective(s) => IsInjective(Reverse(s))
<1> DEFINE n == Len(s)
           t == Reverse(s)
<1>1. n \in Nat /\ DOMAIN s = 1 .. n /\ \A k \in 1 .. n : s[k] \in A
  BY LenProperties, ElementOfSeq
<1>2. \A k \in 1 .. n : n - k + 1 \in 1 .. n /\ n - (n - k + 1) + 1 = k
  BY <1>1
<1>3. t = [k \in 1 .. n |-> s[n - k + 1]]
  BY DEF Reverse
<1> HIDE DEF n, t
<1>4. t \in [1 .. n -> A]
  BY <1>1, <1>2, <1>3
<1>5. t \in Seq(A) /\ Len(t) = n
  BY <1>1, <1>4, FunctionIsSequence
<1>6. DOMAIN t = 1 .. n /\ \A k \in 1 .. n : t[k] = s[n - k + 1] /\ s[k] = t[n - k + 1]
  BY <1>2, <1>3
<1>7. Range(t) = Range(s)
  BY <1>1, <1>2, <1>6 DEF Range
<1>8. ASSUME IsInjective(s), NEW j \in 1 .. n, NEW k \in 1 .. n, t[j] = t[k]
      PROVE  j = k
  <2>1. n - j + 1 = n - k + 1
    BY <1>1, <1>2, <1>6, <1>8 DEF IsInjective
  <2> QED
    BY <1>1, <2>1
<1> QED
  BY <1>1, <1>5, <1>6, <1>7, <1>8 DEF n, t, IsInjective

\* What is cut out of a sequence.
LEMMA CutOnce ==
  ASSUME NEW A, NEW s \in Seq(A), NEW n \in 0 .. Len(s), NEW m \in 1 .. n + 1
  PROVE  /\ SubSeq(s, m, n) \in Seq(A) /\ Len(SubSeq(s, m, n)) = n - m + 1
         /\ \A k \in 1 .. n - m + 1 : SubSeq(s, m, n)[k] = s[m + k - 1]
         /\ Range(SubSeq(s, m, n)) = {s[k] : k \in m .. n}
         /\ IsInjective(s) => IsInjective(SubSeq(s, m, n))
<1> DEFINE t == SubSeq(s, m, n)
<1>1. Len(s) \in Nat /\ DOMAIN s = 1 .. Len(s) /\ \A k \in 1 .. Len(s) : s[k] \in A
  BY LenProperties, ElementOfSeq
<1>2. /\ t \in Seq(A) /\ Len(t) = n - m + 1
      /\ \A k \in 1 .. n - m + 1 : t[k] = s[m + k - 1]
  BY <1>1, SubSeqProperties
<1>3. DOMAIN t = 1 .. n - m + 1
  BY <1>2, LenProperties
<1> HIDE DEF t
<1>4. /\ \A k \in 1 .. n - m + 1 : m + k - 1 \in m .. n
      /\ \A k \in m .. n : k - m + 1 \in 1 .. n - m + 1 /\ m + (k - m + 1) - 1 = k
      /\ m .. n \subseteq 1 .. Len(s)
  BY <1>1
<1>5. Range(t) = {s[k] : k \in m .. n}
  <2>1. \A k \in m .. n : s[k] = t[k - m + 1]
    BY <1>2, <1>4
  <2>2. ASSUME NEW y \in Range(t) PROVE y \in {s[k] : k \in m .. n}
    <3>1. PICK k \in 1 .. n - m + 1 : y = t[k]
      BY <1>3, <2>2 DEF Range
    <3> QED
      BY <1>2, <1>4, <3>1
  <2>3. ASSUME NEW k \in m .. n PROVE s[k] \in Range(t)
    <3>1. t[k - m + 1] \in Range(t)
      BY <1>3, <1>4 DEF Range
    <3> QED
      BY <2>1, <3>1
  <2> QED
    BY <2>2, <2>3
<1>6. ASSUME IsInjective(s), NEW j \in 1 .. n - m + 1, NEW k \in 1 .. n - m + 1, t[j] = t[k]
      PROVE  j = k
  <2>1. m + j - 1 = m + k - 1
    BY <1>1, <1>2, <1>4, <1>6 DEF IsInjective
  <2> QED
    BY <1>1, <2>1
<1> QED
  BY <1>2, <1>3, <1>5, <1>6 DEF t, IsInjective

-----------------------------------------------------------------------------
(* Induction over numbers.  The library's induction theorems take an        *)
(* operator; what is wanted of them is stated with sets instead.            *)

\* A set of numbers has a least one.
LEMMA Least ==
  ASSUME NEW T, T \subseteq Nat, T # {}
  PROVE  \E n \in T : \A m \in T : n <= m
<1> DEFINE R == OpToRel(<, Nat)
<1>1. \A x, y \in Nat : x < y => <<x, y>> \in R
  BY DEF OpToRel
<1>2. IsWellFoundedOn(R, Nat)
  BY NatLessThanWellFounded
<1>3. PICK n \in T : \A m \in T : ~ (<<m, n>> \in R)
  <2> HIDE DEF R
  <2> QED
    BY <1>2, WFMin
<1> HIDE DEF R
<1>4. \A m \in T : ~ (m < n)
  BY <1>1, <1>3
<1> QED
  BY <1>3, <1>4

\* Induction over the numbers from a to n, for a property that is a set.
Climbs(G, a, n) == a \in G /\ \A i \in a .. n - 1 : i \in G => i + 1 \in G

LEMMA Upward ==
  ASSUME NEW G, NEW a \in Nat, NEW n \in Nat, Climbs(G, a, n)
  PROVE  \A i \in a .. n : i \in G
<1> DEFINE Missed == {i \in a .. n : i \notin G}
<1> SUFFICES ASSUME Missed # {} PROVE FALSE
  OBVIOUS
<1>1. PICK i \in Missed : \A m \in Missed : i <= m
  <2>1. Missed \subseteq Nat
    OBVIOUS
  <2> HIDE DEF Missed
  <2> QED
    BY <2>1, Least
<1>2. i # a /\ i \in a .. n /\ i \notin G
  BY DEF Climbs
<1>3. i - 1 \in a .. n - 1 /\ i - 1 + 1 = i
  BY <1>2
<1>4. i - 1 \notin Missed
  BY <1>1, <1>2, <1>3
<1>5. i - 1 \in G
  BY <1>3, <1>4
<1> QED
  BY <1>2, <1>3, <1>5 DEF Climbs

-----------------------------------------------------------------------------
(* Those of a sequence that are in a set.                                  *)

ThoseStep(t, s, S, n) == IF s[n] \in S THEN Append(t, s[n]) ELSE t
IsThose(f, s, S, n) ==
  f = [i \in 0 .. n |-> IF i = 0 THEN <<>> ELSE ThoseStep(f[i - 1], s, S, i)]

\* There is such a function, so that Those takes one.
LEMMA ThoseUnfolded ==
  ASSUME NEW A, NEW s \in Seq(A), NEW S
  PROVE  \E f : /\ Those(s, S) = f[Len(s)] /\ f[0] = <<>>
                 /\ \A n \in 1 .. Len(s) : f[n] = ThoseStep(f[n - 1], s, S, n)
<1> DEFINE G == {n \in Nat : \E f : IsThose(f, s, S, n)}
<1>1. 0 \in G
  <2>1. IsThose([i \in 0 .. 0 |-> <<>>], s, S, 0)
    BY DEF IsThose
  <2> QED
    BY <2>1
<1>2. ASSUME NEW n \in Nat, n \in G PROVE n + 1 \in G
  <2>1. PICK f : IsThose(f, s, S, n)
    BY <1>2
  <2> DEFINE g == [i \in 0 .. n + 1 |-> IF i = n + 1 THEN ThoseStep(f[n], s, S, n + 1) ELSE f[i]]
  <2>2. IsThose(g, s, S, n + 1)
    BY <2>1 DEF IsThose
  <2> QED
    BY <2>2
<1>3. Len(s) \in Nat
  BY LenProperties
<1>4. Len(s) \in G
  <2>1. \A n \in Nat : n \in G => n + 1 \in G
    BY <1>2
  <2> HIDE DEF G
  <2>2. Climbs(G, 0, Len(s))
    BY <1>1, <1>3, <2>1 DEF Climbs
  <2> QED
    BY <1>3, <2>2, Upward
<1>5. PICK f : IsThose(f, s, S, Len(s))
  BY <1>4
<1>6. \E g : IsThose(g, s, S, Len(s)) /\ Those(s, S) = g[Len(s)]
  BY <1>5 DEF IsThose, Those, ThoseStep
<1>7. PICK g : IsThose(g, s, S, Len(s)) /\ Those(s, S) = g[Len(s)]
  BY <1>6
<1>8. g[0] = <<>>
  BY <1>3, <1>7 DEF IsThose
<1>9. ASSUME NEW n \in 1 .. Len(s) PROVE g[n] = ThoseStep(g[n - 1], s, S, n)
  <2>1. n \in 0 .. Len(s) /\ n # 0
    BY <1>3
  <2> QED
    BY <1>7, <2>1 DEF IsThose
<1> QED
  BY <1>7, <1>8, <1>9

\* Those are the elements in the set, no more often than before.
THEOREM ThoseOnce ==
  ASSUME NEW A, NEW s \in Seq(A), NEW S
  PROVE  /\ Those(s, S) \in Seq(A) /\ Len(Those(s, S)) <= Len(s)
         /\ Range(Those(s, S)) = Range(s) \cap S
         /\ IsInjective(s) => IsInjective(Those(s, S))
<1>1. Len(s) \in Nat /\ DOMAIN s = 1 .. Len(s) /\ \A k \in 1 .. Len(s) : s[k] \in A
  BY LenProperties, ElementOfSeq
<1>2. PICK f : /\ Those(s, S) = f[Len(s)] /\ f[0] = <<>>
               /\ \A n \in 1 .. Len(s) : f[n] = ThoseStep(f[n - 1], s, S, n)
  BY ThoseUnfolded
<1> DEFINE G == {n \in Nat : /\ f[n] \in Seq(A) /\ Len(f[n]) <= n
                             /\ Range(f[n]) = {s[i] : i \in 1 .. n} \cap S
                             /\ IsInjective(s) => IsInjective(f[n])}
<1>3. 0 \in G
  <2>1. <<>> \in Seq(A) /\ Len(<<>>) = 0 /\ DOMAIN <<>> = {}
    OBVIOUS
  <2>2. Range(f[0]) = {} /\ IsInjective(f[0])
    BY <1>2, <2>1 DEF Range, IsInjective
  <2>3. {s[i] : i \in 1 .. 0} \cap S = {}
    OBVIOUS
  <2>4. f[0] \in Seq(A) /\ Len(f[0]) <= 0
    BY <1>2, <2>1
  <2> QED
    BY <2>2, <2>3, <2>4
<1>4. ASSUME NEW n \in 0 .. Len(s) - 1, n \in G PROVE n + 1 \in G
  <2>1. /\ n + 1 \in 1 .. Len(s) /\ n + 1 - 1 = n /\ n + 1 \in Nat /\ n \in Nat
        /\ s[n + 1] \in A
    BY <1>1
  <2>2. f[n + 1] = IF s[n + 1] \in S THEN Append(f[n], s[n + 1]) ELSE f[n]
    BY <1>2, <2>1 DEF ThoseStep
  <2>3. {s[i] : i \in 1 .. n + 1} = {s[i] : i \in 1 .. n} \cup {s[n + 1]}
    <3>1. 1 .. n + 1 = 1 .. n \cup {n + 1}
      BY <2>1
    <3> QED
      BY <3>1
  <2>4. /\ f[n] \in Seq(A) /\ Len(f[n]) <= n /\ Len(f[n]) \in Nat
        /\ Range(f[n]) = {s[i] : i \in 1 .. n} \cap S
        /\ IsInjective(s) => IsInjective(f[n])
    BY <1>4, LenProperties
  <2>5. CASE s[n + 1] \notin S
    <3>1. Len(f[n]) <= n + 1
      BY <2>1, <2>4
    <3> QED
      BY <2>1, <2>2, <2>3, <2>4, <2>5, <3>1
  <2>6. CASE s[n + 1] \in S
    <3> DEFINE x == s[n + 1]
    <3>1. IsInjective(s) => x \notin Range(f[n])
      <4>1. \A i \in 1 .. n : i \in 1 .. Len(s) /\ i # n + 1
        BY <1>1
      <4> QED
        BY <1>1, <2>1, <2>4, <4>1 DEF IsInjective
    <3>2. Append(f[n], x) \in Seq(A) /\ Len(Append(f[n], x)) <= n + 1
      BY <2>1, <2>4, AppendProperties
    <3>3. /\ Range(Append(f[n], x)) = Range(f[n]) \cup {x}
          /\ IsInjective(f[n]) /\ x \notin Range(f[n]) => IsInjective(Append(f[n], x))
      BY <2>1, <2>4, AppendOnce
    <3> QED
      BY <2>1, <2>2, <2>3, <2>4, <2>6, <3>1, <3>2, <3>3
  <2> QED
    BY <2>5, <2>6
<1>5. Len(s) \in G
  <2>1. \A n \in 0 .. Len(s) - 1 : n \in G => n + 1 \in G
    BY <1>4
  <2> HIDE DEF G
  <2>2. Climbs(G, 0, Len(s))
    BY <1>3, <2>1 DEF Climbs
  <2> QED
    BY <1>1, <2>2, Upward
<1> QED
  BY <1>1, <1>2, <1>5 DEF Range
=============================================================================
