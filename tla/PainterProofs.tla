--------------------------- MODULE PainterProofs ---------------------------
(***************************************************************************)
(* Proofs about Painter: its safety invariants and that it implements      *)
(* PendingPlacements, for every set of occupants, types and palettes and   *)
(* every undo limit.                                                       *)
(***************************************************************************)
EXTENDS Painter, SequenceTheorems, TLAPS

\* The undo stack us, the city and the highlights agree with each other.
NoEmptyGroup(us) == \A i \in DOMAIN us : us[i] # <<>>
NoneTwice(us) ==
  \A i, k \in DOMAIN us : \A j \in DOMAIN us[i], l \in DOMAIN us[k] :
    us[i][j] = us[k][l] => i = k /\ j = l
StackOK(us) == us \in Seq(Seq(Occ)) /\ NoEmptyGroup(us) /\ NoneTwice(us)
WorldOK(us, city, marks) ==
  /\ StackOK(us) /\ Len(us) <= MaxUndoGroups
  /\ city \in SUBSET Occ
  /\ marks = OccupantsOf(us) \cap city

-----------------------------------------------------------------------------
(* Sequences of groups.                                                    *)

\* A contiguous part of a sound stack is sound, and its groups are the
\* stack's own.
LEMMA PartOfStack ==
  ASSUME NEW us, StackOK(us), NEW a \in Nat \ {0}, NEW b \in Nat, b <= Len(us)
  PROVE  /\ StackOK(SubSeq(us, a, b))
         /\ Len(SubSeq(us, a, b)) = IF a <= b THEN b - a + 1 ELSE 0
         /\ DOMAIN SubSeq(us, a, b) = 1 .. (b - a + 1)
         /\ \A i \in 1 .. (b - a + 1) : SubSeq(us, a, b)[i] = us[i + a - 1]
<1> DEFINE part == SubSeq(us, a, b)
<1>0. us \in Seq(Seq(Occ)) /\ DOMAIN us = 1 .. Len(us) /\ Len(us) \in Nat
  BY LenProperties DEF StackOK
<1>1. \A i \in a .. b : us[i] \in Seq(Occ)
  BY <1>0, ElementOfSeq
<1>2. /\ part \in Seq(Seq(Occ))
      /\ Len(part) = IF a <= b THEN b - a + 1 ELSE 0
      /\ \A i \in 1 .. b - a + 1 : part[i] = us[a + i - 1]
  BY <1>1, SubSeqProperties
<1>3. DOMAIN part = 1 .. (b - a + 1)
  BY <1>2, LenProperties
<1>4. \A i \in 1 .. (b - a + 1) : part[i] = us[i + a - 1] /\ i + a - 1 \in DOMAIN us
  BY <1>2, <1>0
<1> HIDE DEF part
<1>5. NoEmptyGroup(part)
  BY <1>3, <1>4 DEF StackOK, NoEmptyGroup
<1>6. NoneTwice(part)
  <2> SUFFICES ASSUME NEW i \in DOMAIN part, NEW k \in DOMAIN part,
                      NEW j \in DOMAIN part[i], NEW l \in DOMAIN part[k],
                      part[i][j] = part[k][l]
               PROVE  i = k /\ j = l
    BY DEF NoneTwice
  <2>1. /\ i \in 1 .. (b - a + 1) /\ k \in 1 .. (b - a + 1)
        /\ i + a - 1 \in DOMAIN us /\ k + a - 1 \in DOMAIN us
        /\ part[i] = us[i + a - 1] /\ part[k] = us[k + a - 1]
    BY <1>3, <1>4
  <2>2. i + a - 1 = k + a - 1 /\ j = l
    BY <2>1 DEF StackOK, NoneTwice
  <2> QED BY <2>1, <2>2
<1> QED BY <1>2, <1>3, <1>4, <1>5, <1>6 DEF StackOK, part

\* What a placement loop returns: distinct occupants nothing refers to.
LEMMA PlacedGroup ==
  ASSUME NEW s \in PlaceResults
  PROVE  /\ s \in Seq(Occ)
         /\ \A i \in DOMAIN s : s[i] \in Fresh
         /\ \A i, j \in DOMAIN s : s[i] = s[j] => i = j
<1>1. PICK n \in 0 .. MaxGroup : s \in [1 .. n -> Fresh]
  BY DEF PlaceResults
<1>2. Fresh \subseteq Occ /\ n \in Nat
  BY BoundsAssumption DEF Fresh
<1>3. s \in Seq(Occ)
  BY <1>1, <1>2, SeqDef
<1> QED BY <1>1, <1>3 DEF PlaceResults

\* Pushing a group of new occupants keeps the stack sound.
LEMMA PushGroup ==
  ASSUME NEW us, StackOK(us), NEW s \in Seq(Occ), s # <<>>,
         \A i \in DOMAIN s : s[i] \notin OccupantsOf(us),
         \A i, j \in DOMAIN s : s[i] = s[j] => i = j
  PROVE  /\ StackOK(Append(us, s))
         /\ Len(Append(us, s)) = Len(us) + 1
         /\ DOMAIN Append(us, s) = 1 .. Len(us) + 1
         /\ \A i \in 1 .. Len(us) : Append(us, s)[i] = us[i]
         /\ Append(us, s)[Len(us) + 1] = s
<1> DEFINE top == Append(us, s)
<1>1. us \in Seq(Seq(Occ)) /\ DOMAIN us = 1 .. Len(us) /\ Len(us) \in Nat
  BY LenProperties DEF StackOK
<1>2. /\ top \in Seq(Seq(Occ)) /\ Len(top) = Len(us) + 1
      /\ \A i \in 1 .. Len(us) : top[i] = us[i]
      /\ top[Len(us) + 1] = s
  BY <1>1, AppendProperties
<1>3. DOMAIN top = 1 .. Len(us) + 1
  BY <1>2, LenProperties
<1>4. NoEmptyGroup(top)
  BY <1>1, <1>2, <1>3 DEF StackOK, NoEmptyGroup
<1>5. \A i \in 1 .. Len(us) : \A j \in DOMAIN us[i] : us[i][j] \in OccupantsOf(us)
  <2> SUFFICES ASSUME NEW i \in 1 .. Len(us), NEW j \in DOMAIN us[i]
               PROVE  us[i][j] \in OccupantsOf(us)
    OBVIOUS
  <2>1. us[i] \in Seq(Occ)
    BY <1>1, ElementOfSeq
  <2>2. us[i][j] \in Occ
    BY <2>1, ElementOfSeq, LenProperties
  <2> QED BY <1>1, <2>2 DEF OccupantsOf
<1>6. NoneTwice(top)
  <2> SUFFICES ASSUME NEW i \in DOMAIN top, NEW k \in DOMAIN top,
                      NEW j \in DOMAIN top[i], NEW l \in DOMAIN top[k],
                      top[i][j] = top[k][l]
               PROVE  i = k /\ j = l
    BY DEF NoneTwice
  <2>1. CASE i \in 1 .. Len(us) /\ k \in 1 .. Len(us)
    BY <2>1, <1>1, <1>2 DEF StackOK, NoneTwice
  <2>2. CASE i = Len(us) + 1 /\ k = Len(us) + 1
    BY <2>2, <1>2
  <2>3. CASE i \in 1 .. Len(us) /\ k = Len(us) + 1
    BY <2>3, <1>2, <1>5
  <2>4. CASE i = Len(us) + 1 /\ k \in 1 .. Len(us)
    BY <2>4, <1>2, <1>5
  <2> QED BY <1>1, <1>3, <2>1, <2>2, <2>3, <2>4
<1> QED BY <1>2, <1>3, <1>4, <1>6 DEF StackOK

-----------------------------------------------------------------------------
(* The occupants of a stack.                                               *)

LEMMA OccupantsOfEmpty == OccupantsOf(<<>>) = {} /\ StackOK(<<>>) /\ Len(<<>>) = 0
BY EmptySeq DEF OccupantsOf, StackOK, NoEmptyGroup, NoneTwice

\* A pushed group adds its own occupants.
LEMMA OccupantsOfPush ==
  ASSUME NEW us, StackOK(us), NEW s \in Seq(Occ), s # <<>>,
         \A i \in DOMAIN s : s[i] \notin OccupantsOf(us),
         \A i, j \in DOMAIN s : s[i] = s[j] => i = j
  PROVE  OccupantsOf(Append(us, s)) = OccupantsOf(us) \cup {s[i] : i \in DOMAIN s}
<1> DEFINE top == Append(us, s)
<1>1. /\ DOMAIN top = 1 .. Len(us) + 1
      /\ \A i \in 1 .. Len(us) : top[i] = us[i]
      /\ top[Len(us) + 1] = s
  BY PushGroup
<1>2. DOMAIN us = 1 .. Len(us) /\ Len(us) \in Nat
  BY LenProperties DEF StackOK
<1> HIDE DEF top
<1>3. \A j \in DOMAIN s : s[j] \in Occ
  BY ElementOfSeq, LenProperties
<1>4. ASSUME NEW o \in OccupantsOf(top)
      PROVE  o \in OccupantsOf(us) \cup {s[i] : i \in DOMAIN s}
  <2>1. PICK i \in DOMAIN top : \E j \in DOMAIN top[i] : top[i][j] = o
    BY DEF OccupantsOf
  <2>2. CASE i = Len(us) + 1
    BY <2>1, <2>2, <1>1
  <2>3. CASE i \in 1 .. Len(us)
    BY <2>1, <2>3, <1>1, <1>2 DEF OccupantsOf
  <2> QED BY <2>2, <2>3, <1>1, <1>2
<1>5. ASSUME NEW o \in OccupantsOf(us)
      PROVE  o \in OccupantsOf(top)
  <2>1. PICK i \in DOMAIN us : \E j \in DOMAIN us[i] : us[i][j] = o
    BY DEF OccupantsOf
  <2>2. i \in DOMAIN top /\ top[i] = us[i]
    BY <1>1, <1>2
  <2> QED BY <2>1, <2>2 DEF OccupantsOf
<1>6. ASSUME NEW j \in DOMAIN s
      PROVE  s[j] \in OccupantsOf(top)
  <2>1. Len(us) + 1 \in DOMAIN top
    BY <1>1, <1>2
  <2> QED BY <2>1, <1>1, <1>3 DEF OccupantsOf
<1>7. OccupantsOf(top) = OccupantsOf(us) \cup {s[i] : i \in DOMAIN s}
  BY <1>4, <1>5, <1>6
<1> QED BY <1>7 DEF top

\* Cutting a stack in two splits its occupants in two disjoint sets.
LEMMA OccupantsOfCut ==
  ASSUME NEW us, StackOK(us), NEW c \in 0 .. Len(us)
  PROVE  LET lower == {o \in Occ : \E i \in 1 .. c : \E j \in DOMAIN us[i] : us[i][j] = o}
             upper == {o \in Occ : \E i \in c + 1 .. Len(us) : \E j \in DOMAIN us[i] : us[i][j] = o}
         IN /\ OccupantsOf(us) = lower \cup upper
            /\ lower \cap upper = {}
            /\ OccupantsOf(SubSeq(us, 1, c)) = lower
            /\ OccupantsOf(SubSeq(us, c + 1, Len(us))) = upper
<1> DEFINE lower == {o \in Occ : \E i \in 1 .. c : \E j \in DOMAIN us[i] : us[i][j] = o}
           upper == {o \in Occ : \E i \in c + 1 .. Len(us) : \E j \in DOMAIN us[i] : us[i][j] = o}
           left == SubSeq(us, 1, c)
           right == SubSeq(us, c + 1, Len(us))
<1>0. DOMAIN us = 1 .. Len(us) /\ Len(us) \in Nat /\ c \in Nat /\ c <= Len(us)
  BY LenProperties DEF StackOK
<1>1. OccupantsOf(us) = lower \cup upper
  <2>1. \A i : i \in DOMAIN us <=> i \in 1 .. c \/ i \in c + 1 .. Len(us)
    BY <1>0
  <2> QED BY <2>1 DEF OccupantsOf
<1>2. lower \cap upper = {}
  <2> SUFFICES ASSUME NEW o \in lower, o \in upper PROVE FALSE
    OBVIOUS
  <2>1. PICK i \in 1 .. c : \E j \in DOMAIN us[i] : us[i][j] = o
    OBVIOUS
  <2>2. PICK k \in c + 1 .. Len(us) : \E l \in DOMAIN us[k] : us[k][l] = o
    OBVIOUS
  <2>3. i \in DOMAIN us /\ k \in DOMAIN us /\ i # k
    BY <1>0
  <2> QED BY <2>1, <2>2, <2>3 DEF StackOK, NoneTwice
<1>3. DOMAIN left = 1 .. c /\ \A i \in 1 .. c : left[i] = us[i]
  BY <1>0, PartOfStack
<1>4. /\ DOMAIN right = 1 .. (Len(us) - c)
      /\ \A i \in 1 .. (Len(us) - c) : right[i] = us[i + c]
  <2>1. /\ DOMAIN right = 1 .. (Len(us) - (c + 1) + 1)
        /\ \A i \in 1 .. (Len(us) - (c + 1) + 1) : right[i] = us[i + (c + 1) - 1]
    BY <1>0, PartOfStack
  <2> HIDE DEF right
  <2> QED BY <2>1, <1>0
<1> HIDE DEF left, right
<1>5. OccupantsOf(left) = lower
  BY <1>3 DEF OccupantsOf
<1>6. OccupantsOf(right) = upper
  <2>1. ASSUME NEW o \in OccupantsOf(right) PROVE o \in upper
    <3>1. PICK i \in DOMAIN right : \E j \in DOMAIN right[i] : right[i][j] = o
      BY DEF OccupantsOf
    <3>2. i + c \in c + 1 .. Len(us) /\ right[i] = us[i + c]
      BY <1>4, <1>0
    <3> QED BY <3>1, <3>2 DEF OccupantsOf
  <2>2. ASSUME NEW o \in upper PROVE o \in OccupantsOf(right)
    <3>1. PICK i \in c + 1 .. Len(us) : \E j \in DOMAIN us[i] : us[i][j] = o
      OBVIOUS
    <3>2. i - c \in DOMAIN right /\ right[i - c] = us[i]
      BY <1>4, <1>0
    <3> QED BY <3>1, <3>2 DEF OccupantsOf
  <2> QED BY <2>1, <2>2
<1> QED BY <1>1, <1>2, <1>5, <1>6 DEF left, right

-----------------------------------------------------------------------------
(* The operations on the world.                                            *)

World == WorldOK(undoStack, inCity, marked)
ResultOK(r) == WorldOK(r.stack, r.city, r.marks)

\* Placing keeps the world sound; what becomes pending is new, and what stops
\* being pending was so before.
LEMMA PlacingOK ==
  ASSUME World, NEW s \in PlaceResults
  PROVE  LET r == AfterPlacing(s)
             new == {s[i] : i \in DOMAIN s}
         IN /\ ResultOK(r)
            /\ new \cap (inCity \cup PendingOcc) = {}
            /\ new \in SUBSET Occ
            /\ OccupantsOf(r.stack) \subseteq PendingOcc \cup new
            /\ r.city = inCity \cup new
            /\ r.marks \subseteq marked \cup new
            /\ new \subseteq r.marks
<1> DEFINE us == IF s = <<>> THEN undoStack ELSE Append(undoStack, s)
           new == {s[i] : i \in DOMAIN s}
           e == Excess(us)
           r == AfterPlacing(s)
<1>1. /\ s \in Seq(Occ)
      /\ \A i \in DOMAIN s : s[i] \in Fresh
      /\ \A i, j \in DOMAIN s : s[i] = s[j] => i = j
  BY PlacedGroup
<1>2. new \in SUBSET Occ /\ new \cap (inCity \cup PendingOcc) = {}
  BY <1>1 DEF Fresh
<1>3. \A i \in DOMAIN s : s[i] \notin OccupantsOf(undoStack)
  BY <1>1 DEF Fresh, PendingOcc
<1>4. /\ StackOK(us) /\ OccupantsOf(us) = PendingOcc \cup new
      /\ Len(us) \in Nat /\ Len(us) <= MaxUndoGroups + 1
      /\ (s # <<>> => Len(us) = Len(undoStack) + 1 /\ us[Len(us)] = s)
  <2>0. Len(undoStack) \in Nat /\ MaxUndoGroups \in Nat \ {0} /\ Len(undoStack) <= MaxUndoGroups
    BY LenProperties, BoundsAssumption DEF World, WorldOK, StackOK
  <2>1. CASE s = <<>>
    <3>1. new = {}
      BY <2>1, EmptySeq
    <3> QED BY <2>0, <2>1, <3>1 DEF World, WorldOK, PendingOcc
  <2>2. CASE s # <<>>
    <3>1. StackOK(undoStack)
      BY DEF World, WorldOK
    <3>2. /\ StackOK(Append(undoStack, s))
          /\ Len(Append(undoStack, s)) = Len(undoStack) + 1
          /\ Append(undoStack, s)[Len(undoStack) + 1] = s
      BY <1>1, <1>3, <2>2, <3>1, PushGroup
    <3>3. OccupantsOf(Append(undoStack, s)) = PendingOcc \cup new
      BY <1>1, <1>3, <2>2, <3>1, OccupantsOfPush DEF PendingOcc
    <3> QED BY <2>0, <2>2, <3>2, <3>3
  <2> QED BY <2>1, <2>2
<1> HIDE DEF us
<1>5. e \in 0 .. Len(us) /\ Len(us) - e <= MaxUndoGroups /\ (s # <<>> => e < Len(us))
  BY <1>4, BoundsAssumption DEF Excess
<1>6. /\ OccupantsOf(us) = Forgotten(us) \cup OccupantsOf(Trimmed(us))
      /\ Forgotten(us) \cap OccupantsOf(Trimmed(us)) = {}
  BY <1>4, <1>5, OccupantsOfCut DEF Forgotten, Trimmed
<1>7. StackOK(Trimmed(us)) /\ Len(Trimmed(us)) <= MaxUndoGroups
  <2>1. e + 1 \in Nat \ {0} /\ Len(us) \in Nat
    BY <1>4, <1>5
  <2>2. /\ StackOK(SubSeq(us, e + 1, Len(us)))
        /\ Len(SubSeq(us, e + 1, Len(us))) =
             IF e + 1 <= Len(us) THEN Len(us) - (e + 1) + 1 ELSE 0
    BY <1>4, <2>1, PartOfStack
  <2> QED BY <2>2, <1>4, <1>5, BoundsAssumption DEF Trimmed
<1>8. /\ r.stack = Trimmed(us)
      /\ r.city = inCity \cup new
      /\ r.marks = (marked \cup new) \ Forgotten(us)
  BY DEF AfterPlacing, us
<1>9. new \cap Forgotten(us) = {}
  <2>1. CASE s = <<>>
    BY <2>1, EmptySeq
  <2>2. CASE s # <<>>
    <3> SUFFICES ASSUME NEW o \in new, o \in Forgotten(us) PROVE FALSE
      OBVIOUS
    <3>1. PICK i \in 1 .. e : \E j \in DOMAIN us[i] : us[i][j] = o
      BY DEF Forgotten
    <3>2. PICK j \in DOMAIN us[i] : us[i][j] = o
      BY <3>1
    <3>3. PICK l \in DOMAIN s : s[l] = o
      OBVIOUS
    <3>4. i \in DOMAIN us /\ Len(us) \in DOMAIN us /\ i # Len(us) /\ us[Len(us)] = s
      BY <1>4, <1>5, <2>2, LenProperties DEF StackOK
    <3> QED BY <3>2, <3>3, <3>4, <1>4 DEF StackOK, NoneTwice
  <2> QED BY <2>1, <2>2
<1> HIDE DEF new, r
<1>10. r.marks = OccupantsOf(r.stack) \cap r.city
  BY <1>2, <1>4, <1>6, <1>8, <1>9 DEF World, WorldOK, PendingOcc
<1>11. r.city \in SUBSET Occ
  BY <1>2, <1>8 DEF World, WorldOK
<1>12. ResultOK(r)
  BY <1>7, <1>8, <1>10, <1>11 DEF ResultOK, WorldOK
<1>13. /\ OccupantsOf(r.stack) \subseteq PendingOcc \cup new
       /\ r.marks \subseteq marked \cup new
       /\ new \subseteq r.marks
  BY <1>4, <1>6, <1>8, <1>9
<1> QED BY <1>2, <1>8, <1>12, <1>13 DEF new, r

\* Removing occupants keeps the world sound if the stack loses just those.
LEMMA RemovingOK ==
  ASSUME World, manager,
         NEW us, StackOK(us), Len(us) <= MaxUndoGroups,
         NEW gone \in SUBSET Occ,
         PendingOcc = OccupantsOf(us) \cup gone, OccupantsOf(us) \cap gone = {}
  PROVE  LET r == AfterRemoving(us, gone)
         IN /\ ResultOK(r)
            /\ r.city = inCity \ gone /\ r.marks = marked \ gone
            /\ OccupantsOf(r.stack) \subseteq PendingOcc
BY DEF AfterRemoving, RemoveFrom, ResultOK, World, WorldOK, PendingOcc

\* The newest group of a stack and what lies below it.
LEMMA TopGroup ==
  ASSUME World, undoStack # <<>>
  PROVE  LET n == Len(undoStack)
             below == SubSeq(undoStack, 1, n - 1)
             top == {undoStack[n][j] : j \in DOMAIN undoStack[n]}
         IN /\ n \in Nat \ {0} /\ n <= MaxUndoGroups
            /\ StackOK(below) /\ Len(below) = n - 1
            /\ undoStack[n] \in Seq(Occ) /\ undoStack[n] # <<>>
            /\ \A i, j \in DOMAIN undoStack[n] : undoStack[n][i] = undoStack[n][j] => i = j
            /\ top \in SUBSET Occ
            /\ PendingOcc = OccupantsOf(below) \cup top
            /\ OccupantsOf(below) \cap top = {}
<1> DEFINE n == Len(undoStack)
           below == SubSeq(undoStack, 1, n - 1)
           top == {undoStack[n][j] : j \in DOMAIN undoStack[n]}
<1>1. StackOK(undoStack) /\ undoStack \in Seq(Seq(Occ)) /\ n <= MaxUndoGroups
  BY DEF World, WorldOK, StackOK
<1>2. n \in Nat \ {0} /\ DOMAIN undoStack = 1 .. n
  BY <1>1, EmptySeq, LenProperties
<1>3. n \in DOMAIN undoStack
  BY <1>2
<1>4. undoStack[n] \in Seq(Occ)
  BY <1>1, <1>2, <1>3, ElementOfSeq
<1>5. undoStack[n] # <<>>
  BY <1>1, <1>3 DEF StackOK, NoEmptyGroup
<1>6. \A i, j \in DOMAIN undoStack[n] : undoStack[n][i] = undoStack[n][j] => i = j
  BY <1>1, <1>3 DEF StackOK, NoneTwice
<1>7. \A j \in DOMAIN undoStack[n] : undoStack[n][j] \in Occ
  BY <1>4, ElementOfSeq, LenProperties
<1>8. StackOK(below) /\ Len(below) = n - 1
  <2>1. n - 1 \in Nat /\ n - 1 <= n /\ 1 \in Nat \ {0}
    BY <1>2
  <2>2. StackOK(below) /\ Len(below) = IF 1 <= n - 1 THEN n - 1 - 1 + 1 ELSE 0
    BY <1>1, <2>1, PartOfStack
  <2> HIDE DEF below, n
  <2>3. Len(below) = n - 1
    BY <2>2, <1>2
  <2> QED BY <2>2, <2>3
<1>9. PendingOcc = OccupantsOf(below) \cup top /\ OccupantsOf(below) \cap top = {}
  <2> DEFINE upper == {o \in Occ : \E i \in (n - 1) + 1 .. n :
                                     \E j \in DOMAIN undoStack[i] : undoStack[i][j] = o}
  <2>1. n - 1 \in 0 .. Len(undoStack)
    BY <1>2
  <2>2. PendingOcc = OccupantsOf(below) \cup upper /\ OccupantsOf(below) \cap upper = {}
    <3> DEFINE lower == {o \in Occ : \E i \in 1 .. n - 1 :
                                       \E j \in DOMAIN undoStack[i] : undoStack[i][j] = o}
    <3>1. ASSUME NEW c \in 0 .. Len(undoStack)
          PROVE  LET low == {o \in Occ : \E i \in 1 .. c :
                               \E j \in DOMAIN undoStack[i] : undoStack[i][j] = o}
                     high == {o \in Occ : \E i \in c + 1 .. Len(undoStack) :
                               \E j \in DOMAIN undoStack[i] : undoStack[i][j] = o}
                 IN /\ OccupantsOf(undoStack) = low \cup high
                    /\ low \cap high = {}
                    /\ OccupantsOf(SubSeq(undoStack, 1, c)) = low
      <4>1. StackOK(undoStack)
        BY <1>1
      <4> QED BY ONLY <4>1, c \in 0 .. Len(undoStack), OccupantsOfCut
    <3>2. /\ OccupantsOf(undoStack) = lower \cup upper
          /\ lower \cap upper = {}
          /\ OccupantsOf(below) = lower
      BY <2>1, <3>1
    <3> HIDE DEF lower, upper, below, n
    <3> QED BY <3>2 DEF PendingOcc
  <2>3. \A i : i \in (n - 1) + 1 .. n <=> i = n
    BY <1>2
  <2>4. upper = top
    BY <2>3, <1>7
  <2> HIDE DEF upper, below, top
  <2> QED BY <2>2, <2>4
<1> QED BY <1>1, <1>2, <1>4, <1>5, <1>6, <1>7, <1>8, <1>9

\* What a withdrawing operation guarantees.
Withdraws(r) ==
  /\ ResultOK(r)
  /\ \E gone \in SUBSET PendingOcc : r.city = inCity \ gone /\ r.marks = marked \ gone
  /\ OccupantsOf(r.stack) \subseteq PendingOcc

LEMMA UndoOK ==
  ASSUME World, manager, undoStack # <<>>
  PROVE  Withdraws(AfterUndo)
<1> DEFINE n == Len(undoStack)
           below == SubSeq(undoStack, 1, n - 1)
           top == {undoStack[n][j] : j \in DOMAIN undoStack[n]}
<1>1. /\ n \in Nat \ {0} /\ n <= MaxUndoGroups
      /\ StackOK(below) /\ Len(below) = n - 1
      /\ top \in SUBSET Occ
      /\ PendingOcc = OccupantsOf(below) \cup top
      /\ OccupantsOf(below) \cap top = {}
  BY TopGroup
<1>2. AfterUndo = AfterRemoving(below, top)
  BY DEF AfterUndo
<1> HIDE DEF below, top
<1>3. Len(below) <= MaxUndoGroups
  BY <1>1, BoundsAssumption
<1> QED BY <1>1, <1>2, <1>3, RemovingOK DEF Withdraws

LEMMA UndoInGroupOK ==
  ASSUME World, manager, undoStack # <<>>
  PROVE  Withdraws(AfterUndoInGroup)
<1> DEFINE n == Len(undoStack)
           below == SubSeq(undoStack, 1, n - 1)
           group == undoStack[n]
           m == Len(group)
           rest == SubSeq(group, 1, m - 1)
           top == {group[j] : j \in DOMAIN group}
           us == IF rest = <<>> THEN below ELSE Append(below, rest)
<1>1. /\ n \in Nat \ {0} /\ n <= MaxUndoGroups
      /\ StackOK(below) /\ Len(below) = n - 1
      /\ group \in Seq(Occ) /\ group # <<>>
      /\ \A i, j \in DOMAIN group : group[i] = group[j] => i = j
      /\ top \in SUBSET Occ
      /\ PendingOcc = OccupantsOf(below) \cup top
      /\ OccupantsOf(below) \cap top = {}
  BY TopGroup
<1>2. AfterUndoInGroup = AfterRemoving(us, {group[m]})
  BY DEF AfterUndoInGroup
<1> HIDE DEF below, group
<1>3. m \in Nat \ {0} /\ DOMAIN group = 1 .. m
  BY <1>1, EmptySeq, LenProperties
<1>4. \A j \in 1 .. m : group[j] \in Occ
  BY <1>1, ElementOfSeq
<1>5. /\ rest \in Seq(Occ) /\ Len(rest) = m - 1 /\ DOMAIN rest = 1 .. m - 1
      /\ \A j \in 1 .. m - 1 : rest[j] = group[j]
  <2>1. 1 \in Int /\ m - 1 \in Int /\ \A j \in 1 .. m - 1 : group[j] \in Occ
    BY <1>3, <1>4
  <2>2. /\ rest \in Seq(Occ)
        /\ Len(rest) = IF 1 <= m - 1 THEN m - 1 - 1 + 1 ELSE 0
        /\ \A i \in 1 .. m - 1 - 1 + 1 : rest[i] = group[1 + i - 1]
    BY <2>1, SubSeqProperties
  <2> HIDE DEF rest, m
  <2>3. Len(rest) = m - 1
    BY <2>2, <1>3
  <2>4. DOMAIN rest = 1 .. m - 1
    BY <2>2, <2>3, LenProperties
  <2> QED BY <2>2, <2>3, <2>4, <1>3
<1> HIDE DEF m, rest
<1> DEFINE kept == {rest[i] : i \in DOMAIN rest}
<1>6. top = kept \cup {group[m]} /\ group[m] \notin kept /\ group[m] \in Occ
  <2>1. \A j : j \in 1 .. m <=> j \in 1 .. m - 1 \/ j = m
    BY <1>3
  <2>2. kept = {group[j] : j \in 1 .. m - 1}
    BY <1>5
  <2>3. top = {group[j] : j \in 1 .. m - 1} \cup {group[m]}
    BY <2>1, <1>3
  <2>4. \A j \in 1 .. m - 1 : group[j] # group[m]
    <3> SUFFICES ASSUME NEW j \in 1 .. m - 1, group[j] = group[m] PROVE FALSE
      OBVIOUS
    <3>1. j \in DOMAIN group /\ m \in DOMAIN group /\ j # m
      BY <1>3
    <3> QED BY <3>1, <1>1
  <2>5. group[m] \in Occ
    BY <1>3, <1>4
  <2> HIDE DEF kept, top
  <2> QED BY <2>2, <2>3, <2>4, <2>5
<1>7. StackOK(us) /\ Len(us) <= MaxUndoGroups /\ OccupantsOf(us) = OccupantsOf(below) \cup kept
  <2>1. CASE rest = <<>>
    <3>1. kept = {}
      BY <2>1, EmptySeq
    <3> QED BY <2>1, <3>1, <1>1, BoundsAssumption
  <2>2. CASE rest # <<>>
    <3>1. \A i, j \in DOMAIN rest : rest[i] = rest[j] => i = j
      <4> SUFFICES ASSUME NEW i \in DOMAIN rest, NEW j \in DOMAIN rest, rest[i] = rest[j]
                   PROVE i = j
        OBVIOUS
      <4>1. i \in DOMAIN group /\ j \in DOMAIN group
        BY <1>3, <1>5
      <4> QED BY <4>1, <1>1, <1>5
    <3>2. \A i \in DOMAIN rest : rest[i] \notin OccupantsOf(below)
      BY <1>1, <1>6
    <3>3. /\ StackOK(Append(below, rest))
          /\ Len(Append(below, rest)) = Len(below) + 1
      BY <1>1, <1>5, <2>2, <3>1, <3>2, PushGroup
    <3>4. OccupantsOf(Append(below, rest)) = OccupantsOf(below) \cup {rest[i] : i \in DOMAIN rest}
      <4>1. StackOK(below) /\ rest \in Seq(Occ)
        BY <1>1, <1>5
      <4> QED BY ONLY <4>1, <2>2, <3>1, <3>2, OccupantsOfPush
    <3>5. OccupantsOf(Append(below, rest)) = OccupantsOf(below) \cup kept
      BY <3>4
    <3> HIDE DEF kept
    <3> QED BY <2>2, <3>3, <3>5, <1>1, BoundsAssumption
  <2> QED BY <2>1, <2>2
<1> HIDE DEF us, kept, top
<1>8. /\ PendingOcc = OccupantsOf(us) \cup {group[m]}
      /\ OccupantsOf(us) \cap {group[m]} = {}
      /\ {group[m]} \in SUBSET Occ
  BY <1>1, <1>6, <1>7
<1>9. {group[m]} \subseteq PendingOcc
  BY <1>8
<1> QED BY <1>2, <1>7, <1>8, <1>9, RemovingOK DEF Withdraws

\* Cancelling withdraws everything; without a city there is nothing to cancel.
LEMMA CancelOK ==
  ASSUME World, manager \/ undoStack = <<>>
  PROVE  Withdraws(AfterCancel) /\ AfterCancel.stack = <<>> /\ (manager => AfterCancel.marks = {})
<1>1. AfterCancel = AfterRemoving(<<>>, PendingOcc)
  BY DEF AfterCancel
<1>2. CASE manager
  <2>1. PendingOcc \in SUBSET Occ /\ PendingOcc = OccupantsOf(<<>>) \cup PendingOcc
    BY OccupantsOfEmpty DEF PendingOcc, OccupantsOf
  <2>2. Len(<<>>) <= MaxUndoGroups /\ OccupantsOf(<<>>) \cap PendingOcc = {}
    BY OccupantsOfEmpty, BoundsAssumption
  <2>3. /\ ResultOK(AfterRemoving(<<>>, PendingOcc))
        /\ AfterRemoving(<<>>, PendingOcc).city = inCity \ PendingOcc
        /\ AfterRemoving(<<>>, PendingOcc).marks = marked \ PendingOcc
    BY <1>2, <2>1, <2>2, OccupantsOfEmpty, RemovingOK
  <2>4. marked \ PendingOcc = {}
    BY DEF World, WorldOK, PendingOcc
  <2>5. AfterRemoving(<<>>, PendingOcc).stack = <<>>
    BY DEF AfterRemoving
  <2> QED BY <1>1, <2>1, <2>3, <2>4, <2>5, OccupantsOfEmpty DEF Withdraws
<1>3. CASE ~manager /\ undoStack = <<>>
  <2>1. /\ AfterCancel.stack = undoStack /\ AfterCancel.city = inCity
        /\ AfterCancel.marks = marked
    BY <1>1, <1>3 DEF AfterRemoving, RemoveFrom
  <2>2. {} \in SUBSET PendingOcc /\ inCity = inCity \ {} /\ marked = marked \ {}
    OBVIOUS
  <2>3. Withdraws(AfterCancel)
    BY <2>1, <2>2 DEF Withdraws, ResultOK, World, PendingOcc
  <2> QED BY <1>3, <2>1, <2>3
<1> QED BY <1>2, <1>3

\* What committing guarantees.
Commits(r) ==
  ResultOK(r) /\ r.city = inCity /\ r.marks = {} /\ OccupantsOf(r.stack) = {}

LEMMA CommitOK ==
  ASSUME World
  PROVE  Commits(AfterCommit) /\ AfterCommit.stack = <<>>
<1>1. /\ AfterCommit.stack = <<>> /\ AfterCommit.city = inCity
      /\ AfterCommit.marks = marked \ PendingOcc
  BY DEF AfterCommit
<1>2. marked \ PendingOcc = {} /\ inCity \in SUBSET Occ
  BY DEF World, WorldOK, PendingOcc
<1> QED BY <1>1, <1>2, OccupantsOfEmpty, BoundsAssumption DEF Commits, ResultOK, WorldOK

\* The switch policy withdraws or commits; KeepPending withdraws nothing.
LEMMA PolicyOK ==
  ASSUME World, manager \/ undoStack = <<>>, policy \in Policies
  PROVE  /\ Withdraws(AfterPolicy) \/ Commits(AfterPolicy)
         /\ undoStack = <<>> => AfterPolicy.stack = <<>>
         /\ marked = {} => AfterPolicy.marks = {}
<1>1. CASE policy = "Discard"
  <2>1. AfterPolicy = AfterCancel
    BY <1>1 DEF AfterPolicy
  <2>2. AfterCancel.marks \subseteq marked
    BY CancelOK DEF Withdraws
  <2> QED BY <2>1, <2>2, CancelOK
<1>2. CASE policy = "Commit"
  <2>1. AfterPolicy = AfterCommit
    BY <1>2 DEF AfterPolicy
  <2> QED BY <2>1, CommitOK DEF Commits
<1>3. CASE policy = "KeepPending"
  <2>1. /\ AfterPolicy.stack = undoStack /\ AfterPolicy.city = inCity
        /\ AfterPolicy.marks = marked
    BY <1>3 DEF AfterPolicy, Unaltered
  <2>2. {} \in SUBSET PendingOcc /\ inCity = inCity \ {} /\ marked = marked \ {}
    OBVIOUS
  <2>3. Withdraws(AfterPolicy)
    BY <2>1, <2>2 DEF Withdraws, ResultOK, World, PendingOcc
  <2> QED BY <2>1, <2>3
<1> QED BY <1>1, <1>2, <1>3 DEF Policies

-----------------------------------------------------------------------------
(* The inductive invariant: types, a sound world, and what ties the preview *)
(* and the director's flags to it.                                         *)

ChoiceTypes ==
  /\ state \in States
  /\ target \in Types \cup {NoType} /\ direct \in Types \cup {NoType}
  /\ palette \in SUBSET Types
  /\ mode \in Modes /\ previewMode \in PreviewModes
  /\ points \in Nat
  /\ cancelPending \in BOOLEAN /\ manager \in BOOLEAN
  /\ current \in BOOLEAN /\ painting \in BOOLEAN
  /\ policy \in Policies

PreviewTypes ==
  /\ preview \in Occ \cup {NoOcc} /\ previewType \in Types \cup {NoType}
  /\ stale \in BOOLEAN

IInv ==
  /\ ChoiceTypes /\ PreviewTypes /\ World
  /\ PreviewConfined /\ OnScreenIsPainting /\ NothingProvisionalSaved

\* The invariant implies the checked ones.
LEMMA IInvImplies == IInv => TypeOK /\ UndoStackSound /\ HighlightIsPending
<1> SUFFICES ASSUME IInv PROVE TypeOK /\ UndoStackSound /\ HighlightIsPending
  OBVIOUS
<1>1. StackOK(undoStack) /\ marked = PendingOcc \cap inCity /\ inCity \in SUBSET Occ
  BY DEF IInv, World, WorldOK, PendingOcc
<1>2. TypeOK
  BY <1>1 DEF IInv, ChoiceTypes, PreviewTypes, TypeOK, StackOK
<1>3. UndoStackSound
  BY DEF IInv, World, WorldOK, StackOK, NoEmptyGroup, NoneTwice, UndoStackSound
<1> QED BY <1>1, <1>2, <1>3 DEF HighlightIsPending

LEMMA InitIInv == Init => IInv
<1> SUFFICES ASSUME Init PROVE IInv
  OBVIOUS
<1>1. World
  BY OccupantsOfEmpty, BoundsAssumption DEF Init, World, WorldOK
<1>2. ChoiceTypes
  BY DEF Init, ChoiceTypes, States, Modes, PreviewModes
<1>3. PreviewTypes /\ PreviewConfined /\ OnScreenIsPainting /\ NothingProvisionalSaved
  BY DEF Init, PreviewTypes, PreviewConfined, OnScreenIsPainting, NothingProvisionalSaved
<1> QED BY <1>1, <1>2, <1>3 DEF IInv

-----------------------------------------------------------------------------
(* A step in two halves: the undo stack and the highlights get their next   *)
(* values and the city becomes w; then the preview is synchronised.        *)

Before(w) ==
  /\ WorldOK(undoStack', w, marked')
  /\ preview # NoOcc => /\ preview \in w /\ preview \notin OccupantsOf(undoStack')
                        /\ manager /\ manager'

After(w) ==
  /\ World' /\ PreviewTypes'
  /\ preview' # NoOcc => /\ ShowsModel' /\ manager'
                         /\ previewType' = direct'
                         /\ preview' \in inCity'
                         /\ preview' \notin PendingOcc'
  /\ Permanent' = w \ (marked' \cup {preview})

LEMMA SyncPreviewOK ==
  ASSUME PreviewTypes, NEW w, NEW stl, Before(w), direct' \in Types \cup {NoType},
         SyncPreview(w, stl)
  PROVE  After(w)
<1> DEFINE keep == preview # NoOcc /\ previewType = direct' /\ ~stl
           without == RemoveFrom(w, {preview}, manager')
<1>1. without = w \ {preview}
  <2>1. w \subseteq Occ
    BY DEF Before, WorldOK
  <2>2. CASE preview = NoOcc
    BY <2>1, <2>2, OccAssumption DEF RemoveFrom
  <2>3. CASE preview # NoOcc
    BY <2>3 DEF Before, RemoveFrom
  <2> QED BY <2>2, <2>3
<1>2. w \in SUBSET Occ /\ marked' = OccupantsOf(undoStack') \cap w
      /\ StackOK(undoStack') /\ Len(undoStack') <= MaxUndoGroups
  BY DEF Before, WorldOK
<1>3. preview \notin OccupantsOf(undoStack')
  BY OccAssumption DEF Before, OccupantsOf
<1>4. CASE /\ ShowsModel' /\ keep
           /\ inCity' = w
           /\ UNCHANGED <<preview, previewType>>
           /\ stale' = FALSE
  <2>1. World'
    BY <1>2, <1>4 DEF World, WorldOK
  <2>2. Permanent' = w \ (marked' \cup {preview})
    BY <1>4 DEF Permanent
  <2> QED BY <1>4, <2>1, <2>2 DEF After, Before, PreviewTypes, PendingOcc
<1>5. CASE /\ ShowsModel' /\ ~keep /\ manager'
           /\ \E o \in Occ \ (w \cup PendingOcc') :
                preview' = o /\ inCity' = without \cup {o}
           /\ previewType' = direct' /\ stale' = FALSE
  <2>1. PICK o \in Occ \ (w \cup PendingOcc') : preview' = o /\ inCity' = without \cup {o}
    BY <1>5
  <2>2. o \notin OccupantsOf(undoStack') /\ o # NoOcc
    BY <2>1, OccAssumption DEF PendingOcc
  <2>3. inCity' \in SUBSET Occ /\ marked' = OccupantsOf(undoStack') \cap inCity'
    BY <1>1, <1>2, <1>3, <2>1, <2>2
  <2>4. World'
    BY <1>2, <2>3 DEF World, WorldOK
  <2>5. Permanent' = w \ (marked' \cup {preview})
    BY <1>1, <1>2, <1>3, <2>1, <2>2 DEF Permanent
  <2> QED BY <1>5, <2>1, <2>2, <2>4, <2>5 DEF After, PreviewTypes
<1>6. CASE /\ ~(ShowsModel' /\ keep)
           /\ NoPreview
           /\ inCity' = without
  <2>1. inCity' \in SUBSET Occ /\ marked' = OccupantsOf(undoStack') \cap inCity'
    BY <1>1, <1>2, <1>3, <1>6
  <2>2. World'
    BY <1>2, <2>1 DEF World, WorldOK
  <2>3. Permanent' = w \ (marked' \cup {preview})
    BY <1>1, <1>2, <1>6, OccAssumption DEF Permanent, NoPreview
  <2> QED BY <1>6, <2>2, <2>3 DEF After, PreviewTypes, NoPreview
<1> QED BY <1>4, <1>5, <1>6 DEF SyncPreview

LEMMA DestroyPreviewOK ==
  ASSUME PreviewTypes, NEW w, Before(w), DestroyPreview(w)
  PROVE  After(w) /\ preview' = NoOcc
<1>1. w \in SUBSET Occ /\ marked' = OccupantsOf(undoStack') \cap w
      /\ StackOK(undoStack') /\ Len(undoStack') <= MaxUndoGroups
  BY DEF Before, WorldOK
<1>2. preview \notin OccupantsOf(undoStack')
  BY OccAssumption DEF Before, OccupantsOf
<1>3. inCity' = w \ {preview}
  <2>1. CASE preview = NoOcc
    BY <1>1, <2>1, OccAssumption DEF DestroyPreview, RemoveFrom
  <2>2. CASE preview # NoOcc
    BY <2>2 DEF DestroyPreview, Before, RemoveFrom
  <2> QED BY <2>1, <2>2
<1>4. inCity' \in SUBSET Occ /\ marked' = OccupantsOf(undoStack') \cap inCity'
  BY <1>1, <1>2, <1>3
<1>5. World'
  BY <1>1, <1>4 DEF World, WorldOK
<1>6. Permanent' = w \ (marked' \cup {preview})
  BY <1>1, <1>3, OccAssumption DEF Permanent, DestroyPreview, NoPreview
<1> QED BY <1>5, <1>6 DEF After, PreviewTypes, DestroyPreview, NoPreview

\* The preview stays as it is.
LEMMA PreviewStaysOK ==
  ASSUME PreviewTypes, PreviewConfined, NEW w, Before(w), inCity' = w,
         UNCHANGED previewed, preview # NoOcc => UNCHANGED <<state, direct, previewMode>>
  PROVE  After(w)
<1>1. World'
  BY DEF Before, World
<1>2. Permanent' = w \ (marked' \cup {preview})
  BY DEF Permanent, previewed
<1> QED BY <1>1, <1>2 DEF After, Before, PreviewTypes, PreviewConfined, ShowsModel, PendingOcc,
                          previewed

-----------------------------------------------------------------------------
(* What the first half of a step comes to.                                 *)

\* Withdrawing and committing leave the preview occupant in the city.
LEMMA WithdrawsBefore ==
  ASSUME IInv, NEW r, Withdraws(r) \/ Commits(r),
         undoStack' = r.stack, marked' = r.marks, manager' \/ UNCHANGED manager \/ preview = NoOcc
  PROVE  Before(r.city)
<1>1. WorldOK(undoStack', r.city, marked')
  BY DEF Withdraws, Commits, ResultOK
<1>2. ASSUME preview # NoOcc
      PROVE  /\ preview \in r.city /\ preview \notin OccupantsOf(undoStack')
             /\ manager /\ manager'
  <2>1. preview \in inCity /\ preview \notin PendingOcc /\ manager
    BY <1>2 DEF IInv, PreviewConfined
  <2>2. preview \in r.city /\ preview \notin OccupantsOf(r.stack)
    BY <2>1 DEF Withdraws, Commits
  <2> QED BY <1>2, <2>1, <2>2
<1> QED BY <1>1, <1>2 DEF Before

LEMMA UnalteredBefore ==
  ASSUME IInv, UNCHANGED <<undoStack, marked>>,
         manager' \/ UNCHANGED manager \/ preview = NoOcc
  PROVE  Before(inCity)
<1>1. WorldOK(undoStack', inCity, marked')
  BY DEF IInv, World
<1> QED BY <1>1 DEF Before, IInv, PreviewConfined, PendingOcc

LEMMA PlacingBefore ==
  ASSUME IInv, NEW s \in PlaceResults,
         undoStack' = AfterPlacing(s).stack, marked' = AfterPlacing(s).marks, UNCHANGED manager
  PROVE  Before(AfterPlacing(s).city)
<1> DEFINE r == AfterPlacing(s)
           new == {s[i] : i \in DOMAIN s}
<1>1. /\ ResultOK(r)
      /\ new \cap (inCity \cup PendingOcc) = {}
      /\ OccupantsOf(r.stack) \subseteq PendingOcc \cup new
      /\ r.city = inCity \cup new
  BY PlacingOK DEF IInv
<1> HIDE DEF r, new
<1>2. WorldOK(undoStack', r.city, marked')
  BY <1>1 DEF ResultOK, r
<1>3. undoStack' = r.stack
  BY DEF r
<1> QED BY <1>1, <1>2, <1>3 DEF Before, IInv, PreviewConfined, r

-----------------------------------------------------------------------------
(* What a step means for the abstract specification.                       *)

\* A step of the tool, which is every step but one of RemovedByOthers.
Implements ==
  \/ \E new, forgotten \in SUBSET Occ : Abstract!Paint(new, forgotten)
  \/ \E gone \in SUBSET marked : Abstract!Withdraw(gone)
  \/ Abstract!CommitAll
  \/ UNCHANGED <<marked, Permanent>>

LEMMA WithdrawsImplements ==
  ASSUME World, NEW r, Withdraws(r), marked' = r.marks,
         Permanent' = r.city \ (marked' \cup {preview})
  PROVE  Implements
<1>1. PICK gone \in SUBSET PendingOcc : r.city = inCity \ gone /\ r.marks = marked \ gone
  BY DEF Withdraws
<1>2. marked = PendingOcc \cap inCity
  BY DEF World, WorldOK, PendingOcc
<1>3. Permanent' = Permanent
  BY <1>1, <1>2 DEF Permanent
<1>4. marked' = marked \ (gone \cap marked)
  BY <1>1
<1>5. Abstract!Withdraw(gone \cap marked)
  BY <1>3, <1>4 DEF Abstract!Withdraw
<1>6. gone \cap marked \in SUBSET marked
  OBVIOUS
<1> QED BY <1>5, <1>6 DEF Implements

LEMMA CommitsImplements ==
  ASSUME IInv, NEW r, Commits(r), marked' = r.marks,
         Permanent' = r.city \ (marked' \cup {preview})
  PROVE  Implements
<1>1. preview \notin marked /\ marked \subseteq inCity
  BY OccAssumption DEF IInv, World, WorldOK, PreviewConfined, PendingOcc
<1>2. Permanent' = Permanent \cup marked /\ marked' = {}
  BY <1>1 DEF Permanent, Commits
<1> QED BY <1>2 DEF Implements, Abstract!CommitAll

LEMMA PlacingImplements ==
  ASSUME IInv, NEW s \in PlaceResults, marked' = AfterPlacing(s).marks,
         Permanent' = AfterPlacing(s).city \ (marked' \cup {preview})
  PROVE  Implements
<1> DEFINE r == AfterPlacing(s)
           new == {s[i] : i \in DOMAIN s}
           forgotten == marked \ r.marks
<1>1. /\ new \cap (inCity \cup PendingOcc) = {}
      /\ new \in SUBSET Occ
      /\ r.city = inCity \cup new
      /\ r.marks \subseteq marked \cup new
      /\ new \subseteq r.marks
  BY PlacingOK DEF IInv
<1>2. marked' = r.marks /\ Permanent' = r.city \ (marked' \cup {preview})
  OBVIOUS
<1>3. preview \notin marked /\ marked \subseteq inCity /\ marked \in SUBSET Occ
  BY OccAssumption DEF IInv, World, WorldOK, PreviewConfined, PendingOcc
<1> HIDE DEF r, new
<1>4. marked' = (marked \ forgotten) \cup new
  BY <1>1, <1>2
<1>5. Permanent' = Permanent \cup forgotten
  BY <1>1, <1>2, <1>3 DEF Permanent
<1>6. new \cap (marked \cup Permanent) = {}
  BY <1>1, <1>3 DEF Permanent
<1>7. forgotten \in SUBSET Occ /\ forgotten \subseteq marked
  BY <1>3
<1> HIDE DEF forgotten
<1>8. Abstract!Paint(new, forgotten)
  BY <1>4, <1>5, <1>6, <1>7 DEF Abstract!Paint
<1> QED BY <1>1, <1>7, <1>8 DEF Implements

LEMMA UnalteredImplements ==
  ASSUME UNCHANGED marked, Permanent' = inCity \ (marked' \cup {preview})
  PROVE  Implements
BY DEF Implements, Permanent

-----------------------------------------------------------------------------
(* Every input handler preserves the invariant and implements a step.      *)

\* Facts every input handler relies on.
LEMMA TakingInput ==
  ASSUME IInv, TakesInput
  PROVE  /\ World /\ PreviewTypes /\ PreviewConfined /\ ChoiceTypes
         /\ current /\ manager /\ painting /\ target # NoType
         /\ state = ActiveStateForMode(mode) /\ points \in Nat
BY DEF IInv, TakesInput, OnScreenIsPainting, ChoiceTypes

\* A handler that stays in paint mode and ends with After(w).
LEMMA StaysPainting ==
  ASSUME IInv, TakesInput, ChoiceTypes', NEW w, After(w),
         UNCHANGED <<state, mode, target, current, painting, manager>>
  PROVE  IInv'
<1>1. current /\ manager /\ painting /\ target # NoType /\ state = ActiveStateForMode(mode)
  BY TakingInput
<1>2. PreviewConfined'
  BY <1>1 DEF After, PreviewConfined
<1>3. OnScreenIsPainting' /\ NothingProvisionalSaved'
  BY <1>1 DEF OnScreenIsPainting, NothingProvisionalSaved
<1> QED BY <1>2, <1>3 DEF IInv, After

LEMMA ClickDirectOK == IInv /\ ClickDirect => IInv' /\ Implements
<1> SUFFICES ASSUME IInv, ClickDirect PROVE IInv' /\ Implements
  OBVIOUS
<1>1. PICK s \in PlaceResults \ {<<>>} :
        /\ undoStack' = AfterPlacing(s).stack /\ marked' = AfterPlacing(s).marks
        /\ direct' \in PickFrom(target, palette)
        /\ UNCHANGED <<state, target, palette, mode, previewMode, points, session>>
        /\ SyncPreview(AfterPlacing(s).city, stale)
  BY DEF ClickDirect
<1>2. ChoiceTypes /\ PreviewTypes /\ TakesInput
  BY DEF IInv, ClickDirect
<1>3. direct' \in Types \cup {NoType}
  BY <1>1, <1>2 DEF PickFrom, ChoiceTypes
<1>4. Before(AfterPlacing(s).city)
  BY <1>1, PlacingBefore DEF session
<1>5. After(AfterPlacing(s).city)
  BY <1>1, <1>2, <1>3, <1>4, SyncPreviewOK
<1>6. ChoiceTypes'
  BY <1>1, <1>2, <1>3 DEF ChoiceTypes, session
<1>7. IInv'
  BY <1>1, <1>2, <1>5, <1>6, StaysPainting DEF session
<1>8. Implements
  BY <1>1, <1>5, PlacingImplements DEF After
<1> QED BY <1>7, <1>8

LEMMA ClickSketchOK == IInv /\ ClickSketch => IInv' /\ Implements
<1> SUFFICES ASSUME IInv, ClickSketch PROVE IInv' /\ Implements
  OBVIOUS
<1>1. /\ TakesInput /\ points' = points + 1
      /\ UNCHANGED <<state, chosen, previewed, world, session>>
  BY DEF ClickSketch
<1>2. Before(inCity)
  BY <1>1, UnalteredBefore DEF world, session
<1>3. After(inCity)
  BY <1>1, <1>2, PreviewStaysOK DEF world, chosen, IInv
<1>4. ChoiceTypes'
  BY <1>1 DEF IInv, ChoiceTypes, chosen, session
<1>5. IInv'
  BY <1>1, <1>3, <1>4, StaysPainting DEF chosen, session
<1>6. Implements
  BY <1>1, <1>3, UnalteredImplements DEF world, After
<1> QED BY <1>5, <1>6

LEMMA MoveOrAdjustOK == IInv /\ MoveOrAdjust => IInv' /\ Implements
<1> SUFFICES ASSUME IInv, MoveOrAdjust PROVE IInv' /\ Implements
  OBVIOUS
<1>1. /\ TakesInput
      /\ UNCHANGED <<state, chosen, points, undoStack, marked, session>>
      /\ SyncPreview(inCity, stale)
  BY DEF MoveOrAdjust
<1>2. Before(inCity)
  BY <1>1, UnalteredBefore DEF session
<1>3. ChoiceTypes'
  BY <1>1 DEF IInv, ChoiceTypes, chosen, session
<1>4. After(inCity)
  BY <1>1, <1>2, <1>3, SyncPreviewOK DEF IInv, ChoiceTypes
<1>5. IInv'
  BY <1>1, <1>3, <1>4, StaysPainting DEF chosen, session
<1>6. Implements
  BY <1>1, <1>4, UnalteredImplements DEF After
<1> QED BY <1>5, <1>6

LEMMA CyclePreviewModeOK == IInv /\ CyclePreviewMode => IInv' /\ Implements
<1> SUFFICES ASSUME IInv, CyclePreviewMode PROVE IInv' /\ Implements
  OBVIOUS
<1>1. /\ TakesInput
      /\ UNCHANGED <<state, target, palette, direct, mode, points, undoStack, marked, session>>
      /\ SyncPreview(inCity, stale)
  BY DEF CyclePreviewMode
<1>2. Before(inCity)
  BY <1>1, UnalteredBefore DEF session
<1>3. ChoiceTypes'
  <2>1. previewMode' \in PreviewModes
    BY DEF CyclePreviewMode, IInv, ChoiceTypes, PreviewModes
  <2> QED BY <1>1, <2>1 DEF IInv, ChoiceTypes, session
<1>4. After(inCity)
  BY <1>1, <1>2, <1>3, SyncPreviewOK DEF IInv, ChoiceTypes
<1>5. IInv'
  BY <1>1, <1>3, <1>4, StaysPainting DEF session
<1>6. Implements
  BY <1>1, <1>4, UnalteredImplements DEF After
<1> QED BY <1>5, <1>6

LEMMA RemoveSketchPointOK == IInv /\ RemoveSketchPoint => IInv' /\ Implements
<1> SUFFICES ASSUME IInv, RemoveSketchPoint PROVE IInv' /\ Implements
  OBVIOUS
<1>1. /\ TakesInput /\ points > 0 /\ points' = points - 1
      /\ UNCHANGED <<state, chosen, previewed, world, session>>
  BY DEF RemoveSketchPoint, HasPendingSketch
<1>2. Before(inCity)
  BY <1>1, UnalteredBefore DEF world, session
<1>3. After(inCity)
  BY <1>1, <1>2, PreviewStaysOK DEF world, chosen, IInv
<1>4. ChoiceTypes'
  BY <1>1 DEF IInv, ChoiceTypes, chosen, session
<1>5. IInv'
  BY <1>1, <1>3, <1>4, StaysPainting DEF chosen, session
<1>6. Implements
  BY <1>1, <1>3, UnalteredImplements DEF world, After
<1> QED BY <1>5, <1>6

\* A handler that withdraws or commits and leaves the preview alone.
LEMMA InputResolves ==
  ASSUME IInv, TakesInput, ChoiceTypes', NEW r, Withdraws(r) \/ Commits(r),
         undoStack' = r.stack, inCity' = r.city, marked' = r.marks,
         UNCHANGED <<state, chosen, previewed, manager, current, painting>>
  PROVE  IInv' /\ Implements
<1>1. Before(r.city)
  BY WithdrawsBefore
<1>2. After(r.city)
  BY <1>1, PreviewStaysOK DEF chosen, IInv
<1>3. IInv'
  BY <1>2, StaysPainting DEF chosen
<1>4. Implements
  BY <1>2, WithdrawsImplements, CommitsImplements DEF After, IInv
<1> QED BY <1>3, <1>4

LEMMA UndoLastPlacementOK == IInv /\ UndoLastPlacement => IInv' /\ Implements
<1> SUFFICES ASSUME IInv, UndoLastPlacement PROVE IInv' /\ Implements
  OBVIOUS
<1>1. /\ TakesInput /\ undoStack # <<>>
      /\ undoStack' = AfterUndo.stack /\ inCity' = AfterUndo.city /\ marked' = AfterUndo.marks
      /\ UNCHANGED <<state, chosen, points, previewed, session>>
  BY DEF UndoLastPlacement
<1>2. Withdraws(AfterUndo)
  BY <1>1, TakingInput, UndoOK
<1>3. ChoiceTypes'
  BY <1>1 DEF IInv, ChoiceTypes, chosen, session
<1> QED BY <1>1, <1>2, <1>3, InputResolves DEF session

LEMMA UndoLastPlacementInGroupOK == IInv /\ UndoLastPlacementInGroup => IInv' /\ Implements
<1> SUFFICES ASSUME IInv, UndoLastPlacementInGroup PROVE IInv' /\ Implements
  OBVIOUS
<1>1. /\ TakesInput /\ undoStack # <<>>
      /\ undoStack' = AfterUndoInGroup.stack /\ inCity' = AfterUndoInGroup.city
      /\ marked' = AfterUndoInGroup.marks
      /\ UNCHANGED <<state, chosen, points, previewed, session>>
  BY DEF UndoLastPlacementInGroup
<1>2. Withdraws(AfterUndoInGroup)
  BY <1>1, TakingInput, UndoInGroupOK
<1>3. ChoiceTypes'
  BY <1>1 DEF IInv, ChoiceTypes, chosen, session
<1> QED BY <1>1, <1>2, <1>3, InputResolves DEF session

LEMMA PlaceSketchOK == IInv /\ PlaceSketch => IInv' /\ Implements
<1> SUFFICES ASSUME IInv, PlaceSketch PROVE IInv' /\ Implements
  OBVIOUS
<1>1. PICK s \in PlaceResults :
        /\ undoStack' = AfterPlacing(s).stack /\ inCity' = AfterPlacing(s).city
        /\ marked' = AfterPlacing(s).marks
  BY DEF PlaceSketch
<1>2. TakesInput /\ points' = 0 /\ UNCHANGED <<state, chosen, previewed, session>>
  BY DEF PlaceSketch
<1>3. ChoiceTypes'
  BY <1>2 DEF IInv, ChoiceTypes, chosen, session
<1>4. Before(AfterPlacing(s).city)
  BY <1>1, <1>2, PlacingBefore DEF session
<1>5. After(AfterPlacing(s).city)
  BY <1>1, <1>2, <1>4, PreviewStaysOK DEF IInv, chosen
<1>6. IInv'
  BY <1>2, <1>3, <1>5, StaysPainting DEF chosen, session
<1>7. Implements
  BY <1>1, <1>5, PlacingImplements DEF After
<1> QED BY <1>6, <1>7

LEMMA EnterCommitsOK == IInv /\ EnterCommits => IInv' /\ Implements
<1> SUFFICES ASSUME IInv, EnterCommits PROVE IInv' /\ Implements
  OBVIOUS
<1>1. /\ TakesInput
      /\ undoStack' = AfterCommit.stack /\ inCity' = AfterCommit.city /\ marked' = AfterCommit.marks
      /\ UNCHANGED <<state, chosen, points, previewed, session>>
  BY DEF EnterCommits
<1>2. Commits(AfterCommit)
  BY CommitOK DEF IInv
<1>3. ChoiceTypes'
  BY <1>1 DEF IInv, ChoiceTypes, chosen, session
<1> QED BY <1>1, <1>2, <1>3, InputResolves DEF session

LEMMA EscOrRightClickOK == IInv /\ EscOrRightClick => IInv' /\ Implements
<1> SUFFICES ASSUME IInv, EscOrRightClick PROVE IInv' /\ Implements
  OBVIOUS
<1>1. /\ TakesInput /\ points' = 0 /\ cancelPending' = TRUE
      /\ undoStack' = AfterCancel.stack /\ inCity' = AfterCancel.city /\ marked' = AfterCancel.marks
      /\ UNCHANGED <<state, chosen, previewed, manager, current, painting, policy>>
  BY DEF EscOrRightClick
<1>2. Withdraws(AfterCancel)
  BY <1>1, TakingInput, CancelOK
<1>3. ChoiceTypes'
  BY <1>1 DEF IInv, ChoiceTypes, chosen
<1> QED BY <1>1, <1>2, <1>3, InputResolves

-----------------------------------------------------------------------------
(* The director and the game.                                              *)

\* Without a city the undo stack is empty.
LEMMA CanCancel == ASSUME IInv PROVE manager \/ undoStack = <<>>
BY DEF IInv, NothingProvisionalSaved

\* The control is dropped after withdrawing, committing or neither.
LEMMA DeactivateOK ==
  ASSUME IInv, current, NEW r, Withdraws(r) \/ Commits(r),
         undoStack' = r.stack, marked' = r.marks, Deactivate(r.city),
         UNCHANGED <<chosen, manager, policy>>,
         cancelPending' \in BOOLEAN, painting' \in BOOLEAN
  PROVE  IInv' /\ Implements
<1>1. manager /\ manager'
  BY DEF IInv, OnScreenIsPainting
<1>2. points' = 0 /\ current' = FALSE /\ state' \in States /\ DestroyPreview(r.city)
  BY DEF Deactivate, ReadyState, States, ReadyStates
<1>3. Before(r.city)
  BY <1>1, WithdrawsBefore
<1>4. After(r.city) /\ preview' = NoOcc
  BY <1>2, <1>3, DestroyPreviewOK DEF IInv
<1>5. ChoiceTypes'
  BY <1>2 DEF IInv, ChoiceTypes, chosen
<1>6. PreviewConfined' /\ OnScreenIsPainting' /\ NothingProvisionalSaved'
  BY <1>1, <1>2, <1>4 DEF PreviewConfined, OnScreenIsPainting, NothingProvisionalSaved
<1>7. Implements
  BY <1>4, WithdrawsImplements, CommitsImplements DEF After, IInv
<1> QED BY <1>4, <1>5, <1>6, <1>7 DEF IInv, After

\* A result that changes nothing counts as a withdrawal of nothing.
LEMMA UnalteredWithdraws ==
  ASSUME World
  PROVE  /\ Withdraws(Unaltered) /\ Unaltered.stack = undoStack
         /\ Unaltered.city = inCity /\ Unaltered.marks = marked
<1>1. {} \in SUBSET PendingOcc /\ inCity = inCity \ {} /\ marked = marked \ {}
  OBVIOUS
<1>2. Unaltered.stack = undoStack /\ Unaltered.city = inCity /\ Unaltered.marks = marked
  BY DEF Unaltered
<1> QED BY <1>1, <1>2 DEF Withdraws, ResultOK, World, PendingOcc

LEMMA TickOK == IInv /\ Tick => IInv' /\ Implements
<1> SUFFICES ASSUME IInv, Tick PROVE IInv' /\ Implements
  OBVIOUS
<1>1. CASE /\ cancelPending /\ current
           /\ cancelPending' = FALSE /\ painting' = FALSE
           /\ Deactivate(inCity)
           /\ UNCHANGED <<chosen, undoStack, marked, manager, policy>>
  <2>1. Withdraws(Unaltered) /\ undoStack' = Unaltered.stack /\ marked' = Unaltered.marks
        /\ Deactivate(Unaltered.city)
    BY <1>1, UnalteredWithdraws DEF IInv
  <2> QED BY <1>1, <2>1, DeactivateOK
<1>2. CASE /\ cancelPending /\ ~current
           /\ cancelPending' = FALSE /\ painting' = FALSE
           /\ UNCHANGED <<state, chosen, points, previewed, world, manager, current, policy>>
  <2>1. World' /\ PreviewTypes' /\ UNCHANGED <<marked, Permanent>>
    BY <1>2 DEF IInv, World, PreviewTypes, previewed, world, Permanent
  <2>2. ChoiceTypes'
    BY <1>2 DEF IInv, ChoiceTypes, chosen
  <2>3. PreviewConfined'
    BY <1>2 DEF IInv, PreviewConfined, ShowsModel, PendingOcc, previewed, world, chosen
  <2>4. OnScreenIsPainting' /\ NothingProvisionalSaved'
    BY <1>2 DEF IInv, OnScreenIsPainting, NothingProvisionalSaved, previewed, world
  <2> QED BY <2>1, <2>2, <2>3, <2>4 DEF IInv, Implements
<1>3. CASE /\ ~cancelPending /\ preview # NoOcc /\ stale
           /\ UNCHANGED <<state, chosen, points, undoStack, marked, session>>
           /\ SyncPreview(inCity, stale)
  <2>1. TakesInput
    BY <1>3 DEF IInv, PreviewConfined, ShowsModel, TakesInput, TargetActiveStates
  <2>2. MoveOrAdjust
    BY <1>3, <2>1 DEF MoveOrAdjust
  <2> QED BY <2>2, MoveOrAdjustOK
<1> QED BY <1>1, <1>2, <1>3 DEF Tick

\* What Choose sets has the right types, whatever state follows from it.
LEMMA ChooseOK ==
  ASSUME ChoiceTypes, NEW t \in Types, NEW pal \in Palettes, NEW m \in Modes,
         NEW pm \in StartPreviews, Choose(t, pal, m, pm)
  PROVE  /\ target' \in Types /\ target' # NoType /\ direct' \in Types
         /\ palette' \in SUBSET Types
         /\ mode' = m /\ m \in Modes /\ previewMode' \in PreviewModes
         /\ points' \in Nat
         /\ ActiveStateForMode(m) \in States
<1>1. target' = t /\ t # NoType
  BY TypesAssumption DEF Choose
<1>2. pal \in SUBSET Types /\ pm \in PreviewModes
  BY TypesAssumption, BoundsAssumption DEF PreviewModes
<1>3. direct' \in Types
  BY <1>2 DEF Choose, PickFrom
<1>4. points' \in Nat
  BY DEF Choose, ChoiceTypes
<1>5. ActiveStateForMode(m) \in States
  BY DEF Modes, ActiveStateForMode, States, ActiveStates, TargetActiveStates
<1> QED BY <1>1, <1>2, <1>3, <1>4, <1>5 DEF Choose

LEMMA RetargetPaintingOK ==
  ASSUME IInv, NEW t \in Types, NEW pal \in Palettes, NEW m \in Modes,
         NEW pm \in StartPreviews, RetargetPainting(t, pal, m, pm)
  PROVE  IInv' /\ Implements
<1>1. /\ painting /\ current /\ manager' = TRUE /\ Choose(t, pal, m, pm)
      /\ state' = ActiveStateForMode(m)
      /\ UNCHANGED <<cancelPending, current, painting, policy>>
      /\ undoStack' = AfterPolicy.stack /\ marked' = AfterPolicy.marks
  BY DEF RetargetPainting
<1>2. PICK stl : SyncPreview(AfterPolicy.city, stl)
  BY DEF RetargetPainting
<1>3. Withdraws(AfterPolicy) \/ Commits(AfterPolicy)
  BY PolicyOK, CanCancel DEF IInv, ChoiceTypes
<1>4. /\ target' \in Types /\ target' # NoType /\ direct' \in Types
      /\ palette' \in SUBSET Types
      /\ mode' = m /\ m \in Modes /\ previewMode' \in PreviewModes
      /\ points' \in Nat /\ ActiveStateForMode(m) \in States
  BY <1>1, ChooseOK DEF IInv
<1>5. Before(AfterPolicy.city)
  BY <1>1, <1>3, WithdrawsBefore
<1>6. After(AfterPolicy.city)
  BY <1>2, <1>4, <1>5, SyncPreviewOK DEF IInv
<1>7. ChoiceTypes'
  BY <1>1, <1>4 DEF IInv, ChoiceTypes
<1>8. PreviewConfined' /\ OnScreenIsPainting' /\ NothingProvisionalSaved'
  BY <1>1, <1>4, <1>6 DEF After, PreviewConfined, OnScreenIsPainting, NothingProvisionalSaved
<1>9. Implements
  BY <1>1, <1>3, <1>6, WithdrawsImplements, CommitsImplements DEF After, IInv
<1> QED BY <1>6, <1>7, <1>8, <1>9 DEF IInv, After

LEMMA StartPaintingOK ==
  ASSUME IInv, NEW t \in Types, NEW pal \in Palettes, NEW m \in Modes,
         NEW pm \in StartPreviews, StartPainting(t, pal, m, pm)
  PROVE  IInv' /\ Implements
<1>1. /\ manager' = TRUE /\ Choose(t, pal, m, pm)
      /\ state' = ActiveStateForMode(m) /\ current' = TRUE /\ painting' = TRUE
      /\ UNCHANGED <<undoStack, marked, cancelPending, policy>>
      /\ SyncPreview(inCity, TRUE)
  BY DEF StartPainting
<1>2. /\ target' \in Types /\ target' # NoType /\ direct' \in Types
      /\ palette' \in SUBSET Types
      /\ mode' = m /\ m \in Modes /\ previewMode' \in PreviewModes
      /\ points' \in Nat /\ ActiveStateForMode(m) \in States
  BY <1>1, ChooseOK DEF IInv
<1>3. Before(inCity)
  BY <1>1, UnalteredBefore
<1>4. After(inCity)
  BY <1>1, <1>2, <1>3, SyncPreviewOK DEF IInv
<1>5. ChoiceTypes'
  BY <1>1, <1>2 DEF IInv, ChoiceTypes
<1>6. PreviewConfined' /\ OnScreenIsPainting' /\ NothingProvisionalSaved'
  BY <1>1, <1>2, <1>4 DEF After, PreviewConfined, OnScreenIsPainting, NothingProvisionalSaved
<1>7. Implements
  BY <1>1, <1>4, UnalteredImplements DEF After
<1> QED BY <1>4, <1>5, <1>6, <1>7 DEF IInv, After

LEMMA StartRefusedOK ==
  ASSUME IInv, NEW t \in Types, NEW pal \in Palettes, NEW m \in Modes,
         NEW pm \in StartPreviews, StartRefused(t, pal, m, pm)
  PROVE  IInv' /\ Implements
<1>1. /\ ~(painting /\ current) /\ manager' = TRUE /\ Choose(t, pal, m, pm)
      /\ state' = "ReadyWithTarget"
      /\ UNCHANGED <<undoStack, marked, cancelPending, current, painting, policy>>
      /\ DestroyPreview(inCity)
  BY DEF StartRefused
<1>2. /\ target' \in Types /\ direct' \in Types /\ palette' \in SUBSET Types
      /\ mode' = m /\ m \in Modes /\ previewMode' \in PreviewModes /\ points' \in Nat
  BY <1>1, ChooseOK DEF IInv
<1>3. Before(inCity)
  BY <1>1, UnalteredBefore
<1>4. After(inCity) /\ preview' = NoOcc
  BY <1>1, <1>3, DestroyPreviewOK DEF IInv
<1>5. ChoiceTypes'
  BY <1>1, <1>2 DEF IInv, ChoiceTypes, States, ReadyStates
<1>6. ~current'
  BY <1>1 DEF IInv, OnScreenIsPainting
<1>7. PreviewConfined' /\ OnScreenIsPainting' /\ NothingProvisionalSaved'
  BY <1>1, <1>4, <1>6 DEF PreviewConfined, OnScreenIsPainting, NothingProvisionalSaved
<1>8. Implements
  BY <1>1, <1>4, UnalteredImplements DEF After
<1> QED BY <1>4, <1>5, <1>7, <1>8 DEF IInv, After

\* The control was not on screen, so there is no preview to destroy.
LEMMA OffScreenOK ==
  ASSUME IInv, ~current, NEW r, Withdraws(r) \/ Commits(r),
         undoStack' = r.stack, marked' = r.marks, inCity' = r.city,
         undoStack = <<>> => undoStack' = <<>>, marked = {} => marked' = {},
         UNCHANGED <<state, previewed, current, chosen, cancelPending, manager, policy>>,
         painting' = FALSE, points' \in Nat, points = 0 => points' = 0
  PROVE  IInv' /\ Implements
<1>1. preview = NoOcc
  BY DEF IInv, PreviewConfined
<1>2. Before(r.city)
  BY WithdrawsBefore
<1>3. After(r.city)
  BY <1>1, <1>2, PreviewStaysOK DEF IInv, previewed
<1>4. ChoiceTypes'
  BY DEF IInv, ChoiceTypes, chosen
<1>5. PreviewConfined' /\ OnScreenIsPainting' /\ NothingProvisionalSaved'
  BY <1>1 DEF IInv, PreviewConfined, OnScreenIsPainting, NothingProvisionalSaved, previewed
<1>6. Implements
  BY <1>3, WithdrawsImplements, CommitsImplements DEF After, IInv
<1> QED BY <1>3, <1>4, <1>5, <1>6 DEF IInv, After

LEMMA StopPaintingOK == IInv /\ StopPainting => IInv' /\ Implements
<1> SUFFICES ASSUME IInv, StopPainting PROVE IInv' /\ Implements
  OBVIOUS
<1>1. /\ undoStack' = AfterCancel.stack /\ marked' = AfterCancel.marks
      /\ IF current THEN Deactivate(AfterCancel.city)
         ELSE inCity' = AfterCancel.city /\ points' = 0 /\ UNCHANGED <<state, previewed, current>>
      /\ painting' = FALSE
      /\ UNCHANGED <<chosen, cancelPending, manager, policy>>
  BY DEF StopPainting, CancelAndDrop
<1>2. /\ Withdraws(AfterCancel) /\ AfterCancel.stack = <<>>
      /\ AfterCancel.marks \subseteq marked
  BY CancelOK, CanCancel DEF IInv, Withdraws
<1>3. CASE current
  BY <1>1, <1>2, <1>3, DeactivateOK DEF IInv, ChoiceTypes
<1>4. CASE ~current
  <2>1. marked = {} => marked' = {}
    BY <1>1, <1>2
  <2>2. /\ points' = 0 /\ points' \in Nat
        /\ inCity' = AfterCancel.city /\ undoStack' = <<>>
        /\ UNCHANGED <<state, previewed, current, chosen, cancelPending, manager, policy>>
    BY <1>1, <1>2, <1>4
  <2> QED BY <1>1, <1>2, <1>4, <2>1, <2>2, OffScreenOK
<1> QED BY <1>3, <1>4

LEMMA ReplacedByToolOK == IInv /\ ReplacedByTool => IInv' /\ Implements
<1> SUFFICES ASSUME IInv, ReplacedByTool PROVE IInv' /\ Implements
  OBVIOUS
<1>1. /\ undoStack' = AfterPolicy.stack /\ marked' = AfterPolicy.marks
      /\ IF current THEN Deactivate(AfterPolicy.city)
         ELSE inCity' = AfterPolicy.city /\ UNCHANGED <<state, points, previewed, current>>
      /\ painting' = FALSE
      /\ UNCHANGED <<chosen, cancelPending, manager, policy>>
  BY DEF ReplacedByTool
<1>2. /\ Withdraws(AfterPolicy) \/ Commits(AfterPolicy)
      /\ undoStack = <<>> => AfterPolicy.stack = <<>>
      /\ marked = {} => AfterPolicy.marks = {}
  BY PolicyOK, CanCancel DEF IInv, ChoiceTypes
<1>3. CASE current
  BY <1>1, <1>2, <1>3, DeactivateOK DEF IInv, ChoiceTypes
<1>4. CASE ~current
  BY <1>1, <1>2, <1>4, OffScreenOK DEF IInv, ChoiceTypes
<1> QED BY <1>3, <1>4

LEMMA ReplacedByGameOK == IInv /\ ReplacedByGame => IInv' /\ Implements
<1> SUFFICES ASSUME IInv, ReplacedByGame PROVE IInv' /\ Implements
  OBVIOUS
<1>1. /\ current /\ Deactivate(inCity)
      /\ UNCHANGED <<chosen, undoStack, marked, cancelPending, manager, painting, policy>>
  BY DEF ReplacedByGame
<1>2. /\ Withdraws(Unaltered) /\ undoStack' = Unaltered.stack /\ marked' = Unaltered.marks
      /\ Deactivate(Unaltered.city)
  BY <1>1, UnalteredWithdraws DEF IInv
<1> QED BY <1>1, <1>2, DeactivateOK DEF IInv, ChoiceTypes

\* Leaving the city takes everything provisional with it.
LEMMA LeaveCityOK ==
  ASSUME IInv, LeaveCity, ChoiceTypes'
  PROVE  IInv' /\ Implements
<1>1. /\ undoStack' = AfterCancel.stack /\ marked' = AfterCancel.marks
      /\ DestroyPreview(AfterCancel.city)
      /\ points' = 0
      /\ current' = FALSE /\ painting' = FALSE /\ manager' = FALSE
  BY DEF LeaveCity
<1>2. Withdraws(AfterCancel) /\ AfterCancel.stack = <<>> /\ (manager => AfterCancel.marks = {})
  BY CancelOK, CanCancel DEF IInv
<1>3. marked' = {}
  <2>1. AfterCancel.marks \subseteq marked
    BY <1>2 DEF Withdraws
  <2> QED BY <2>1, <1>1, <1>2 DEF IInv, NothingProvisionalSaved
<1>4. After(AfterCancel.city) /\ preview' = NoOcc
  \* With no city after the step, DestroyPreview is the last use of this one.
  <2>1. WorldOK(undoStack', AfterCancel.city, marked')
    BY <1>1, <1>2 DEF Withdraws, ResultOK
  <2>2. preview' = NoOcc /\ PreviewTypes'
    BY <1>1 DEF DestroyPreview, NoPreview, PreviewTypes
  <2>3. inCity' = AfterCancel.city \ {preview}
    <3>1. CASE preview = NoOcc
      BY <3>1, <1>1, <2>1, OccAssumption DEF DestroyPreview, RemoveFrom, WorldOK
    <3>2. CASE preview # NoOcc
      BY <3>2, <1>1 DEF DestroyPreview, RemoveFrom, IInv, PreviewConfined
    <3> QED BY <3>1, <3>2
  <2>4. World'
    BY <1>1, <1>2, <1>3, <2>1, <2>3, OccupantsOfEmpty DEF World, WorldOK
  <2>5. Permanent' = AfterCancel.city \ (marked' \cup {preview})
    BY <2>1, <2>2, <2>3, OccAssumption DEF Permanent, WorldOK
  <2> QED BY <2>2, <2>4, <2>5 DEF After
<1>5. PreviewConfined' /\ OnScreenIsPainting' /\ NothingProvisionalSaved'
  BY <1>1, <1>2, <1>3, <1>4 DEF PreviewConfined, OnScreenIsPainting, NothingProvisionalSaved
<1>6. Implements
  BY <1>1, <1>2, <1>4, WithdrawsImplements DEF After, IInv
<1> QED BY <1>4, <1>5, <1>6 DEF IInv, After

LEMMA CityShutdownOK == IInv /\ CityShutdown => IInv' /\ Implements
<1> SUFFICES ASSUME IInv, CityShutdown PROVE IInv' /\ Implements
  OBVIOUS
<1>1. LeaveCity /\ state' = (IF current THEN ReadyState ELSE state)
      /\ UNCHANGED <<chosen, cancelPending, policy>>
  BY DEF CityShutdown
<1>2. ChoiceTypes'
  BY <1>1 DEF LeaveCity, ReadyState, States, ReadyStates, IInv, ChoiceTypes, chosen
<1> QED BY <1>1, <1>2, LeaveCityOK

LEMMA AppShutdownOK == IInv /\ AppShutdown => IInv' /\ Implements
<1> SUFFICES ASSUME IInv, AppShutdown PROVE IInv' /\ Implements
  OBVIOUS
<1>1. LeaveCity
  BY DEF AppShutdown
<1>2. ChoiceTypes'
  BY DEF AppShutdown, LeaveCity, States, Modes, PreviewModes, ChoiceTypes
<1> QED BY <1>1, <1>2, LeaveCityOK

LEMMA RemovedByOthersOK ==
  ASSUME IInv, NEW o \in Occ, RemovedByOthers(o)
  PROVE  IInv' /\ Abstract!RemovedByOthers(o)
<1>1. /\ o \in inCity /\ o # preview
      /\ inCity' = inCity \ {o} /\ marked' = marked \ {o}
      /\ UNCHANGED <<state, chosen, points, previewed, undoStack, session>>
  BY DEF RemovedByOthers
<1>2. World'
  BY <1>1 DEF IInv, World, WorldOK
<1>3. ChoiceTypes' /\ PreviewTypes'
  BY <1>1 DEF IInv, ChoiceTypes, PreviewTypes, chosen, previewed, session
<1>4. PreviewConfined'
  BY <1>1 DEF IInv, PreviewConfined, ShowsModel, PendingOcc, chosen, previewed, session
<1>5. OnScreenIsPainting' /\ NothingProvisionalSaved'
  BY <1>1 DEF IInv, OnScreenIsPainting, NothingProvisionalSaved, chosen, previewed, session
<1>6. Permanent' = Permanent \ {o}
  BY <1>1 DEF Permanent, previewed
<1>7. Abstract!RemovedByOthers(o)
  BY <1>1, <1>6 DEF Abstract!RemovedByOthers
<1> QED BY <1>2, <1>3, <1>4, <1>5, <1>7 DEF IInv

LEMMA DateChangesOK == IInv /\ DateChanges => IInv' /\ Implements
<1> SUFFICES ASSUME IInv, DateChanges PROVE IInv' /\ Implements
  OBVIOUS
<1>1. /\ preview # NoOcc /\ stale' = ~stale
      /\ UNCHANGED <<state, chosen, points, preview, previewType, world, session>>
  BY DEF DateChanges
<1>2. World' /\ UNCHANGED <<marked, Permanent>>
  BY <1>1 DEF IInv, World, world, Permanent
<1>3. ChoiceTypes' /\ PreviewTypes'
  BY <1>1 DEF IInv, ChoiceTypes, PreviewTypes, chosen, session
<1>4. PreviewConfined' /\ OnScreenIsPainting' /\ NothingProvisionalSaved'
  BY <1>1 DEF IInv, PreviewConfined, ShowsModel, PendingOcc, OnScreenIsPainting,
              NothingProvisionalSaved, chosen, world, session
<1> QED BY <1>2, <1>3, <1>4 DEF IInv, Implements

LEMMA StutterOK == IInv /\ UNCHANGED vars => IInv' /\ Implements
<1> SUFFICES ASSUME IInv, UNCHANGED vars PROVE IInv' /\ Implements
  OBVIOUS
<1>1. World' /\ UNCHANGED <<marked, Permanent>>
  BY DEF IInv, World, vars, world, previewed, Permanent
<1>2. ChoiceTypes' /\ PreviewTypes'
  BY DEF IInv, ChoiceTypes, PreviewTypes, vars, chosen, previewed, session
<1>3. PreviewConfined' /\ OnScreenIsPainting' /\ NothingProvisionalSaved'
  BY DEF IInv, PreviewConfined, ShowsModel, PendingOcc, OnScreenIsPainting,
         NothingProvisionalSaved, vars, chosen, previewed, world, session
<1> QED BY <1>1, <1>2, <1>3 DEF IInv, Implements

-----------------------------------------------------------------------------
(* The theorems.                                                           *)

\* What other code does to the city.
OthersRemove == \E o \in Occ : RemovedByOthers(o) /\ Abstract!RemovedByOthers(o)

LEMMA Step == IInv /\ [Next]_vars => IInv' /\ (Implements \/ OthersRemove)
<1> SUFFICES ASSUME IInv, [Next]_vars PROVE IInv' /\ (Implements \/ OthersRemove)
  OBVIOUS
<1>1. CASE Input
  BY <1>1, ClickDirectOK, ClickSketchOK, MoveOrAdjustOK, CyclePreviewModeOK,
     RemoveSketchPointOK, UndoLastPlacementOK, UndoLastPlacementInGroupOK,
     PlaceSketchOK, EnterCommitsOK, EscOrRightClickOK DEF Input
<1>2. CASE Director
  <2>1. CASE Start
    BY <2>1, RetargetPaintingOK, StartPaintingOK, StartRefusedOK DEF Start
  <2> QED BY <1>2, <2>1, TickOK, StopPaintingOK, ReplacedByToolOK, CityShutdownOK,
             AppShutdownOK DEF Director
<1>3. CASE Others
  BY <1>3, ReplacedByGameOK, DateChangesOK, RemovedByOthersOK DEF Others, OthersRemove
<1>4. CASE UNCHANGED vars
  BY <1>4, StutterOK
<1> QED BY <1>1, <1>2, <1>3, <1>4 DEF Next

\* The inductive invariant holds in every reachable state.
THEOREM Invariance == Spec => []IInv
<1>1. IInv /\ [Next]_vars => IInv'
  BY Step
<1> QED BY <1>1, InitIInv, PTL DEF Spec

\* Every variable keeps a value of its type.
THEOREM TypeCorrect == Spec => []TypeOK
BY Invariance, IInvImplies, PTL

\* No group is empty, no occupant is recorded twice, the limit holds: after
\* every order of placing, undoing, trimming, committing and switching.
THEOREM UndoStackIsSound == Spec => []UndoStackSound
BY Invariance, IInvImplies, PTL

\* The highlighted occupants are the pending ones that are still in the city.
THEOREM HighlightTellsTruth == Spec => []HighlightIsPending
BY Invariance, IInvImplies, PTL

\* The preview occupant exists only while this control paints with a model
\* preview, shows what the next click places and is never pending.
THEOREM PreviewStaysConfined == Spec => []PreviewConfined
<1>1. IInv => PreviewConfined
  BY DEF IInv
<1> QED BY <1>1, Invariance, PTL

\* The director's flag covers the control View3D has on screen.
THEOREM OnScreenMeansPainting == Spec => []OnScreenIsPainting
<1>1. IInv => OnScreenIsPainting
  BY DEF IInv
<1> QED BY <1>1, Invariance, PTL

\* Nothing provisional is in a city that is saved.
THEOREM NothingProvisionalIsSaved == Spec => []NothingProvisionalSaved
<1>1. IInv => NothingProvisionalSaved
  BY DEF IInv
<1> QED BY <1>1, Invariance, PTL

\* Nothing the tool does takes a permanent occupant out of the city.
THEOREM PermanentStaysInCity == Spec => PermanentStays
<1>1. Implements => Permanent \subseteq Permanent'
  BY DEF Implements, Abstract!Paint, Abstract!Withdraw, Abstract!CommitAll
<1>2. OthersRemove => \E o \in Occ : RemovedByOthers(o)
  BY DEF OthersRemove
<1>3. IInv /\ [Next]_vars =>
        [Permanent \subseteq Permanent' \/ \E o \in Occ : RemovedByOthers(o)]_vars
  BY <1>1, <1>2, Step
<1> QED BY <1>3, Invariance, PTL DEF Spec, PermanentStays

\* An occupant becomes permanent only out of the pending ones.
THEOREM PermanentWasPending == Spec => OnlyPendingBecomesPermanent
<1>1. Implements \/ OthersRemove => Permanent' \ Permanent \subseteq marked
  BY DEF Implements, OthersRemove, Abstract!Paint, Abstract!Withdraw,
         Abstract!CommitAll, Abstract!RemovedByOthers
<1>2. IInv /\ [Next]_vars => [Permanent' \ Permanent \subseteq marked]_vars
  BY <1>1, Step
<1> QED BY <1>2, Invariance, PTL DEF Spec, OnlyPendingBecomesPermanent

\* The paint tool implements the abstract specification: painting adds new
\* pending occupants, undo and cancel withdraw pending ones only, and only a
\* commit or the undo limit makes them permanent.
THEOREM PainterImplements == Spec => ImplementsPendingPlacements
<1>1. Init => Abstract!PInit
  BY DEF Init, Abstract!PInit, Permanent
<1>2. Implements \/ OthersRemove => Abstract!PNext \/ UNCHANGED <<marked, Permanent>>
  BY DEF Implements, OthersRemove, Abstract!PNext
<1>3. IInv /\ [Next]_vars => [Abstract!PNext]_<<marked, Permanent>>
  BY <1>2, Step
<1>4. ImplementsPendingPlacements <=> Abstract!PInit /\ [][Abstract!PNext]_<<marked, Permanent>>
  BY DEF ImplementsPendingPlacements, Abstract!PSpec, Abstract!pvars
<1> QED BY <1>1, <1>3, <1>4, Invariance, PTL DEF Spec
=============================================================================
