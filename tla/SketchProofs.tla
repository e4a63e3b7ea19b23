---------------------------- MODULE SketchProofs ----------------------------
(***************************************************************************)
(* The types of the sketch, the soundness of the polygon cache and that    *)
(* nothing stays on screen; then, by induction over the path, that the     *)
(* walk along a line follows it and that Enter places what the preview     *)
(* shows.  All for every set of coordinates and settings and every limit.  *)
(***************************************************************************)
EXTENDS Sketch, OrderedProofs, TLAPS

\* Outside polygon mode the flag is set: the other modes never refresh the
\* cache, and each way into polygon mode starts with an empty one.
DirtyOutsidePolygon == mode # "Polygon" => dirty

IInv == TypeOK /\ PolygonCacheCurrent /\ NothingLingers /\ DirtyOutsidePolygon

\* A cache a handler may leave for the points and settings it ends with.
SoundCache(c, d, pts, st, m) ==
  /\ d \in BOOLEAN
  /\ c # NoFill => Len(c.vertices) >= 3
  /\ ~d => c.vertices = pts /\ c.density = st.density /\ c.rotation = st.rotation
  /\ m # "Polygon" => d
  /\ m = "Off" => pts = <<>> /\ c = NoFill

\* A snapped coordinate is one: the picks a click can end at are.
LEMMA SnappedInNat ==
  ASSUME NEW x \in Nat, NEW step \in Nat \ {0}
  PROVE  Snapped(x, step) \in Nat
  BY DEF Snapped

LEMMA PointedInNat ==
  ASSUME TypeOK, NEW c \in Pointed(settings)
  PROVE  c \in Nat
<1>1. GridSteps[settings.grid] \in Nat \ {0}
  BY SettingsAssumption DEF TypeOK, SettingsValues
<1>2. CASE c \in {cursor} \ {NoCursor}
  BY <1>2 DEF TypeOK
<1>3. CASE c \in Spots
  BY <1>3, SpotsAssumption
<1>4. CASE c \in {Snapped(x, GridSteps[settings.grid]) : x \in Spots}
  BY <1>1, <1>4, SnappedInNat, SpotsAssumption
<1> QED
  BY <1>2, <1>3, <1>4 DEF Pointed

\* What rebuilding the overlay makes of a sound cache is sound again, and the
\* overlay shows that cache or none.
LEMMA RebuildSound ==
  ASSUME NEW c, NEW d, Rebuild(c, d),
         SoundCache(c, d, points', settings', mode'),
         mode' \in {"Off", "Line", "Polygon"}, points' \in Seq(Nat),
         settings' \in SettingsValues, hidden' \in BOOLEAN
  PROVE  /\ SoundCache(cache', dirty', points', settings', mode')
         /\ ~Shows' => shown' = Nothing
         /\ shown'.fill \in {NoFill, cache'}
         /\ \A k \in DOMAIN shown'.row : shown'.row[k].rotation \in 0 .. Turns - 1
<1>1. settings'.rotation \in 0 .. Turns - 1
  BY DEF SettingsValues
<1>2. CASE ~Shows' /\ shown' = Nothing /\ cache' = c /\ dirty' = d
  BY <1>2 DEF Nothing
<1>3. CASE /\ Shows' /\ mode' = "Line"
           /\ shown' = [row |-> LinePreview', fill |-> NoFill]
           /\ cache' = c /\ dirty' = d
  <2>1. \A k \in DOMAIN LinePreview' : LinePreview'[k].rotation = settings'.rotation
    BY DEF LinePreview, LineBatch, UnderCursor, Finished
  <2> QED
    BY <1>1, <1>3, <2>1
<1>4. CASE /\ Shows' /\ mode' = "Polygon"
           /\ IF Len(points') >= 3 /\ d
              THEN cache' = PolygonBatch(points', settings') /\ dirty' = FALSE
              ELSE cache' = c /\ dirty' = d
           /\ shown' = [row |-> UnderCursor', fill |-> cache']
  <2>1. \A k \in DOMAIN UnderCursor' : UnderCursor'[k].rotation = settings'.rotation
    BY DEF UnderCursor
  <2>2. SoundCache(cache', dirty', points', settings', mode')
    <3>1. CASE Len(points') >= 3 /\ d
      <4>1. cache' = PolygonBatch(points', settings') /\ dirty' = FALSE
        BY <1>4, <3>1
      <4>2. /\ cache'.vertices = points' /\ cache'.density = settings'.density
            /\ cache'.rotation = settings'.rotation
        BY <4>1 DEF PolygonBatch
      <4>3. Len(cache'.vertices) >= 3
        BY <3>1, <4>2
      <4> QED
        BY <1>4, <4>1, <4>2, <4>3 DEF SoundCache
    <3>2. CASE ~(Len(points') >= 3 /\ d)
      BY <1>4, <3>2
    <3> QED
      BY <3>1, <3>2
  <2> QED
    BY <1>1, <1>4, <2>1, <2>2
<1> QED
  BY <1>2, <1>3, <1>4 DEF Rebuild

\* Putting the parts together again after a handler that rebuilds the overlay.
LEMMA RebuiltKeepsIInv ==
  ASSUME NEW c, NEW d, Rebuild(c, d),
         SoundCache(c, d, points', settings', mode'),
         mode' \in {"Off", "Line", "Polygon"},
         points' \in Seq(Nat), Len(points') <= MaxPoints,
         cursor' \in Nat \cup {NoCursor},
         settings' \in SettingsValues, hidden' \in BOOLEAN
  PROVE  IInv'
<1>1. /\ SoundCache(cache', dirty', points', settings', mode')
      /\ ~Shows' => shown' = Nothing
      /\ shown'.fill \in {NoFill, cache'}
      /\ \A k \in DOMAIN shown'.row : shown'.row[k].rotation \in 0 .. Turns - 1
  BY RebuildSound
<1>2. TypeOK'
  BY <1>1 DEF TypeOK, SoundCache
<1>3. PolygonCacheCurrent' /\ NothingLingers' /\ DirtyOutsidePolygon'
  BY <1>1 DEF SoundCache, PolygonCacheCurrent, NothingLingers, DirtyOutsidePolygon
<1> QED
  BY <1>2, <1>3 DEF IInv

\* The invariant says that the cache is sound now; it stays so when a handler
\* changes nothing the polygon depends on, or sets the flag in polygon mode.
LEMMA CacheIsSound ==
  ASSUME IInv
  PROVE  SoundCache(cache, dirty, points, settings, mode)
  BY DEF IInv, TypeOK, PolygonCacheCurrent, NothingLingers, DirtyOutsidePolygon, SoundCache

\* ClearCollectedPoints_ leaves a sound sketch: nothing cached, nothing shown.
LEMMA ClearedKeepsIInv ==
  ASSUME IInv, ClearSketch, mode' \in {"Off", "Line", "Polygon"},
         UNCHANGED <<settings, hidden>>
  PROVE  IInv'
<1>1. TypeOK'
  BY LimitsAssumption DEF IInv, TypeOK, ClearSketch, Nothing
<1> QED
  BY <1>1 DEF IInv, ClearSketch, PolygonCacheCurrent, NothingLingers, DirtyOutsidePolygon, Nothing

\* What the keys do: points, cursor and mode stay, the polygon may be affected.
LEMMA KeyKeepsIInv ==
  ASSUME IInv, Active, UNCHANGED <<mode, points, cursor>>,
         settings' \in SettingsValues, hidden' \in BOOLEAN,
         \/ SyncPolygonChanged
         \/ /\ Sync
            /\ settings'.density = settings.density /\ settings'.rotation = settings.rotation
  PROVE  IInv'
<1>1. SoundCache(cache, dirty, points, settings, mode)
  BY CacheIsSound
<1>2. /\ mode' \in {"Off", "Line", "Polygon"} /\ points' \in Seq(Nat)
      /\ Len(points') <= MaxPoints /\ cursor' \in Nat \cup {NoCursor}
  BY DEF IInv, TypeOK
<1>3. CASE SyncPolygonChanged
  <2>1. SoundCache(cache, dirty \/ mode = "Polygon", points', settings', mode')
    BY <1>1 DEF SoundCache, Active
  <2> QED
    BY <1>2, <1>3, <2>1, RebuiltKeepsIInv DEF SyncPolygonChanged
<1>4. CASE /\ Sync
           /\ settings'.density = settings.density /\ settings'.rotation = settings.rotation
  <2>1. SoundCache(cache, dirty, points', settings', mode')
    BY <1>1, <1>4 DEF SoundCache, Active
  <2> QED
    BY <1>2, <1>4, <2>1, RebuiltKeepsIInv DEF Sync
<1> QED
  BY <1>3, <1>4

-----------------------------------------------------------------------------
\* A control that was just constructed has a sound sketch.
THEOREM InitEstablishes == Init => IInv
<1> SUFFICES ASSUME Init PROVE IInv
  OBVIOUS
<1>1. TypeOK
  <2>1. points \in Seq(Nat) /\ Len(points) <= MaxPoints
    BY LimitsAssumption DEF Init
  <2>2. shown.fill \in {NoFill, cache} /\ shown.row = <<>>
    BY DEF Init, Nothing
  <2>3. \A k \in DOMAIN shown.row : shown.row[k].rotation \in 0 .. Turns - 1
    BY <2>2
  <2>4. settings \in SettingsValues
    BY StartAssumption DEF Init
  <2>5. /\ mode \in {"Off", "Line", "Polygon"} /\ cursor \in Nat \cup {NoCursor}
        /\ hidden \in BOOLEAN /\ dirty \in BOOLEAN /\ cache = NoFill
    BY DEF Init
  <2> QED
    BY <2>1, <2>2, <2>3, <2>4, <2>5 DEF TypeOK
<1>2. PolygonCacheCurrent /\ NothingLingers /\ DirtyOutsidePolygon
  BY DEF Init, PolygonCacheCurrent, NothingLingers, DirtyOutsidePolygon
<1> QED
  BY <1>1, <1>2 DEF IInv

\* Every input handler and every call of the director keeps it sound.
THEOREM NextKeeps == IInv /\ [Next]_vars => IInv'
<1> SUFFICES ASSUME IInv, [Next]_vars PROVE IInv'
  OBVIOUS
<1> USE DEF IInv
<1>t. TypeOK /\ settings \in SettingsValues /\ hidden \in BOOLEAN
  BY DEF TypeOK
<1>s. SoundCache(cache, dirty, points, settings, mode)
  BY CacheIsSound
<1>1. CASE Click
  <2>1. cursor' \in Nat
    BY <1>1, <1>t, PointedInNat DEF Click
  <2>2. points' \in Seq(Nat) /\ Len(points') <= MaxPoints
    BY <1>1, <1>t, <2>1, LimitsAssumption DEF Click, TypeOK
  <2>3. SoundCache(cache, dirty \/ mode = "Polygon", points', settings', mode')
    BY <1>1, <1>s DEF Click, SoundCache, Active
  <2> QED
    BY <1>1, <1>t, <2>1, <2>2, <2>3, RebuiltKeepsIInv DEF Click, SyncPolygonChanged, TypeOK
<1>2. CASE Move
  <2>1. cursor' \in Nat \cup {NoCursor}
    BY <1>2, <1>t, PointedInNat DEF Move, TypeOK
  <2>2. SoundCache(cache, dirty, points', settings', mode')
    BY <1>2, <1>s DEF Move
  <2> QED
    BY <1>2, <1>t, <2>1, <2>2, RebuiltKeepsIInv DEF Move, Sync, TypeOK
<1>3. CASE RemovePoint
  <2>1. points' \in Seq(Nat) /\ Len(points') <= MaxPoints
    BY <1>3, <1>t, LimitsAssumption DEF RemovePoint, TypeOK, Front
  <2>2. SoundCache(cache, dirty \/ mode = "Polygon", points', settings', mode')
    BY <1>3, <1>s DEF RemovePoint, SoundCache, Active
  <2> QED
    BY <1>3, <1>t, <2>1, <2>2, RebuiltKeepsIInv DEF RemovePoint, SyncPolygonChanged, TypeOK
<1>4. CASE Rotate
  <2>1. settings' \in SettingsValues
    BY <1>4, <1>t, LimitsAssumption DEF Rotate, SettingsValues
  <2> QED
    BY <1>4, <1>t, <2>1, KeyKeepsIInv DEF Rotate
<1>5. CASE Tune
  <2>1. settings' \in SettingsValues
    BY <1>5, <1>t DEF Tune, SettingsValues
  <2> QED
    BY <1>5, <1>t, <2>1, KeyKeepsIInv DEF Tune
<1>6. CASE Raise
  <2>1. /\ settings' \in SettingsValues
        /\ settings'.density = settings.density /\ settings'.rotation = settings.rotation
    BY <1>6, <1>t DEF Raise, SettingsValues
  <2> QED
    BY <1>6, <1>t, <2>1, KeyKeepsIInv DEF Raise
<1>7. CASE ToggleSnap
  <2>1. /\ settings' \in SettingsValues
        /\ settings'.density = settings.density /\ settings'.rotation = settings.rotation
    BY <1>7, <1>t DEF ToggleSnap, SettingsValues, Snaps
  <2> QED
    BY <1>7, <1>t, <2>1, KeyKeepsIInv DEF ToggleSnap
<1>8. CASE StepGrid
  <2>1. /\ settings' \in SettingsValues
        /\ settings'.density = settings.density /\ settings'.rotation = settings.rotation
    BY <1>8, <1>t DEF StepGrid, SettingsValues
  <2> QED
    BY <1>8, <1>t, <2>1, KeyKeepsIInv DEF StepGrid
<1>9. CASE CyclePreviewMode
  <2>1. hidden' \in BOOLEAN
    BY <1>9 DEF CyclePreviewMode
  <2> QED
    BY <1>9, <1>t, <2>1, KeyKeepsIInv DEF CyclePreviewMode
<1>10. CASE EnterOrEsc
  BY <1>10, ClearedKeepsIInv DEF EnterOrEsc, TypeOK
<1>11. CASE Start
  <2>1. cursor' \in Nat \cup {NoCursor}
    BY <1>11, SpotsAssumption DEF Start, TypeOK
  <2>2. points' \in Seq(Nat) /\ Len(points') <= MaxPoints
    BY <1>11 DEF Start, TypeOK
  <2>3. settings' \in SettingsValues
    BY <1>11, StartAssumption DEF Start
  <2>4. SoundCache(NoFill, TRUE, points', settings', mode')
    BY <1>11 DEF Start, SoundCache
  <2> QED
    BY <1>11, <2>1, <2>2, <2>3, <2>4, RebuiltKeepsIInv DEF Start
<1>12. CASE Leave
  BY <1>12, ClearedKeepsIInv DEF Leave
<1>13. CASE UNCHANGED vars
  BY <1>13 DEF vars, TypeOK, PolygonCacheCurrent, NothingLingers, DirtyOutsidePolygon, Shows
<1> QED
  BY <1>1, <1>2, <1>3, <1>4, <1>5, <1>6, <1>7, <1>8, <1>9, <1>10, <1>11, <1>12, <1>13 DEF Next

\* The inductive invariant of the sketch holds in every reachable state.
THEOREM SketchInvariance == Spec => []IInv
  BY InitEstablishes, NextKeeps, PTL DEF Spec

\* The sketch's state keeps its types, whatever is clicked and pressed.
THEOREM SketchTypeCorrect == Spec => []TypeOK
<1>1. IInv => TypeOK
  BY DEF IInv
<1> QED
  BY <1>1, SketchInvariance, PTL

\* A polygon cache whose flag says so is that of the present vertices, density
\* and rotation, for every sketch: no handler that changes one of them forgets
\* the flag.
THEOREM CacheFollowsSketch == Spec => []PolygonCacheCurrent
<1>1. IInv => PolygonCacheCurrent
  BY DEF IInv
<1> QED
  BY <1>1, SketchInvariance, PTL

\* However a sketch ends or is hidden, the overlay is empty after it.
THEOREM OverlayEndsWithSketch == Spec => []NothingLingers
<1>1. IInv => NothingLingers
  BY DEF IInv
<1> QED
  BY <1>1, SketchInvariance, PTL

-----------------------------------------------------------------------------
(* What the walk hands from segment to segment, unfolded.                   *)

CarryStep(c, pts, s, i) == Overshoot(c, s, SegmentLength(pts, i))
IsCarry(f, pts, s, n) ==
  f = [i \in 0 .. n |-> IF i = 0 THEN 0 ELSE CarryStep(f[i - 1], pts, s, i)]

LEMMA CarryFromUnfolded ==
  ASSUME NEW pts \in Seq(Nat), pts # <<>>, NEW s
  PROVE  /\ CarryFrom(pts, s)[0] = 0
         /\ \A i \in 1 .. Len(pts) - 1 :
              CarryFrom(pts, s)[i] = CarryStep(CarryFrom(pts, s)[i - 1], pts, s, i)
<1> DEFINE G == {n \in Nat : \E f : IsCarry(f, pts, s, n)}
<1>1. 0 \in G
  <2>1. IsCarry([i \in 0 .. 0 |-> 0], pts, s, 0)
    BY DEF IsCarry
  <2> QED
    BY <2>1
<1>2. ASSUME NEW n \in Nat, n \in G PROVE n + 1 \in G
  <2>1. PICK f : IsCarry(f, pts, s, n)
    BY <1>2
  <2> DEFINE g == [i \in 0 .. n + 1 |-> IF i = n + 1 THEN CarryStep(f[n], pts, s, n + 1) ELSE f[i]]
  <2>2. IsCarry(g, pts, s, n + 1)
    BY <2>1 DEF IsCarry
  <2> QED
    BY <2>2
<1>3. Len(pts) - 1 \in Nat
  OBVIOUS
<1>4. Len(pts) - 1 \in G
  <2>1. \A n \in Nat : n \in G => n + 1 \in G
    BY <1>2
  <2> HIDE DEF G
  <2>2. Climbs(G, 0, Len(pts) - 1)
    BY <1>1, <1>3, <2>1 DEF Climbs
  <2> QED
    BY <1>3, <2>2, Upward
<1>5. PICK f : IsCarry(f, pts, s, Len(pts) - 1)
  BY <1>4
<1>6. IsCarry(CarryFrom(pts, s), pts, s, Len(pts) - 1)
  BY <1>5 DEF IsCarry, CarryFrom, CarryStep
<1>7. ASSUME NEW g, IsCarry(g, pts, s, Len(pts) - 1)
      PROVE  g[0] = 0 /\ \A i \in 1 .. Len(pts) - 1 : g[i] = CarryStep(g[i - 1], pts, s, i)
  <2>1. g[0] = 0
    BY <1>3, <1>7 DEF IsCarry
  <2>2. ASSUME NEW i \in 1 .. Len(pts) - 1 PROVE g[i] = CarryStep(g[i - 1], pts, s, i)
    <3>1. i \in 0 .. Len(pts) - 1 /\ i # 0
      BY <1>3
    <3> QED
      BY <1>7, <3>1 DEF IsCarry
  <2> QED
    BY <2>1, <2>2
<1> QED
  BY <1>6, <1>7

WalkedStep(row, pts, s, i) == row \o OnSegment(pts, s, CarryFrom(pts, s)[i - 1], i)
IsWalked(f, pts, s, n) ==
  f = [i \in 0 .. n |-> IF i = 0 THEN <<>> ELSE WalkedStep(f[i - 1], pts, s, i)]

LEMMA WalkedUnfolded ==
  ASSUME NEW pts \in Seq(Nat), pts # <<>>, NEW s
  PROVE  /\ Walked(pts, s)[0] = <<>>
         /\ \A i \in 1 .. Len(pts) - 1 :
              Walked(pts, s)[i] = WalkedStep(Walked(pts, s)[i - 1], pts, s, i)
<1> DEFINE G == {n \in Nat : \E f : IsWalked(f, pts, s, n)}
<1>1. 0 \in G
  <2>1. IsWalked([i \in 0 .. 0 |-> <<>>], pts, s, 0)
    BY DEF IsWalked
  <2> QED
    BY <2>1
<1>2. ASSUME NEW n \in Nat, n \in G PROVE n + 1 \in G
  <2>1. PICK f : IsWalked(f, pts, s, n)
    BY <1>2
  <2> DEFINE g == [i \in 0 .. n + 1 |-> IF i = n + 1 THEN WalkedStep(f[n], pts, s, n + 1) ELSE f[i]]
  <2>2. IsWalked(g, pts, s, n + 1)
    BY <2>1 DEF IsWalked
  <2> QED
    BY <2>2
<1>3. Len(pts) - 1 \in Nat
  OBVIOUS
<1>4. Len(pts) - 1 \in G
  <2>1. \A n \in Nat : n \in G => n + 1 \in G
    BY <1>2
  <2> HIDE DEF G
  <2>2. Climbs(G, 0, Len(pts) - 1)
    BY <1>1, <1>3, <2>1 DEF Climbs
  <2> QED
    BY <1>3, <2>2, Upward
<1>5. PICK f : IsWalked(f, pts, s, Len(pts) - 1)
  BY <1>4
<1>6. IsWalked(Walked(pts, s), pts, s, Len(pts) - 1)
  BY <1>5 DEF IsWalked, Walked, WalkedStep
<1>7. ASSUME NEW g, IsWalked(g, pts, s, Len(pts) - 1)
      PROVE  g[0] = <<>> /\ \A i \in 1 .. Len(pts) - 1 : g[i] = WalkedStep(g[i - 1], pts, s, i)
  <2>1. g[0] = <<>>
    BY <1>3, <1>7 DEF IsWalked
  <2>2. ASSUME NEW i \in 1 .. Len(pts) - 1 PROVE g[i] = WalkedStep(g[i - 1], pts, s, i)
    <3>1. i \in 0 .. Len(pts) - 1 /\ i # 0
      BY <1>3
    <3> QED
      BY <1>7, <3>1 DEF IsWalked
  <2> QED
    BY <2>1, <2>2
<1> QED
  BY <1>6, <1>7

-----------------------------------------------------------------------------
\* One more point.
LEMMA Appended ==
  ASSUME NEW pts \in Seq(Nat), pts # <<>>, NEW x \in Nat
  PROVE  LET q == Append(pts, x)
         IN /\ q \in Seq(Nat) /\ Len(q) = Len(pts) + 1 /\ Len(pts) \in Nat \ {0}
            /\ q[Len(q)] = x
            /\ \A i \in 1 .. Len(pts) : q[i] = pts[i] /\ SubSeq(q, 1, i) = SubSeq(pts, 1, i)
            /\ \A i \in 1 .. Len(pts) - 1 : SegmentLength(q, i) = SegmentLength(pts, i)
            /\ \A i \in 1 .. Len(pts) - 1 : \A s, c : OnSegment(q, s, c, i) = OnSegment(pts, s, c, i)
<1> DEFINE q == Append(pts, x)
<1>1. q \in Seq(Nat) /\ Len(q) = Len(pts) + 1 /\ Len(pts) \in Nat \ {0} /\ q[Len(q)] = x
  OBVIOUS
<1>2. \A i \in 1 .. Len(pts) : q[i] = pts[i]
  OBVIOUS
<1>3. ASSUME NEW i \in 1 .. Len(pts)
      PROVE  SubSeq(q, 1, i) = SubSeq(pts, 1, i)
  OBVIOUS
<1> HIDE DEF q
<1>4. \A i \in 1 .. Len(pts) - 1 : i \in 1 .. Len(pts) /\ i + 1 \in 1 .. Len(pts)
  BY <1>1
<1>5. ASSUME NEW i \in 1 .. Len(pts) - 1 PROVE q[i] = pts[i] /\ q[i + 1] = pts[i + 1]
  BY <1>2, <1>4
<1>6. \A i \in 1 .. Len(pts) - 1 : SegmentLength(q, i) = SegmentLength(pts, i)
  BY <1>5 DEF SegmentLength
<1>7. ASSUME NEW i \in 1 .. Len(pts) - 1, NEW s, NEW c
      PROVE  OnSegment(q, s, c, i) = OnSegment(pts, s, c, i)
  <2>1. q[i] = pts[i] /\ q[i + 1] = pts[i + 1] /\ SegmentLength(q, i) = SegmentLength(pts, i)
    BY <1>5, <1>6
  <2> QED
    BY <2>1 DEF OnSegment
<1> QED
  BY <1>1, <1>2, <1>3, <1>6, <1>7 DEF q


LEMMA CarryAppended ==
  ASSUME NEW pts \in Seq(Nat), pts # <<>>, NEW x \in Nat, NEW s
  PROVE  \A i \in 0 .. Len(pts) - 1 : CarryFrom(Append(pts, x), s)[i] = CarryFrom(pts, s)[i]
<1> DEFINE q == Append(pts, x)
           G == {i \in Nat : CarryFrom(q, s)[i] = CarryFrom(pts, s)[i]}
<1>1. /\ q \in Seq(Nat) /\ q # <<>> /\ Len(q) - 1 = Len(pts) /\ Len(pts) \in Nat \ {0}
      /\ \A i \in 1 .. Len(pts) - 1 : SegmentLength(q, i) = SegmentLength(pts, i)
  BY Appended
<1> HIDE DEF q
<1>2. 0 \in G
  BY <1>1, CarryFromUnfolded
<1>3. ASSUME NEW i \in 0 .. Len(pts) - 1 - 1, i \in G PROVE i + 1 \in G
  <2> DEFINE j == i + 1
  <2>1. j \in 1 .. Len(pts) - 1 /\ j \in 1 .. Len(q) - 1 /\ j - 1 = i /\ j \in Nat
    BY <1>1
  <2>2. CarryFrom(q, s)[j - 1] = CarryFrom(pts, s)[j - 1] /\ SegmentLength(q, j) = SegmentLength(pts, j)
    BY <1>1, <1>3, <2>1
  <2> HIDE DEF j
  <2>3. CarryFrom(pts, s)[j] = CarryStep(CarryFrom(pts, s)[j - 1], pts, s, j)
    BY <2>1, CarryFromUnfolded
  <2>4. CarryFrom(q, s)[j] = CarryStep(CarryFrom(q, s)[j - 1], q, s, j)
    BY <1>1, <2>1, CarryFromUnfolded
  <2>5. CarryFrom(q, s)[j] = CarryFrom(pts, s)[j]
    BY <2>2, <2>3, <2>4 DEF CarryStep
  <2> QED
    BY <2>1, <2>5 DEF j
<1>4. \A i \in 0 .. Len(pts) - 1 : i \in G
  <2>1. \A i \in 0 .. Len(pts) - 1 - 1 : i \in G => i + 1 \in G
    BY <1>3
  <2> HIDE DEF G
  <2>2. Climbs(G, 0, Len(pts) - 1)
    BY <1>2, <2>1 DEF Climbs
  <2> QED
    BY <1>1, <2>2, Upward
<1> QED
  BY <1>4 DEF q

LEMMA WalkedAppended ==
  ASSUME NEW pts \in Seq(Nat), pts # <<>>, NEW x \in Nat, NEW s
  PROVE  \A i \in 0 .. Len(pts) - 1 : Walked(Append(pts, x), s)[i] = Walked(pts, s)[i]
<1> DEFINE q == Append(pts, x)
           G == {i \in Nat : Walked(q, s)[i] = Walked(pts, s)[i]}
<1>1. /\ q \in Seq(Nat) /\ q # <<>> /\ Len(q) - 1 = Len(pts) /\ Len(pts) \in Nat \ {0}
      /\ \A i \in 1 .. Len(pts) - 1 : \A c : OnSegment(q, s, c, i) = OnSegment(pts, s, c, i)
      /\ \A i \in 0 .. Len(pts) - 1 : CarryFrom(q, s)[i] = CarryFrom(pts, s)[i]
  BY Appended, CarryAppended
<1> HIDE DEF q
<1>2. 0 \in G
  BY <1>1, WalkedUnfolded
<1>3. ASSUME NEW i \in 0 .. Len(pts) - 1 - 1, i \in G PROVE i + 1 \in G
  <2> DEFINE j == i + 1
  <2>1. /\ j \in 1 .. Len(pts) - 1 /\ j \in 1 .. Len(q) - 1 /\ j - 1 = i /\ j \in Nat
        /\ i \in 0 .. Len(pts) - 1
    BY <1>1
  <2>2. /\ Walked(q, s)[j - 1] = Walked(pts, s)[j - 1]
        /\ CarryFrom(q, s)[j - 1] = CarryFrom(pts, s)[j - 1]
    BY <1>1, <1>3, <2>1
  <2> HIDE DEF j
  <2>3. Walked(pts, s)[j] = WalkedStep(Walked(pts, s)[j - 1], pts, s, j)
    BY <2>1, WalkedUnfolded
  <2>4. Walked(q, s)[j] = WalkedStep(Walked(q, s)[j - 1], q, s, j)
    BY <1>1, <2>1, WalkedUnfolded
  <2> DEFINE c == CarryFrom(pts, s)[j - 1]
  <2>5. OnSegment(q, s, c, j) = OnSegment(pts, s, c, j)
    <3> HIDE DEF c
    <3> QED
      BY <1>1, <2>1
  <2>6. Walked(q, s)[j] = Walked(pts, s)[j]
    BY <2>2, <2>3, <2>4, <2>5 DEF WalkedStep
  <2> QED
    BY <2>1, <2>6 DEF j
<1>4. \A i \in 0 .. Len(pts) - 1 : i \in G
  <2>1. \A i \in 0 .. Len(pts) - 1 - 1 : i \in G => i + 1 \in G
    BY <1>3
  <2> HIDE DEF G
  <2>2. Climbs(G, 0, Len(pts) - 1)
    BY <1>2, <2>1 DEF Climbs
  <2> QED
    BY <1>1, <2>2, Upward
<1> QED
  BY <1>4 DEF q

\* How far the walk passes the end of the path.
LastCarry(pts, s) == CarryFrom(pts, s)[Len(pts) - 1]

\* The walk along a path of one point, and along one with one more point.
LEMMA WalkStarts ==
  ASSUME NEW x \in Nat, NEW s
  PROVE  LastCarry(<<x>>, s) = 0 /\ Walk(<<x>>, s) = <<>>
<1>1. <<x>> \in Seq(Nat) /\ <<x>> # <<>> /\ Len(<<x>>) - 1 = 0 /\ Len(<<x>>) < 2
  OBVIOUS
<1> QED
  BY <1>1, CarryFromUnfolded DEF LastCarry, Walk

LEMMA WalkOnwards ==
  ASSUME NEW pts \in Seq(Nat), pts # <<>>, NEW x \in Nat, NEW s
  PROVE  LET q == Append(pts, x)
         IN /\ LastCarry(q, s) = Overshoot(LastCarry(pts, s), s, SegmentLength(q, Len(pts)))
            /\ Walk(q, s) = Walk(pts, s) \o OnSegment(q, s, LastCarry(pts, s), Len(pts))
<1> DEFINE q == Append(pts, x)
           n == Len(pts)
<1>1. q \in Seq(Nat) /\ q # <<>> /\ Len(q) = n + 1 /\ n \in Nat \ {0} /\ Len(q) - 1 = n
  BY Appended
<1>2. /\ CarryFrom(q, s)[n - 1] = CarryFrom(pts, s)[n - 1]
      /\ Walked(q, s)[n - 1] = Walked(pts, s)[n - 1]
  <2>1. n - 1 \in 0 .. Len(pts) - 1
    BY <1>1
  <2> QED
    BY <2>1, CarryAppended, WalkedAppended
<1>3. Walk(pts, s) = Walked(pts, s)[n - 1]
  <2>1. CASE n = 1
    <3>1. Walked(pts, s)[0] = <<>>
      BY WalkedUnfolded
    <3> QED
      BY <2>1, <3>1 DEF Walk
  <2>2. CASE n # 1
    BY <1>1, <2>2 DEF Walk
  <2> QED
    BY <2>1, <2>2
<1>4. LastCarry(pts, s) = CarryFrom(pts, s)[n - 1]
  BY DEF LastCarry
<1> HIDE DEF q, n
<1>5. Walk(q, s) = Walked(q, s)[n] /\ LastCarry(q, s) = CarryFrom(q, s)[n]
  BY <1>1 DEF Walk, LastCarry
<1>6. n \in 1 .. Len(q) - 1
  BY <1>1
<1>7. CarryFrom(q, s)[n] = CarryStep(CarryFrom(q, s)[n - 1], q, s, n)
  BY <1>1, <1>6, CarryFromUnfolded
<1>8. Walked(q, s)[n] = WalkedStep(Walked(q, s)[n - 1], q, s, n)
  BY <1>1, <1>6, WalkedUnfolded
<1>9. LastCarry(q, s) = Overshoot(LastCarry(pts, s), s, SegmentLength(q, n))
  BY <1>2, <1>4, <1>5, <1>7 DEF CarryStep
<1>10. Walk(q, s) = Walk(pts, s) \o OnSegment(q, s, LastCarry(pts, s), n)
  BY <1>2, <1>3, <1>4, <1>5, <1>8 DEF WalkedStep
<1> QED
  BY <1>9, <1>10 DEF q, n
-----------------------------------------------------------------------------
LEMMA Quotient ==
  ASSUME NEW a \in Nat, NEW s \in Nat \ {0}
  PROVE  (a \div s) \in Nat /\ (a \div s) * s <= a /\ a < (a \div s) * s + s
<1>1. (a \div s) \in Nat
  OBVIOUS
<1>2. a = s * (a \div s) + (a % s) /\ (a % s) \in 0 .. s - 1
  OBVIOUS
<1>3. s * (a \div s) = (a \div s) * s
  BY <1>1
<1> QED
  BY <1>1, <1>2, <1>3

LEMMA Ceiling ==
  ASSUME NEW c \in Nat, NEW s \in Nat \ {0}, NEW g \in Nat
  PROVE  /\ Advances(c, s, g) \in Nat
         /\ Advances(c, s, g) * s >= g + c
         /\ Advances(c, s, g) * s < g + c + s
<1>1. g + c + s - 1 \in Nat
  OBVIOUS
<1> DEFINE a == Advances(c, s, g)
<1>2. a \in Nat /\ a * s <= g + c + s - 1 /\ g + c + s - 1 < a * s + s
  BY <1>1, Quotient DEF Advances
<1>3. a * s \in Nat
  BY <1>2
<1> HIDE DEF a
<1>4. a * s >= g + c /\ a * s < g + c + s
  BY <1>2, <1>3
<1> QED BY <1>2, <1>4 DEF a

LEMMA Scaled ==
  ASSUME NEW s \in Nat \ {0}, NEW a \in Int, NEW b \in Int
  PROVE  (a <= b <=> a * s <= b * s) /\ (a < b <=> a * s < b * s)
OBVIOUS

LEMMA Distributes ==
  ASSUME NEW s \in Nat \ {0}, NEW a \in Int, NEW b \in Int
  PROVE  (a + b) * s = a * s + b * s /\ (a - b) * s = a * s - b * s /\ a * s \in Int
OBVIOUS

\* Induction over paths, for a property that is a set of them.
Path == Seq(Nat) \ {<<>>}
Grows(G) ==
  /\ \A x \in Nat : <<x>> \in G
  /\ \A pts \in Path, x \in Nat : pts \in G => Append(pts, x) \in G

LEMMA SubSeqIsFunction ==
  ASSUME NEW pts \in Seq(Nat), NEW n \in 1 .. Len(pts)
  PROVE  SubSeq(pts, 1, n) = [i \in 1 .. n |-> pts[i]]
<1>1. /\ SubSeq(pts, 1, n) \in Seq(Nat) /\ Len(SubSeq(pts, 1, n)) = n
      /\ \A i \in 1 .. n : SubSeq(pts, 1, n)[i] = pts[i]
  OBVIOUS
<1>2. SubSeq(pts, 1, n) = [i \in 1 .. Len(SubSeq(pts, 1, n)) |-> SubSeq(pts, 1, n)[i]]
  BY <1>1
<1> QED
  BY <1>1, <1>2

LEMMA Onwards ==
  ASSUME NEW G, Grows(G)
  PROVE  Path \subseteq G
<1> SUFFICES ASSUME NEW pts \in Path PROVE pts \in G
  OBVIOUS
<1> DEFINE n == Len(pts)
           H == {i \in Nat : SubSeq(pts, 1, i) \in G}
<1>1. pts \in Seq(Nat) /\ n \in Nat \ {0} /\ 1 \in 1 .. n /\ n \in 1 .. n
  BY DEF Path
<1>2. SubSeq(pts, 1, n) = pts
  BY <1>1
<1>3. 1 \in H
  <2>1. pts[1] \in Nat /\ <<pts[1]>> = [i \in 1 .. 1 |-> pts[1]]
    BY <1>1
  <2>2. SubSeq(pts, 1, 1) = [i \in 1 .. 1 |-> pts[1]]
    BY <1>1, SubSeqIsFunction
  <2>3. <<pts[1]>> \in G
    BY <2>1 DEF Grows
  <2> QED
    BY <2>1, <2>2, <2>3
<1>4. ASSUME NEW i \in 1 .. n - 1, i \in H PROVE i + 1 \in H
  <2>1. SubSeq(pts, 1, i) \in Path
    <3>1. SubSeq(pts, 1, i) \in Seq(Nat) /\ Len(SubSeq(pts, 1, i)) = i
      BY <1>1
    <3> QED
      BY <3>1 DEF Path
  <2>2. SubSeq(pts, 1, i + 1) = Append(SubSeq(pts, 1, i), pts[i + 1]) /\ pts[i + 1] \in Nat
    BY <1>1
  <2>3. SubSeq(pts, 1, i) \in G /\ i + 1 \in Nat
    BY <1>4
  <2>4. Append(SubSeq(pts, 1, i), pts[i + 1]) \in G
    BY <2>1, <2>2, <2>3 DEF Grows
  <2> QED
    BY <2>2, <2>3, <2>4
<1>5. n \in H
  <2>1. \A i \in 1 .. n - 1 : i \in H => i + 1 \in H
    BY <1>4
  <2> HIDE DEF H, n
  <2>2. Climbs(H, 1, n)
    BY <1>3, <2>1 DEF Climbs
  <2> QED
    BY <1>1, <2>2, Upward
<1> QED
  BY <1>2, <1>5

\* The length of a path, as it grows.
LengthStep(t, pts, i) == t + SegmentLength(pts, i - 1)
IsLength(f, pts, n) == f = [i \in 1 .. n |-> IF i = 1 THEN 0 ELSE LengthStep(f[i - 1], pts, i)]

LEMMA LengthToUnfolded ==
  ASSUME NEW pts \in Path
  PROVE  /\ LengthTo(pts)[1] = 0
         /\ \A i \in 2 .. Len(pts) : LengthTo(pts)[i] = LengthStep(LengthTo(pts)[i - 1], pts, i)
<1> DEFINE G == {n \in Nat : \E f : IsLength(f, pts, n)}
<1>1. 1 \in G
  <2>1. IsLength([i \in 1 .. 1 |-> 0], pts, 1)
    BY DEF IsLength
  <2> QED
    BY <2>1
<1>2. ASSUME NEW n \in Nat \ {0}, n \in G PROVE n + 1 \in G
  <2>1. PICK f : IsLength(f, pts, n)
    BY <1>2
  <2> DEFINE g == [i \in 1 .. n + 1 |-> IF i = n + 1 THEN LengthStep(f[n], pts, n + 1) ELSE f[i]]
  <2>2. IsLength(g, pts, n + 1)
    BY <2>1 DEF IsLength
  <2> QED
    BY <2>2
<1>3. Len(pts) \in Nat \ {0}
  BY DEF Path
<1>4. Len(pts) \in G
  <2>1. \A n \in Nat \ {0} : n \in G => n + 1 \in G
    BY <1>2
  <2> HIDE DEF G
  <2>2. Climbs(G, 1, Len(pts))
    BY <1>1, <1>3, <2>1 DEF Climbs
  <2> QED
    BY <1>3, <2>2, Upward
<1>5. PICK f : IsLength(f, pts, Len(pts))
  BY <1>4
<1>6. IsLength(LengthTo(pts), pts, Len(pts))
  BY <1>5 DEF IsLength, LengthTo, LengthStep
<1>7. ASSUME NEW g, IsLength(g, pts, Len(pts))
      PROVE  g[1] = 0 /\ \A i \in 2 .. Len(pts) : g[i] = LengthStep(g[i - 1], pts, i)
  <2>1. g[1] = 0
    BY <1>3, <1>7 DEF IsLength
  <2>2. ASSUME NEW i \in 2 .. Len(pts) PROVE g[i] = LengthStep(g[i - 1], pts, i)
    <3>1. i \in 1 .. Len(pts) /\ i # 1
      BY <1>3
    <3> QED
      BY <1>7, <3>1 DEF IsLength
  <2> QED
    BY <2>1, <2>2
<1> QED
  BY <1>6, <1>7

LEMMA LengthOnwards ==
  ASSUME NEW pts \in Path, NEW x \in Nat
  PROVE  PathLength(Append(pts, x)) = PathLength(pts) + SegmentLength(Append(pts, x), Len(pts))
<1> DEFINE q == Append(pts, x)
           G == {i \in Nat : LengthTo(q)[i] = LengthTo(pts)[i]}
           n == Len(pts)
<1>1. /\ q \in Path /\ Len(q) = n + 1 /\ n \in Nat \ {0}
      /\ \A i \in 1 .. n - 1 : SegmentLength(q, i) = SegmentLength(pts, i)
  <2>1. pts \in Seq(Nat) /\ pts # <<>> /\ q # <<>>
    BY DEF Path
  <2> QED
    BY <2>1, Appended DEF Path
<1> HIDE DEF q
<1>2. 1 \in G
  BY <1>1, LengthToUnfolded
<1>3. ASSUME NEW i \in 1 .. n - 1, i \in G PROVE i + 1 \in G
  <2> DEFINE j == i + 1
  <2>1. j \in 2 .. n /\ j \in 2 .. Len(q) /\ j - 1 = i /\ j \in Nat
    BY <1>1
  <2>2. LengthTo(q)[j - 1] = LengthTo(pts)[j - 1] /\ SegmentLength(q, j - 1) = SegmentLength(pts, j - 1)
    BY <1>1, <1>3, <2>1
  <2> HIDE DEF j
  <2>3. LengthTo(pts)[j] = LengthStep(LengthTo(pts)[j - 1], pts, j)
    BY <2>1, LengthToUnfolded DEF n
  <2>4. LengthTo(q)[j] = LengthStep(LengthTo(q)[j - 1], q, j)
    BY <1>1, <2>1, LengthToUnfolded
  <2>5. LengthTo(q)[j] = LengthTo(pts)[j]
    BY <2>2, <2>3, <2>4 DEF LengthStep
  <2> QED
    BY <2>1, <2>5 DEF j
<1>4. n \in G
  <2>1. \A i \in 1 .. n - 1 : i \in G => i + 1 \in G
    BY <1>3
  <2> HIDE DEF G, n
  <2>2. Climbs(G, 1, n)
    BY <1>2, <2>1 DEF Climbs
  <2> QED
    BY <1>1, <2>2, Upward
<1>5. LengthTo(q)[n + 1] = LengthStep(LengthTo(q)[n], q, n + 1)
  <2>1. n + 1 \in 2 .. Len(q) /\ n + 1 - 1 = n
    BY <1>1
  <2> HIDE DEF n
  <2> QED
    BY <1>1, <2>1, LengthToUnfolded
<1>6. PathLength(q) = LengthTo(q)[n + 1] /\ PathLength(pts) = LengthTo(pts)[n]
  BY <1>1 DEF PathLength
<1>7. n + 1 - 1 = n
  BY <1>1
<1> HIDE DEF n
<1>8. PathLength(q) = PathLength(pts) + SegmentLength(q, n)
  BY <1>4, <1>5, <1>6, <1>7 DEF LengthStep
<1> QED
  BY <1>8 DEF q, n

LEMMA LengthStarts ==
  ASSUME NEW x \in Nat
  PROVE  PathLength(<<x>>) = 0
<1>1. <<x>> \in Path /\ Len(<<x>>) = 1
  BY DEF Path
<1> QED
  BY <1>1, LengthToUnfolded DEF PathLength

\* The path without repetitions, as it grows.
KeptStep(kept, pts, i) ==
  IF i > 1 /\ pts[i] = pts[i - 1] THEN kept ELSE Append(kept, pts[i])
IsKept(f, pts, n) == f = [i \in 0 .. n |-> IF i = 0 THEN <<>> ELSE KeptStep(f[i - 1], pts, i)]

LEMMA KeptUnfolded ==
  ASSUME NEW pts \in Path
  PROVE  /\ Kept(pts)[0] = <<>>
         /\ \A i \in 1 .. Len(pts) : Kept(pts)[i] = KeptStep(Kept(pts)[i - 1], pts, i)
<1> DEFINE G == {n \in Nat : \E f : IsKept(f, pts, n)}
<1>1. 0 \in G
  <2>1. IsKept([i \in 0 .. 0 |-> <<>>], pts, 0)
    BY DEF IsKept
  <2> QED
    BY <2>1
<1>2. ASSUME NEW n \in Nat, n \in G PROVE n + 1 \in G
  <2>1. PICK f : IsKept(f, pts, n)
    BY <1>2
  <2> DEFINE g == [i \in 0 .. n + 1 |-> IF i = n + 1 THEN KeptStep(f[n], pts, n + 1) ELSE f[i]]
  <2>2. IsKept(g, pts, n + 1)
    BY <2>1 DEF IsKept
  <2> QED
    BY <2>2
<1>3. Len(pts) \in Nat
  BY DEF Path
<1>4. Len(pts) \in G
  <2>1. \A n \in Nat : n \in G => n + 1 \in G
    BY <1>2
  <2> HIDE DEF G
  <2>2. Climbs(G, 0, Len(pts))
    BY <1>1, <1>3, <2>1 DEF Climbs
  <2> QED
    BY <1>3, <2>2, Upward
<1>5. PICK f : IsKept(f, pts, Len(pts))
  BY <1>4
<1>6. IsKept(Kept(pts), pts, Len(pts))
  BY <1>5 DEF IsKept, Kept, KeptStep
<1>7. ASSUME NEW g, IsKept(g, pts, Len(pts))
      PROVE  g[0] = <<>> /\ \A i \in 1 .. Len(pts) : g[i] = KeptStep(g[i - 1], pts, i)
  <2>1. g[0] = <<>>
    BY <1>3, <1>7 DEF IsKept
  <2>2. ASSUME NEW i \in 1 .. Len(pts) PROVE g[i] = KeptStep(g[i - 1], pts, i)
    <3>1. i \in 0 .. Len(pts) /\ i # 0
      BY <1>3
    <3> QED
      BY <1>7, <3>1 DEF IsKept
  <2> QED
    BY <2>1, <2>2
<1> QED
  BY <1>6, <1>7

LEMMA KeptOnwards ==
  ASSUME NEW pts \in Path, NEW x \in Nat
  PROVE  WithoutRepeats(Append(pts, x)) =
           IF pts[Len(pts)] = x THEN WithoutRepeats(pts) ELSE Append(WithoutRepeats(pts), x)
<1> DEFINE q == Append(pts, x)
           G == {i \in Nat : Kept(q)[i] = Kept(pts)[i]}
           n == Len(pts)
<1>1. /\ q \in Path /\ Len(q) = n + 1 /\ n \in Nat \ {0} /\ q[n + 1] = x
      /\ \A i \in 1 .. n : q[i] = pts[i]
  <2>1. pts \in Seq(Nat) /\ pts # <<>> /\ q # <<>>
    BY DEF Path
  <2> QED
    BY <2>1, Appended DEF Path
<1> HIDE DEF q
<1>2. 0 \in G
  BY <1>1, KeptUnfolded
<1>3. ASSUME NEW i \in 0 .. n - 1, i \in G PROVE i + 1 \in G
  <2> DEFINE j == i + 1
  <2>1. j \in 1 .. n /\ j \in 1 .. Len(q) /\ j - 1 = i /\ j \in Nat
    BY <1>1
  <2>2. Kept(q)[j - 1] = Kept(pts)[j - 1] /\ q[j] = pts[j] /\ (j > 1 => q[j - 1] = pts[j - 1])
    BY <1>1, <1>3, <2>1
  <2> HIDE DEF j
  <2>3. Kept(pts)[j] = KeptStep(Kept(pts)[j - 1], pts, j)
    BY <2>1, KeptUnfolded DEF n
  <2>4. Kept(q)[j] = KeptStep(Kept(q)[j - 1], q, j)
    BY <1>1, <2>1, KeptUnfolded
  <2>5. Kept(q)[j] = Kept(pts)[j]
    BY <2>2, <2>3, <2>4 DEF KeptStep
  <2> QED
    BY <2>1, <2>5 DEF j
<1>4. n \in G
  <2>1. \A i \in 0 .. n - 1 : i \in G => i + 1 \in G
    BY <1>3
  <2> HIDE DEF G, n
  <2>2. Climbs(G, 0, n)
    BY <1>2, <2>1 DEF Climbs
  <2> QED
    BY <1>1, <2>2, Upward
<1>5. Kept(q)[n + 1] = KeptStep(Kept(q)[n], q, n + 1)
  <2>1. n + 1 \in 1 .. Len(q) /\ n + 1 - 1 = n
    BY <1>1
  <2> HIDE DEF n
  <2> QED
    BY <1>1, <2>1, KeptUnfolded
<1>6. WithoutRepeats(q) = Kept(q)[n + 1] /\ WithoutRepeats(pts) = Kept(pts)[n]
  BY <1>1 DEF WithoutRepeats
<1>7. n + 1 - 1 = n /\ n + 1 > 1 /\ q[n] = pts[n]
  BY <1>1
<1> HIDE DEF n
<1>8. WithoutRepeats(q) = IF pts[n] = x THEN WithoutRepeats(pts) ELSE Append(WithoutRepeats(pts), x)
  BY <1>1, <1>4, <1>5, <1>6, <1>7 DEF KeptStep
<1> QED
  BY <1>8 DEF q, n

LEMMA KeptStarts ==
  ASSUME NEW x \in Nat
  PROVE  WithoutRepeats(<<x>>) = <<x>>
<1>1. <<x>> \in Path /\ Len(<<x>>) = 1 /\ <<x>>[1] = x /\ 1 - 1 = 0
  BY DEF Path
<1>2. Kept(<<x>>)[1] = KeptStep(Kept(<<x>>)[0], <<x>>, 1) /\ Kept(<<x>>)[0] = <<>>
  BY <1>1, KeptUnfolded
<1> QED
  BY <1>1, <1>2 DEF WithoutRepeats, KeptStep

-----------------------------------------------------------------------------
\* What is placed on one segment, by how far along the path it is: the walk
\* enters the segment, of length len and t along the path, with carry c.
Stretch(c, t, s, len) ==
  IF len = 0 THEN <<>>
  ELSE [k \in 1 .. Advances(c, s, len) - Advances(c, s, 0) |->
          t + (Advances(c, s, 0) + k - 1) * s - c]

LEMMA SegmentIsNat ==
  ASSUME NEW pts \in Seq(Nat), NEW i \in 1 .. Len(pts) - 1
  PROVE  SegmentLength(pts, i) \in Nat
<1>1. pts[i] \in Nat /\ pts[i + 1] \in Nat
  <2>1. i \in 1 .. Len(pts) /\ i + 1 \in 1 .. Len(pts)
    OBVIOUS
  <2> QED
    BY <2>1
<1> QED
  BY <1>1 DEF SegmentLength

LEMMA CarryIsShort ==
  ASSUME NEW s \in Nat \ {0}, NEW c \in 0 .. s - 1, NEW len \in Nat
  PROVE  Overshoot(c, s, len) \in 0 .. s - 1
<1> DEFINE a == Advances(c, s, len)
<1>1. a \in Nat /\ a * s >= len + c /\ a * s < len + c + s
  BY Ceiling
<1>2. a * s \in Int
  BY <1>1
<1> HIDE DEF a
<1>3. a * s - c - len \in 0 .. s - 1
  BY <1>1, <1>2
<1> QED
  BY <1>3 DEF Overshoot, a

\* A segment is entered with a placement short of its end or none, never before
\* its beginning.
LEMMA StretchSound ==
  ASSUME NEW s \in Nat \ {0}, NEW c \in 0 .. s - 1, NEW t \in Nat, NEW len \in Nat
  PROVE  /\ Stretch(c, t, s, len) \in Seq(Nat)
         /\ \A k \in DOMAIN Stretch(c, t, s, len) :
              /\ Stretch(c, t, s, len)[k] \in t .. t + len - 1
              /\ k > 1 => Stretch(c, t, s, len)[k] > Stretch(c, t, s, len)[k - 1]
<1> DEFINE a == Advances(c, s, len)
           b == Advances(c, s, 0)
           at(k) == t + (b + k - 1) * s - c
<1>1. /\ a \in Nat /\ a * s >= len + c /\ a * s < len + c + s
      /\ b \in Nat /\ b * s >= c /\ b * s < c + s
  <2>1. c \in Nat
    OBVIOUS
  <2>2. a \in Nat /\ a * s >= len + c /\ a * s < len + c + s
    BY <2>1, Ceiling
  <2>3. b \in Nat /\ b * s >= 0 + c /\ b * s < 0 + c + s
    BY <2>1, Ceiling
  <2> HIDE DEF b
  <2> QED
    BY <2>1, <2>2, <2>3
<1> HIDE DEF a, b
<1>2. ASSUME NEW k \in 1 .. a - b
      PROVE  at(k) \in t .. t + len - 1 /\ (k > 1 => at(k) > at(k - 1))
  <2>1. b <= b + k - 1 /\ b + k - 1 + 1 <= a /\ b + k - 1 \in Nat
    BY <1>1
  <2> DEFINE m == b + k - 1
  <2>2. m \in Nat /\ b <= m /\ m + 1 <= a
    BY <2>1
  <2> HIDE DEF m
  <2>3. b * s <= m * s /\ (m + 1) * s <= a * s
    BY <1>1, <2>2, Scaled
  <2>4. (m + 1) * s = m * s + s /\ (m - 1) * s = m * s - s
    BY <2>2
  <2>5. m * s \in Int /\ b * s \in Int /\ a * s \in Int
    BY <1>1, <2>2
  <2>6. m * s - c >= 0 /\ m * s - c < len
    BY <1>1, <2>3, <2>4, <2>5
  <2>7. t + m * s - c \in t .. t + len - 1
    BY <2>5, <2>6
  <2>8. t + m * s - c > t + (m - 1) * s - c
    BY <2>4, <2>5
  <2>9. b + (k - 1) - 1 = m - 1
    BY <1>1 DEF m
  <2> QED
    BY <2>7, <2>8, <2>9 DEF m
<1>3. CASE len = 0
  BY <1>3 DEF Stretch
<1>4. CASE len # 0
  <2>1. Stretch(c, t, s, len) = [k \in 1 .. a - b |-> at(k)]
    BY <1>4 DEF Stretch, a, b
  <2>2. \A k \in 1 .. a - b : at(k) \in Nat
    <3> HIDE DEF at
    <3> QED
      BY <1>2
  <2> HIDE DEF at
  <2>3. Stretch(c, t, s, len) \in Seq(Nat)
    <3>1. CASE b <= a
      <4>1. a - b \in Nat
        BY <1>1, <3>1
      <4> QED
        BY <2>1, <2>2, <4>1
    <3>2. CASE a < b
      <4>1. 1 .. a - b = {}
        BY <1>1, <3>2
      <4>2. Stretch(c, t, s, len) = <<>>
        BY <2>1, <4>1
      <4> QED
        BY <4>2
    <3> QED
      BY <1>1, <3>1, <3>2
  <2>4. ASSUME NEW k \in 1 .. a - b, k > 1 PROVE k - 1 \in 1 .. a - b
    BY <1>1, <2>4
  <2> QED
    BY <1>2, <2>1, <2>3, <2>4
<1> QED
  BY <1>3, <1>4

Placed == [at : Int, segment : Nat \ {0}, pos : Int]

LEMMA SegmentSound ==
  ASSUME NEW pts \in Seq(Nat), NEW i \in 1 .. Len(pts) - 1, NEW s \in Nat \ {0},
         NEW c \in 0 .. s - 1, NEW t \in Nat
  PROVE  LET row == OnSegment(pts, s, c, i)
             stretch == Stretch(c, t, s, SegmentLength(pts, i))
         IN /\ row \in Seq(Placed) /\ Len(row) = Len(stretch)
            /\ \A k \in 1 .. Len(row) : row[k].segment = i /\ t + row[k].pos = stretch[k]
<1> DEFINE len == SegmentLength(pts, i)
           row == OnSegment(pts, s, c, i)
           a == Advances(c, s, len)
           b == Advances(c, s, 0)
           dir == IF pts[i + 1] > pts[i] THEN 1 ELSE -1
           pos(k) == (b + k - 1) * s - c
           p(k) == [at |-> pts[i] + dir * pos(k), segment |-> i, pos |-> pos(k)]
<1>1. len \in Nat /\ pts[i] \in Nat /\ i \in Nat \ {0} /\ c \in Nat
  <2>1. i \in 1 .. Len(pts)
    OBVIOUS
  <2> QED
    BY <2>1, SegmentIsNat
<1>2. a \in Nat
  <2> HIDE DEF len
  <2> QED
    BY <1>1, Ceiling
<1>3. b \in Nat
  BY <1>1, Ceiling
<1>4. CASE len = 0
  BY <1>4 DEF OnSegment, Stretch
<1>5. CASE len # 0
  <2>1. row = [k \in 1 .. a - b |-> p(k)]
    BY <1>5 DEF OnSegment
  <2>2. Stretch(c, t, s, len) = [k \in 1 .. a - b |-> t + (b + k - 1) * s - c]
    BY <1>5 DEF Stretch
  <2> HIDE DEF a, b, row, len
  <2>3. ASSUME NEW k \in 1 .. a - b
        PROVE  p(k) \in Placed /\ p(k).segment = i /\ t + p(k).pos = t + (b + k - 1) * s - c
    <3>1. (b + k - 1) * s \in Int
      BY <1>2, <1>3
    <3>2. pos(k) \in Int /\ t + pos(k) = t + (b + k - 1) * s - c
      BY <1>1, <3>1
    <3>3. dir * pos(k) \in Int
      <4> HIDE DEF pos
      <4> QED
        BY <3>2
    <3>4. pts[i] + dir * pos(k) \in Int
      <4> HIDE DEF pos, dir
      <4> QED
        BY <1>1, <3>3
    <3> HIDE DEF pos, dir
    <3> QED
      BY <1>1, <3>2, <3>4 DEF Placed
  <2> HIDE DEF p
  <2>4. CASE b <= a
    <3>1. a - b \in Nat
      BY <1>2, <1>3, <2>4
    <3>2. row \in Seq(Placed) /\ Len(row) = a - b
      <4>1. row \in [1 .. a - b -> Placed]
        BY <2>1, <2>3
      <4> QED
        BY <3>1, <4>1, FunctionIsSequence
    <3>3. Len(Stretch(c, t, s, len)) = a - b
      BY <2>2, <3>1
    <3> QED
      BY <2>1, <2>2, <2>3, <3>2, <3>3 DEF row, len
  <2>5. CASE a < b
    <3>1. 1 .. a - b = {}
      BY <1>2, <1>3, <2>5
    <3>2. row = <<>> /\ Stretch(c, t, s, len) = <<>>
      <4> DEFINE stretch == Stretch(c, t, s, len)
      <4>1. row = [k \in {} |-> p(k)] /\ stretch = [k \in {} |-> t + (b + k - 1) * s - c]
        BY <2>1, <2>2, <3>1
      <4>2. row \in [{} -> Placed] /\ stretch \in [{} -> Placed]
        BY <4>1
      <4> HIDE DEF stretch
      <4>3. row = <<>> /\ stretch = <<>>
        BY <4>2, EmptyFunction
      <4> QED
        BY <4>3 DEF stretch
    <3> QED
      BY <3>2 DEF row, len
  <2> QED
    BY <1>2, <1>3, <2>4, <2>5
<1> QED
  BY <1>4, <1>5

\* The walk along the path so far: its placements lie on the segments there are,
\* and it passes the end by less than a spacing.
WalkSound(pts, s) ==
  /\ LastCarry(pts, s) \in 0 .. s - 1 /\ PathLength(pts) \in Nat
  /\ Walk(pts, s) \in Seq(Placed)
  /\ \A k \in 1 .. Len(Walk(pts, s)) : Walk(pts, s)[k].segment < Len(pts)

LEMMA WalkIsSound ==
  ASSUME NEW s \in Nat \ {0}
  PROVE  \A pts \in Path : WalkSound(pts, s)
<1> DEFINE G == {pts \in Path : WalkSound(pts, s)}
<1>1. ASSUME NEW x \in Nat PROVE <<x>> \in G
  <2>1. <<x>> \in Path /\ Len(<<x>>) = 1
    BY DEF Path
  <2>2. LastCarry(<<x>>, s) = 0 /\ Walk(<<x>>, s) = <<>> /\ PathLength(<<x>>) = 0
    BY WalkStarts, LengthStarts
  <2> QED
    BY <2>1, <2>2 DEF WalkSound
<1>2. ASSUME NEW pts \in Path, NEW x \in Nat, pts \in G PROVE Append(pts, x) \in G
  <2> DEFINE q == Append(pts, x)
             n == Len(pts)
             c == LastCarry(pts, s)
             seg == OnSegment(q, s, c, n)
  <2>1. WalkSound(pts, s)
    BY <1>2
  <2>2. /\ q \in Path /\ q \in Seq(Nat) /\ Len(q) = n + 1 /\ n \in 1 .. Len(q) - 1
        /\ n \in Nat \ {0}
    BY DEF Path
  <2>3. /\ LastCarry(q, s) = Overshoot(c, s, SegmentLength(q, n))
        /\ Walk(q, s) = Walk(pts, s) \o seg
        /\ PathLength(q) = PathLength(pts) + SegmentLength(q, n)
    BY WalkOnwards, LengthOnwards DEF Path
  <2> HIDE DEF q, n
  <2>4. SegmentLength(q, n) \in Nat
    BY <2>2, SegmentIsNat
  <2>5. c \in 0 .. s - 1
    BY <2>1 DEF WalkSound
  <2>6. seg \in Seq(Placed) /\ \A k \in 1 .. Len(seg) : seg[k].segment = n
    <3> HIDE DEF c
    <3> QED
      BY <2>2, <2>5, SegmentSound
  <2> HIDE DEF c, seg
  <2>7. LastCarry(q, s) \in 0 .. s - 1 /\ PathLength(q) \in Nat
    <3>1. Overshoot(c, s, SegmentLength(q, n)) \in 0 .. s - 1
      BY <2>4, <2>5, CarryIsShort
    <3>2. PathLength(pts) \in Nat
      BY <2>1 DEF WalkSound
    <3> QED
      BY <2>3, <2>4, <3>1, <3>2
  <2>8. /\ Walk(q, s) \in Seq(Placed)
        /\ \A k \in 1 .. Len(Walk(q, s)) : Walk(q, s)[k].segment < Len(q)
    <3> DEFINE row == Walk(pts, s)
    <3>1. row \in Seq(Placed) /\ \A k \in 1 .. Len(row) : row[k].segment < n
      BY <2>1 DEF WalkSound, n
    <3>2. Walk(q, s) = row \o seg
      BY <2>3
    <3> HIDE DEF row
    <3>3. /\ Walk(q, s) \in Seq(Placed) /\ Len(Walk(q, s)) = Len(row) + Len(seg)
          /\ \A k \in 1 .. Len(row) : Walk(q, s)[k] = row[k]
          /\ \A k \in Len(row) + 1 .. Len(row) + Len(seg) : Walk(q, s)[k] = seg[k - Len(row)]
      BY <2>6, <3>1, <3>2
    <3>4. ASSUME NEW k \in 1 .. Len(Walk(q, s)) PROVE Walk(q, s)[k].segment < Len(q)
      <4>1. CASE k \in 1 .. Len(row)
        <5>1. row[k].segment < n /\ row[k].segment \in Nat /\ Walk(q, s)[k] = row[k]
          <6>1. row[k] \in Placed
            BY <3>1, <4>1
          <6> QED
            BY <3>1, <3>3, <4>1, <6>1 DEF Placed
        <5> QED
          BY <2>2, <5>1
      <4>2. CASE k \in Len(row) + 1 .. Len(row) + Len(seg)
        <5>1. k - Len(row) \in 1 .. Len(seg)
          BY <2>6, <3>1, <4>2
        <5>2. Walk(q, s)[k].segment = n
          BY <2>6, <3>3, <4>2, <5>1
        <5> QED
          BY <2>2, <5>2
      <4> QED
        BY <2>6, <3>1, <3>3, <4>1, <4>2
    <3> QED
      BY <3>3, <3>4
  <2> QED
    BY <2>2, <2>7, <2>8 DEF WalkSound, q
<1>3. Grows(G)
  BY <1>1, <1>2 DEF Grows
<1>4. Path \subseteq G
  <2> HIDE DEF G
  <2> QED
    BY <1>3, Onwards
<1> QED
  BY <1>4

LEMMA AlongsIs ==
  ASSUME NEW s \in Nat \ {0}, NEW pts \in Path
  PROVE  /\ Alongs(pts, s) \in Seq(Int) /\ Len(Alongs(pts, s)) = Len(Walk(pts, s))
         /\ \A k \in 1 .. Len(Walk(pts, s)) : Alongs(pts, s)[k] = Along(pts, Walk(pts, s)[k])
<1> DEFINE row == Walk(pts, s)
<1>1. /\ pts \in Seq(Nat) /\ row \in Seq(Placed)
      /\ \A k \in 1 .. Len(row) : row[k].segment < Len(pts)
  BY WalkIsSound DEF WalkSound, Path
<1>2. Alongs(pts, s) = [k \in 1 .. Len(row) |-> Along(pts, row[k])]
  BY <1>1 DEF Alongs
<1> HIDE DEF row
<1>3. ASSUME NEW k \in 1 .. Len(row) PROVE Along(pts, row[k]) \in Int
  <2> DEFINE i == row[k].segment
  <2>1. row[k] \in Placed
    BY <1>1
  <2>2. i \in Nat \ {0} /\ i < Len(pts) /\ row[k].pos \in Int
    BY <1>1, <2>1 DEF Placed
  <2> HIDE DEF i
  <2>3. SubSeq(pts, 1, i) \in Seq(Nat) /\ Len(SubSeq(pts, 1, i)) = i
    BY <1>1, <2>2
  <2>4. SubSeq(pts, 1, i) \in Path
    BY <2>2, <2>3 DEF Path
  <2>5. PathLength(SubSeq(pts, 1, i)) \in Nat
    BY <2>4, WalkIsSound DEF WalkSound
  <2> QED
    BY <2>2, <2>5 DEF Along, i
<1>4. Len(row) \in Nat
  BY <1>1
<1>5. Alongs(pts, s) \in [1 .. Len(row) -> Int]
  BY <1>2, <1>3
<1>6. Alongs(pts, s) \in Seq(Int) /\ Len(Alongs(pts, s)) = Len(row)
  BY <1>4, <1>5, FunctionIsSequence
<1> QED
  BY <1>2, <1>6 DEF row

LEMMA AlongsOnwards ==
  ASSUME NEW s \in Nat \ {0}, NEW pts \in Path, NEW x \in Nat
  PROVE  LET q == Append(pts, x)
         IN Alongs(q, s) = Alongs(pts, s) \o
              Stretch(LastCarry(pts, s), PathLength(pts), s, SegmentLength(q, Len(pts)))
<1> DEFINE q == Append(pts, x)
           n == Len(pts)
           c == LastCarry(pts, s)
           t == PathLength(pts)
           row == Walk(pts, s)
           seg == OnSegment(q, s, c, n)
           stretch == Stretch(c, t, s, SegmentLength(q, n))
           both == Alongs(pts, s) \o stretch
<1>1. /\ q \in Path /\ q \in Seq(Nat) /\ n \in 1 .. Len(q) - 1 /\ n \in Nat \ {0}
      /\ pts \in Seq(Nat) /\ pts # <<>>
  BY DEF Path
<1>2. c \in 0 .. s - 1 /\ t \in Nat /\ row \in Seq(Placed)
      /\ \A k \in 1 .. Len(row) : row[k].segment < n
  BY WalkIsSound DEF WalkSound
<1>3. Walk(q, s) = row \o seg
  BY <1>1, WalkOnwards
<1>4. \A i \in 1 .. n : SubSeq(q, 1, i) = SubSeq(pts, 1, i)
  BY <1>1, Appended
<1>5. SubSeq(q, 1, n) = pts
  BY <1>1, <1>4
<1>6. /\ Alongs(pts, s) \in Seq(Int) /\ Len(Alongs(pts, s)) = Len(row)
      /\ \A k \in 1 .. Len(row) : Alongs(pts, s)[k] = Along(pts, row[k])
  BY AlongsIs
<1> HIDE DEF q, c, t, row
<1>7. /\ Alongs(q, s) \in Seq(Int) /\ Len(Alongs(q, s)) = Len(Walk(q, s))
      /\ \A k \in 1 .. Len(Walk(q, s)) : Alongs(q, s)[k] = Along(q, Walk(q, s)[k])
  BY <1>1, AlongsIs
<1> HIDE DEF n
<1>8. SegmentLength(q, n) \in Nat
  BY <1>1, SegmentIsNat
<1>9. /\ seg \in Seq(Placed) /\ Len(seg) = Len(stretch)
      /\ \A k \in 1 .. Len(seg) : seg[k].segment = n /\ t + seg[k].pos = stretch[k]
  BY <1>1, <1>2, SegmentSound
<1>10. stretch \in Seq(Int)
  <2>1. stretch \in Seq(Nat)
    BY <1>2, <1>8, StretchSound
  <2> HIDE DEF stretch
  <2> QED
    BY <2>1
<1> DEFINE a == Alongs(pts, s)
<1> HIDE DEF seg, stretch, a
<1>11. a \in Seq(Int) /\ Len(a) = Len(row)
  BY <1>6 DEF a
<1>12. Len(Walk(q, s)) = Len(row) + Len(seg) /\ Len(row) \in Nat /\ Len(seg) \in Nat
  <2>1. row \in Seq(Placed) /\ seg \in Seq(Placed)
    BY <1>2, <1>9
  <2>2. Len(row \o seg) = Len(row) + Len(seg) /\ Len(row) \in Nat /\ Len(seg) \in Nat
    BY <2>1, JoinedIs
  <2> QED
    BY <1>3, <2>2
<1>13. both \in Seq(Int) /\ Len(both) = Len(row) + Len(seg)
  <2>1. a \o stretch \in Seq(Int) /\ Len(a \o stretch) = Len(a) + Len(stretch)
    BY <1>10, <1>11, JoinedIs
  <2>2. Len(stretch) = Len(seg) /\ Len(a) = Len(row)
    BY <1>9, <1>11
  <2> QED
    BY <2>1, <2>2 DEF a
<1>14. ASSUME NEW k \in 1 .. Len(row) + Len(seg)
       PROVE  Alongs(q, s)[k] = both[k]
  <2>1. CASE k \in 1 .. Len(row)
    <3>1. Walk(q, s)[k] = row[k] /\ row[k] \in Placed
      BY <1>2, <1>3, <1>9, <2>1
    <3>2. row[k].segment \in 1 .. n
      <4>1. row[k].segment < n /\ row[k].segment \in Nat \ {0}
        BY <1>2, <2>1, <3>1 DEF Placed
      <4> QED
        BY <1>1, <4>1
    <3>3. Along(q, row[k]) = Along(pts, row[k])
      BY <1>4, <3>2 DEF Along
    <3>4. both[k] = a[k]
      BY <1>10, <1>11, <2>1 DEF a
    <3>5. Alongs(q, s)[k] = Along(q, row[k])
      BY <1>7, <1>12, <3>1
    <3>6. a[k] = Along(pts, row[k])
      BY <1>6, <2>1 DEF a
    <3> QED
      BY <3>3, <3>4, <3>5, <3>6
  <2>2. CASE k \in Len(row) + 1 .. Len(row) + Len(seg)
    <3> DEFINE j == k - Len(row)
    <3>1. j \in 1 .. Len(seg)
      BY <1>12, <2>2
    <3>2. Walk(q, s)[k] = seg[j]
      BY <1>2, <1>3, <1>9, <2>2
    <3>3. both[k] = stretch[j]
      <4>1. k \in Len(a) + 1 .. Len(a) + Len(stretch) /\ Len(a) = Len(row)
        BY <1>9, <1>11, <2>2
      <4>2. (a \o stretch)[k] = stretch[k - Len(a)]
        BY <1>10, <1>11, <4>1, JoinedIs
      <4> QED
        BY <4>1, <4>2 DEF a
    <3> HIDE DEF j, both
    <3>4. Alongs(q, s)[k] = Along(q, seg[j])
      BY <1>7, <1>12, <3>2
    <3>5. Along(q, seg[j]) = PathLength(pts) + seg[j].pos
      BY <1>5, <1>9, <3>1 DEF Along
    <3> QED
      BY <1>9, <3>1, <3>3, <3>4, <3>5 DEF t
  <2>3. k \in 1 .. Len(row) \/ k \in Len(row) + 1 .. Len(row) + Len(seg)
    BY <1>12
  <2> HIDE DEF both
  <2> QED
    BY <2>1, <2>2, <2>3
<1> HIDE DEF both
<1>15. Alongs(q, s) = both
  BY <1>7, <1>12, <1>13, <1>14, SameSequence
<1> QED
  BY <1>15 DEF both, stretch, q, n, c, t

\* From the start of a path, or of its first segment with a length, placements
\* are multiples of the spacing, and enough of them for the segment.
LEMMA StretchFromStart ==
  ASSUME NEW s \in Nat \ {0}, NEW len \in Nat
  PROVE  LET stretch == Stretch(0, 0, s, len)
         IN /\ \A k \in 1 .. Len(stretch) : stretch[k] = (k - 1) * s
            /\ Len(stretch) * s >= len
            /\ len > 0 => Len(stretch) >= 1
<1> DEFINE a == Advances(0, s, len)
           b == Advances(0, s, 0)
           stretch == Stretch(0, 0, s, len)
<1>1. a \in Nat /\ a * s >= len
  <2>1. a \in Nat /\ a * s >= len + 0
    BY Ceiling
  <2> HIDE DEF a
  <2> QED
    BY <2>1
<1>2. b = 0
  <2>1. b \in Nat /\ b * s < 0 + 0 + s
    BY Ceiling
  <2> HIDE DEF b
  <2>2. b * s < 1 * s
    BY <2>1
  <2>3. b < 1
    BY <2>1, <2>2, Scaled
  <2> QED
    BY <2>1, <2>3
<1>3. CASE len = 0
  <2>1. stretch = <<>>
    BY <1>3 DEF Stretch
  <2> QED
    BY <1>3, <2>1
<1>4. CASE len # 0
  <2>1. stretch = [k \in 1 .. a - b |-> 0 + (b + k - 1) * s - 0]
    BY <1>4 DEF Stretch
  <2> HIDE DEF a, b, stretch
  <2>2. ASSUME NEW k \in 1 .. a PROVE 0 + (0 + k - 1) * s - 0 = (k - 1) * s /\ (k - 1) * s \in Int
    BY <1>1
  <2>3. stretch = [k \in 1 .. a |-> 0 + (0 + k - 1) * s - 0]
    BY <1>1, <1>2, <2>1
  <2>4. stretch = [k \in 1 .. a |-> (k - 1) * s]
    BY <2>2, <2>3
  <2>5. stretch \in [1 .. a -> Int]
    BY <2>2, <2>4
  <2>6. Len(stretch) = a
    BY <1>1, <2>5, FunctionIsSequence
  <2>7. a # 0
    BY <1>1, <1>4
  <2> QED
    BY <1>1, <2>4, <2>6, <2>7 DEF stretch
<1> QED
  BY <1>3, <1>4

-----------------------------------------------------------------------------
\* What LineWalksThePath says, of the path so far.
Advancing(pts, s) ==
  /\ Alongs(pts, s) \in Seq(Nat)
  /\ \A k \in 1 .. Len(Alongs(pts, s)) :
       /\ Alongs(pts, s)[k] < PathLength(pts)
       /\ k > 1 => Alongs(pts, s)[k] > Alongs(pts, s)[k - 1]
Beginning(pts, s) ==
  /\ PathLength(pts) = 0 => LastCarry(pts, s) = 0 /\ Alongs(pts, s) = <<>>
  /\ PathLength(pts) > 0 => Len(Alongs(pts, s)) >= 1 /\ Alongs(pts, s)[1] = 0
Repeatable(pts, s) ==
  /\ WithoutRepeats(pts) \in Path
  /\ WithoutRepeats(pts)[Len(WithoutRepeats(pts))] = pts[Len(pts)]
  /\ PathLength(WithoutRepeats(pts)) = PathLength(pts)
  /\ LastCarry(WithoutRepeats(pts), s) = LastCarry(pts, s)
  /\ Alongs(WithoutRepeats(pts), s) = Alongs(pts, s)

\* What one more point adds: len to the length, a stretch to the placements.
LEMMA OnePoint ==
  ASSUME NEW s \in Nat \ {0}, NEW pts \in Path, NEW x \in Nat
  PROVE  LET q == Append(pts, x)
             len == IF x >= pts[Len(pts)] THEN x - pts[Len(pts)] ELSE pts[Len(pts)] - x
             stretch == Stretch(LastCarry(pts, s), PathLength(pts), s, len)
         IN /\ q \in Path /\ q[Len(q)] = x
            /\ len \in Nat /\ (len = 0 <=> pts[Len(pts)] = x)
            /\ LastCarry(pts, s) \in 0 .. s - 1 /\ PathLength(pts) \in Nat
            /\ LastCarry(q, s) = Overshoot(LastCarry(pts, s), s, len)
            /\ PathLength(q) = PathLength(pts) + len
            /\ Alongs(q, s) = Alongs(pts, s) \o stretch
<1> DEFINE q == Append(pts, x)
           n == Len(pts)
           len == IF x >= pts[n] THEN x - pts[n] ELSE pts[n] - x
<1>1. /\ q \in Path /\ Len(q) = n + 1 /\ pts \in Seq(Nat) /\ pts # <<>> /\ n \in Nat \ {0}
      /\ q[Len(q)] = x /\ q[n] = pts[n] /\ q[n + 1] = x
  BY DEF Path
<1>2. pts[n] \in Nat
  BY <1>1
<1>3. SegmentLength(q, n) = len
  <2> HIDE DEF q, n
  <2> QED
    BY <1>1 DEF SegmentLength
<1>4. LastCarry(pts, s) \in 0 .. s - 1 /\ PathLength(pts) \in Nat
  BY WalkIsSound DEF WalkSound
<1>5. LastCarry(q, s) = Overshoot(LastCarry(pts, s), s, SegmentLength(q, n))
  BY <1>1, WalkOnwards
<1>6. PathLength(q) = PathLength(pts) + SegmentLength(q, n)
  BY LengthOnwards
<1>7. Alongs(q, s) = Alongs(pts, s) \o
        Stretch(LastCarry(pts, s), PathLength(pts), s, SegmentLength(q, n))
  BY AlongsOnwards
<1>8. len \in Nat /\ (len = 0 <=> pts[n] = x)
  <2> HIDE DEF n
  <2> QED
    BY <1>2
<1> HIDE DEF q, n, len
<1>9. LastCarry(q, s) = Overshoot(LastCarry(pts, s), s, len) /\ PathLength(q) = PathLength(pts) + len
  BY <1>3, <1>5, <1>6
<1>10. Alongs(q, s) = Alongs(pts, s) \o Stretch(LastCarry(pts, s), PathLength(pts), s, len)
  BY <1>3, <1>7
<1> QED
  BY <1>1, <1>4, <1>8, <1>9, <1>10 DEF q, n, len

\* A path of one point.
LEMMA OneSpot ==
  ASSUME NEW s \in Nat \ {0}, NEW x \in Nat
  PROVE  /\ <<x>> \in Path /\ <<x>>[Len(<<x>>)] = x
         /\ PathLength(<<x>>) = 0 /\ LastCarry(<<x>>, s) = 0 /\ Alongs(<<x>>, s) = <<>>
<1>1. <<x>> \in Path /\ Len(<<x>>) = 1 /\ <<x>>[1] = x
  BY DEF Path
<1>2. PathLength(<<x>>) = 0 /\ LastCarry(<<x>>, s) = 0 /\ Walk(<<x>>, s) = <<>>
  BY LengthStarts, WalkStarts
<1>3. Alongs(<<x>>, s) = <<>>
  <2>1. Alongs(<<x>>, s) \in Seq(Int) /\ Len(Alongs(<<x>>, s)) = 0
    BY <1>1, <1>2, AlongsIs
  <2> QED
    BY <2>1
<1> QED
  BY <1>1, <1>2, <1>3

LEMMA PathAdvances ==
  ASSUME NEW s \in Nat \ {0}
  PROVE  \A pts \in Path : Advancing(pts, s) /\ Beginning(pts, s)
<1> DEFINE G == {pts \in Path : Advancing(pts, s) /\ Beginning(pts, s)}
<1>1. ASSUME NEW x \in Nat PROVE <<x>> \in G
  <2> DEFINE q == <<x>>
  <2>1. q \in Path /\ PathLength(q) = 0 /\ LastCarry(q, s) = 0 /\ Alongs(q, s) = <<>>
    BY OneSpot
  <2> HIDE DEF q
  <2>2. Advancing(q, s)
    BY <2>1 DEF Advancing
  <2>3. Beginning(q, s)
    BY <2>1 DEF Beginning
  <2> QED
    BY <2>1, <2>2, <2>3 DEF q
<1>2. ASSUME NEW pts \in Path, NEW x \in Nat, pts \in G PROVE Append(pts, x) \in G
  <2> DEFINE q == Append(pts, x)
             len == IF x >= pts[Len(pts)] THEN x - pts[Len(pts)] ELSE pts[Len(pts)] - x
             c == LastCarry(pts, s)
             t == PathLength(pts)
             a == Alongs(pts, s)
             b == Stretch(c, t, s, len)
  <2>1. /\ q \in Path /\ len \in Nat /\ c \in 0 .. s - 1 /\ t \in Nat
        /\ LastCarry(q, s) = Overshoot(c, s, len) /\ PathLength(q) = t + len
        /\ Alongs(q, s) = a \o b
    BY OnePoint
  <2>2. /\ a \in Seq(Nat)
        /\ \A k \in 1 .. Len(a) : a[k] < t /\ (k > 1 => a[k] > a[k - 1])
    BY <1>2 DEF Advancing
  <2>3. (t = 0 => c = 0 /\ a = <<>>) /\ (t > 0 => Len(a) >= 1 /\ a[1] = 0)
    BY <1>2 DEF Beginning
  <2> HIDE DEF q, len, c, t, a
  <2>4. /\ b \in Seq(Nat)
        /\ \A k \in DOMAIN b : b[k] \in t .. t + len - 1 /\ (k > 1 => b[k] > b[k - 1])
    BY <2>1, StretchSound
  <2> HIDE DEF b
  <2>5. /\ a \o b \in Seq(Nat) /\ Len(a \o b) = Len(a) + Len(b)
        /\ Len(a) \in Nat /\ Len(b) \in Nat
        /\ \A k \in 1 .. Len(a) : (a \o b)[k] = a[k]
        /\ \A k \in Len(a) + 1 .. Len(a) + Len(b) : (a \o b)[k] = b[k - Len(a)]
    BY <2>2, <2>4, JoinedIs
  <2>6. DOMAIN b = 1 .. Len(b)
    BY <2>4
  <2> DEFINE r == a \o b
             m == Len(a)
  <2>7. \A k \in 1 .. m : r[k] = a[k] /\ a[k] \in Nat
    BY <2>2, <2>5
  <2>8. \A j \in 1 .. Len(b) : r[m + j] = b[j] /\ b[j] \in t .. t + len - 1
    <3> SUFFICES ASSUME NEW j \in 1 .. Len(b) PROVE r[m + j] = b[j] /\ b[j] \in t .. t + len - 1
      OBVIOUS
    <3>1. m + j \in m + 1 .. m + Len(b) /\ m + j - m = j
      BY <2>5
    <3> HIDE DEF m, r
    <3>2. r[m + j] = b[m + j - m]
      BY <2>5, <3>1 DEF m, r
    <3> QED
      BY <2>4, <2>6, <3>1, <3>2
  <2> HIDE DEF r, m
  <2>9. ASSUME NEW k \in 1 .. m + Len(b)
        PROVE  r[k] < t + len /\ (k > 1 => r[k] > r[k - 1])
    <3>1. m \in Nat /\ Len(b) \in Nat
      BY <2>5 DEF m
    <3>2. CASE k \in 1 .. m
      <4>1. a[k] < t /\ (k > 1 => a[k] > a[k - 1])
        BY <2>2, <3>2 DEF m
      <4>2. r[k] = a[k] /\ a[k] \in Nat /\ (k > 1 => r[k - 1] = a[k - 1])
        BY <2>7, <3>1, <3>2
      <4> QED
        BY <2>1, <4>1, <4>2
    <3>3. CASE k = m + 1
      <4>1. r[k] = b[1] /\ b[1] \in t .. t + len - 1
        BY <2>8, <3>1, <3>3
      <4>2. k > 1 => r[k - 1] = a[m] /\ a[m] < t /\ a[m] \in Nat
        <5> SUFFICES ASSUME k > 1 PROVE r[k - 1] = a[m] /\ a[m] < t /\ a[m] \in Nat
          OBVIOUS
        <5>1. m \in 1 .. m /\ k - 1 = m
          BY <3>1, <3>3
        <5>2. a[m] < t
          BY <2>2, <5>1 DEF m
        <5> QED
          BY <2>7, <5>1, <5>2
      <4> QED
        BY <2>1, <4>1, <4>2
    <3>4. CASE k \in m + 2 .. m + Len(b)
      <4> DEFINE j == k - m
      <4>1. j \in 1 .. Len(b) /\ j - 1 \in 1 .. Len(b) /\ j > 1 /\ m + j = k /\ m + (j - 1) = k - 1
        BY <3>1, <3>4
      <4> HIDE DEF j
      <4>2. r[k] = b[j] /\ r[k - 1] = b[j - 1] /\ b[j] \in t .. t + len - 1
        BY <2>8, <4>1
      <4>3. b[j] > b[j - 1]
        BY <2>4, <2>6, <4>1
      <4> QED
        BY <2>1, <4>2, <4>3
    <3> QED
      BY <3>1, <3>2, <3>3, <3>4
  <2>10. Advancing(q, s)
    BY <2>1, <2>5, <2>9 DEF Advancing, r, m
  <2>11. Beginning(q, s)
    <3>1. CASE t > 0
      <4>1. m \in Nat /\ m >= 1 /\ r[1] = 0
        BY <2>3, <2>5, <2>7, <3>1 DEF m
      <4>2. Len(r) >= 1
        BY <2>5, <4>1 DEF m, r
      <4>3. t + len # 0
        BY <2>1, <3>1
      <4> QED
        BY <2>1, <4>1, <4>2, <4>3 DEF Beginning, r
    <3>2. CASE t = 0
      <4>1. c = 0 /\ a = <<>> /\ r = b /\ PathLength(q) = len
        BY <2>1, <2>3, <2>4, <3>2 DEF r
      <4>2. CASE len = 0
        <5>1. b = <<>> /\ Overshoot(c, s, len) = c
          BY <4>2 DEF b, Stretch, Overshoot
        <5> QED
          BY <2>1, <4>1, <4>2, <5>1 DEF Beginning, r
      <4>3. CASE len > 0
        <5>1. Len(b) >= 1 /\ \A k \in 1 .. Len(b) : b[k] = (k - 1) * s
          BY <2>1, <3>2, <4>1, <4>3, StretchFromStart DEF b
        <5>2. b[1] = (1 - 1) * s /\ (1 - 1) * s = 0
          BY <2>5, <5>1
        <5> QED
          BY <2>1, <4>1, <4>3, <5>1, <5>2 DEF Beginning, r
      <4> QED
        BY <2>1, <4>2, <4>3
    <3> QED
      BY <2>1, <3>1, <3>2
  <2> QED
    BY <2>1, <2>10, <2>11 DEF q
<1>3. Grows(G)
  BY <1>1, <1>2 DEF Grows
<1>4. Path \subseteq G
  <2> HIDE DEF G
  <2> QED
    BY <1>3, Onwards
<1> QED
  BY <1>4

LEMMA RepeatsDoNotMatter ==
  ASSUME NEW s \in Nat \ {0}
  PROVE  \A pts \in Path : Repeatable(pts, s)
<1> DEFINE G == {pts \in Path : Repeatable(pts, s)}
<1>1. ASSUME NEW x \in Nat PROVE <<x>> \in G
  <2> DEFINE q == <<x>>
  <2>1. q \in Path /\ WithoutRepeats(q) = q
    BY OneSpot, KeptStarts
  <2> HIDE DEF q
  <2> QED
    BY <2>1 DEF Repeatable, q
<1>2. ASSUME NEW pts \in Path, NEW x \in Nat, pts \in G PROVE Append(pts, x) \in G
  <2> DEFINE q == Append(pts, x)
             w == WithoutRepeats(pts)
             last == pts[Len(pts)]
             len == IF x >= last THEN x - last ELSE last - x
             c == LastCarry(pts, s)
             t == PathLength(pts)
             a == Alongs(pts, s)
             b == Stretch(c, t, s, len)
  <2>1. /\ q \in Path /\ q[Len(q)] = x /\ len \in Nat /\ (len = 0 <=> last = x) /\ t \in Nat
        /\ LastCarry(q, s) = Overshoot(c, s, len) /\ PathLength(q) = t + len
        /\ Alongs(q, s) = a \o b
    BY OnePoint
  <2>2. WithoutRepeats(q) = IF last = x THEN w ELSE Append(w, x)
    BY KeptOnwards
  <2>3. /\ w \in Path /\ w[Len(w)] = last
        /\ PathLength(w) = t /\ LastCarry(w, s) = c /\ Alongs(w, s) = a
    BY <1>2 DEF Repeatable
  <2>4. a \in Seq(Nat)
    BY PathAdvances DEF Advancing
  <2>5. CASE last = x
    <3>1. WithoutRepeats(q) = w /\ len = 0
      BY <2>1, <2>2, <2>5
    <3>2. LastCarry(q, s) = c /\ PathLength(q) = t /\ b = <<>>
      <4> HIDE DEF q, c, t, len
      <4> QED
        BY <2>1, <3>1 DEF Overshoot, Stretch
    <3> HIDE DEF q, w, last, len, c, t, a, b
    <3>3. Alongs(q, s) = a
      BY <2>1, <2>4, <3>2
    <3> QED
      BY <2>1, <2>3, <2>5, <3>1, <3>2, <3>3 DEF Repeatable, q
  <2>6. CASE last # x
    <3> DEFINE v == Append(w, x)
    <3>1. WithoutRepeats(q) = v
      BY <2>2, <2>6
    <3> HIDE DEF w, q, last
    <3>2. /\ v \in Path /\ v[Len(v)] = x
          /\ LastCarry(v, s) = Overshoot(LastCarry(w, s), s, len)
          /\ PathLength(v) = PathLength(w) + len
          /\ Alongs(v, s) = Alongs(w, s) \o Stretch(LastCarry(w, s), PathLength(w), s, len)
      BY <2>3, OnePoint
    <3> HIDE DEF v, len, c, t, a
    <3>3. LastCarry(v, s) = LastCarry(q, s) /\ PathLength(v) = PathLength(q)
      BY <2>1, <2>3, <3>2
    <3>4. Alongs(v, s) = Alongs(q, s)
      BY <2>1, <2>3, <3>2
    <3> QED
      BY <2>1, <3>1, <3>2, <3>3, <3>4 DEF Repeatable, q
  <2> QED
    BY <2>5, <2>6
<1>3. Grows(G)
  BY <1>1, <1>2 DEF Grows
<1>4. Path \subseteq G
  <2> HIDE DEF G
  <2> QED
    BY <1>3, Onwards
<1> QED
  BY <1>4

\* A single segment is evenly filled from its start.
LEMMA OneSegmentIsEven ==
  ASSUME NEW s \in Nat \ {0}, NEW pts \in Seq(Nat), Len(pts) = 2
  PROVE  /\ \A k \in 1 .. Len(Alongs(pts, s)) : Alongs(pts, s)[k] = (k - 1) * s
         /\ Len(Alongs(pts, s)) * s >= PathLength(pts)
<1> DEFINE x == pts[1]
           y == pts[2]
           one == <<x>>
           two == Append(one, y)
           len == IF y >= x THEN y - x ELSE x - y
           stretch == Stretch(0, 0, s, len)
<1>1. x \in Nat /\ y \in Nat /\ pts = <<x, y>>
  OBVIOUS
<1>2. pts = two
  BY <1>1
<1>3. one \in Path /\ one[Len(one)] = x
      /\ PathLength(one) = 0 /\ LastCarry(one, s) = 0 /\ Alongs(one, s) = <<>>
  <2> HIDE DEF x
  <2> QED
    BY <1>1, OneSpot
<1> HIDE DEF one, x, y
<1>4. /\ len \in Nat /\ PathLength(two) = PathLength(one) + len
      /\ Alongs(two, s) = Alongs(one, s) \o Stretch(LastCarry(one, s), PathLength(one), s, len)
  BY <1>1, <1>3, OnePoint
<1> HIDE DEF two, len
<1>5. stretch \in Seq(Nat)
  <2>1. 0 \in 0 .. s - 1 /\ 0 \in Nat
    OBVIOUS
  <2> QED
    BY <1>4, <2>1, StretchSound
<1>6. /\ \A k \in 1 .. Len(stretch) : stretch[k] = (k - 1) * s
      /\ Len(stretch) * s >= len
  BY <1>4, StretchFromStart
<1> HIDE DEF stretch
<1>7. Alongs(two, s) = <<>> \o stretch /\ PathLength(two) = len
  BY <1>3, <1>4 DEF stretch
<1>8. Alongs(two, s) = stretch
  BY <1>5, <1>7
<1> QED
  BY <1>2, <1>6, <1>7, <1>8

\* The property for one path and one spacing.
LEMMA WalkFollowsPath ==
  ASSUME NEW s \in Nat \ {0}, NEW pts \in Path
  PROVE  LET along == Alongs(pts, s)
             total == PathLength(pts)
             distinct == WithoutRepeats(pts)
         IN /\ \A k \in DOMAIN along : along[k] < total /\ (k > 1 => along[k] > along[k - 1])
            /\ total > 0 => along # <<>> /\ along[1] = 0
            /\ Len(distinct) = 2 =>
                 /\ \A k \in DOMAIN along : along[k] = (k - 1) * s
                 /\ Len(along) * s >= total
            /\ along = Alongs(distinct, s)
<1> DEFINE along == Alongs(pts, s)
           total == PathLength(pts)
           distinct == WithoutRepeats(pts)
<1>1. Advancing(pts, s) /\ Beginning(pts, s) /\ Repeatable(pts, s)
  BY PathAdvances, RepeatsDoNotMatter
<1>2. along \in Seq(Nat) /\ DOMAIN along = 1 .. Len(along)
  BY <1>1 DEF Advancing
<1>3. \A k \in DOMAIN along : along[k] < total /\ (k > 1 => along[k] > along[k - 1])
  BY <1>1, <1>2 DEF Advancing
<1>4. total > 0 => Len(along) >= 1 /\ along[1] = 0
  BY <1>1 DEF Beginning
<1>5. /\ distinct \in Seq(Nat) /\ PathLength(distinct) = total
      /\ Alongs(distinct, s) = along
  BY <1>1 DEF Repeatable, Path
<1> HIDE DEF along, total, distinct
<1>6. ASSUME Len(distinct) = 2
      PROVE  /\ \A k \in DOMAIN along : along[k] = (k - 1) * s
             /\ Len(along) * s >= total
  <2>1. /\ \A k \in 1 .. Len(Alongs(distinct, s)) : Alongs(distinct, s)[k] = (k - 1) * s
        /\ Len(Alongs(distinct, s)) * s >= PathLength(distinct)
    BY <1>5, <1>6, OneSegmentIsEven
  <2> QED
    BY <1>2, <1>5, <2>1
<1>7. Len(along) >= 1 => along # <<>>
  BY <1>2
<1> QED
  BY <1>3, <1>4, <1>5, <1>6, <1>7 DEF along, total, distinct

\* The walk follows the path, whatever points were clicked and whatever the
\* spacing is: it never places past the end nor twice on a spot, starts at the
\* start, and a double click changes nothing.
THEOREM RowFollowsPath == Spec => []LineWalksThePath
<1>1. TypeOK => LineWalksThePath
  <2> SUFFICES ASSUME TypeOK, mode = "Line", Len(points) >= 2 PROVE LineWalksThePath
    BY DEF LineWalksThePath
  <2>1. points \in Path
    BY DEF TypeOK, Path
  <2>2. settings.spacing \in Nat \ {0}
    BY SettingsAssumption DEF TypeOK, SettingsValues
  <2> QED
    BY <2>1, <2>2, WalkFollowsPath DEF LineWalksThePath
<1> QED
  BY <1>1, SketchTypeCorrect, PTL

-----------------------------------------------------------------------------
(* What Enter places is how the preview begins.                             *)

LEMMA PrefixIf ==
  ASSUME NEW S, NEW f \in Seq(S), NEW g \in Seq(S), Len(f) <= Len(g),
         \A k \in 1 .. Len(f) : f[k] = g[k]
  PROVE  IsPrefix(f, g)
<1>1. SubSeq(f, 1, Len(f)) \in Seq(S) /\ Len(SubSeq(f, 1, Len(f))) = Len(f)
      /\ \A k \in 1 .. Len(f) : SubSeq(f, 1, Len(f))[k] = f[k]
  OBVIOUS
<1>2. SubSeq(g, 1, Len(f)) \in Seq(S) /\ Len(SubSeq(g, 1, Len(f))) = Len(f)
      /\ \A k \in 1 .. Len(f) : SubSeq(g, 1, Len(f))[k] = g[k]
  OBVIOUS
<1>3. SubSeq(f, 1, Len(f)) = SubSeq(g, 1, Len(f))
  BY <1>1, <1>2, SameSequence
<1> QED
  BY <1>3 DEF IsPrefix

\* The batch of a path, as far as the limit lets it go.
Batched(st) == {Finished(p.at, st) : p \in Placed}
Fewest(m, n) == IF m > n THEN n ELSE m

LEMMA BatchIs ==
  ASSUME NEW pts \in Path, NEW st, st.spacing \in Nat \ {0}, NEW limit \in Nat
  PROVE  /\ LineBatch(pts, st, limit) \in Seq(Batched(st))
         /\ Len(LineBatch(pts, st, limit)) = Fewest(Len(Walk(pts, st.spacing)), limit)
         /\ \A k \in 1 .. Len(LineBatch(pts, st, limit)) :
              LineBatch(pts, st, limit)[k] = Finished(Walk(pts, st.spacing)[k].at, st)
<1> DEFINE row == Walk(pts, st.spacing)
           m == Fewest(Len(row), limit)
           cut == SubSeq(row, 1, m)
           batch == LineBatch(pts, st, limit)
<1>1. row \in Seq(Placed)
  BY WalkIsSound DEF WalkSound
<1>2. batch = [k \in DOMAIN cut |-> Finished(cut[k].at, st)]
  BY DEF LineBatch, LinePlacements, Fewest
<1> HIDE DEF row, batch
<1>3. m \in Nat /\ m <= Len(row)
  BY <1>1 DEF Fewest
<1> HIDE DEF m
<1>4. /\ cut \in Seq(Placed) /\ Len(cut) = m /\ DOMAIN cut = 1 .. m
      /\ \A k \in 1 .. m : cut[k] = row[k]
  BY <1>1, <1>3
<1>5. \A k \in 1 .. m : cut[k] \in Placed
  BY <1>4
<1> HIDE DEF cut
<1>6. batch = [k \in 1 .. m |-> Finished(cut[k].at, st)]
  BY <1>2, <1>4
<1>7. batch \in [1 .. m -> Batched(st)]
  BY <1>5, <1>6 DEF Batched
<1>8. batch \in Seq(Batched(st)) /\ Len(batch) = m
  BY <1>3, <1>7, FunctionIsSequence
<1>9. \A k \in 1 .. m : batch[k] = Finished(row[k].at, st)
  BY <1>4, <1>6
<1> QED
  BY <1>8, <1>9 DEF batch, m, row

LEMMA BatchGoesOn ==
  ASSUME NEW pts \in Path, NEW x \in Nat, NEW st, st.spacing \in Nat \ {0}, NEW limit \in Nat
  PROVE  IsPrefix(LineBatch(pts, st, limit), LineBatch(Append(pts, x), st, limit))
<1> DEFINE q == Append(pts, x)
           row == Walk(pts, st.spacing)
           on == Walk(q, st.spacing)
           c == LastCarry(pts, st.spacing)
           seg == OnSegment(q, st.spacing, c, Len(pts))
           f == LineBatch(pts, st, limit)
           g == LineBatch(q, st, limit)
<1>1. /\ q \in Path /\ q \in Seq(Nat) /\ Len(pts) \in 1 .. Len(q) - 1
      /\ pts \in Seq(Nat) /\ pts # <<>>
  BY DEF Path
<1>2. on = row \o seg
  BY <1>1, WalkOnwards
<1>3. row \in Seq(Placed) /\ c \in 0 .. st.spacing - 1
  BY WalkIsSound DEF WalkSound
<1>4. seg \in Seq(Placed)
  <2> HIDE DEF q, c
  <2> QED
    BY <1>1, <1>3, SegmentSound
<1>5. /\ f \in Seq(Batched(st)) /\ Len(f) = Fewest(Len(row), limit)
      /\ \A k \in 1 .. Len(f) : f[k] = Finished(row[k].at, st)
  BY BatchIs
<1> HIDE DEF q
<1>6. /\ g \in Seq(Batched(st)) /\ Len(g) = Fewest(Len(on), limit)
      /\ \A k \in 1 .. Len(g) : g[k] = Finished(on[k].at, st)
  BY <1>1, BatchIs
<1> HIDE DEF row, on, seg, f, g
<1>7. /\ Len(on) = Len(row) + Len(seg) /\ Len(row) \in Nat /\ Len(seg) \in Nat
      /\ \A k \in 1 .. Len(row) : on[k] = row[k]
  BY <1>2, <1>3, <1>4, JoinedIs
<1>8. Len(f) <= Len(g) /\ Len(f) <= Len(row) /\ Len(f) \in Nat /\ Len(g) \in Nat
  BY <1>5, <1>6, <1>7 DEF Fewest
<1>9. ASSUME NEW k \in 1 .. Len(f) PROVE f[k] = g[k]
  <2>1. k \in 1 .. Len(row) /\ k \in 1 .. Len(g)
    BY <1>7, <1>8
  <2> QED
    BY <1>5, <1>6, <1>7, <2>1
<1>10. IsPrefix(f, g)
  BY <1>5, <1>6, <1>8, <1>9, PrefixIf
<1> QED
  BY <1>10 DEF f, g, q

\* While a line is on screen, it is that of the present points, cursor and
\* settings: every handler ends with the overlay rebuilt.
LineIsCurrent == Shows /\ mode = "Line" => shown = [row |-> LinePreview, fill |-> NoFill]

LEMMA RebuiltLine ==
  ASSUME NEW c, NEW d, Rebuild(c, d)
  PROVE  LineIsCurrent'
BY DEF Rebuild, LineIsCurrent

LEMMA ClearedLine ==
  ASSUME ClearSketch
  PROVE  LineIsCurrent'
<1>1. points' = <<>> /\ cursor' = NoCursor /\ shown' = Nothing
  BY DEF ClearSketch
<1>2. LinePreview' = <<>>
  <2>1. PreviewPoints' = <<>> /\ UnderCursor' = <<>> /\ ~(Len(PreviewPoints') >= 2)
    BY <1>1 DEF PreviewPoints, UnderCursor
  <2> QED
    BY <2>1 DEF LinePreview
<1> QED
  BY <1>1, <1>2 DEF LineIsCurrent, Nothing

THEOREM LineStaysCurrent == Spec => []LineIsCurrent
<1>1. Init => LineIsCurrent
  BY DEF Init, LineIsCurrent
<1>2. LineIsCurrent /\ [Next]_vars => LineIsCurrent'
  <2> SUFFICES ASSUME LineIsCurrent, [Next]_vars PROVE LineIsCurrent'
    OBVIOUS
  <2>1. CASE Click \/ Move \/ RemovePoint \/ Rotate \/ Tune \/ Raise \/ ToggleSnap \/ StepGrid
             \/ CyclePreviewMode
    BY <2>1, RebuiltLine
       DEF Click, Move, RemovePoint, Rotate, Tune, Raise, ToggleSnap, StepGrid,
           CyclePreviewMode, Sync, SyncPolygonChanged
  <2>2. CASE Start
    BY <2>2, RebuiltLine DEF Start
  <2>3. CASE EnterOrEsc \/ Leave
    BY <2>3, ClearedLine DEF EnterOrEsc, Leave
  <2>4. CASE UNCHANGED vars
    <3>1. Shows' = Shows /\ mode' = mode /\ shown' = shown /\ LinePreview' = LinePreview
      BY <2>4 DEF vars, Shows, LinePreview, PreviewPoints, UnderCursor
    <3> QED
      BY <3>1 DEF LineIsCurrent
  <2> QED
    BY <2>1, <2>2, <2>3, <2>4 DEF Next
<1> QED
  BY <1>1, <1>2, PTL DEF Spec

\* Enter places what was shown: for every sketch and every limit of the preview,
\* the batch is the beginning of the row on screen, placement by placement.
THEOREM EnterPlacesTheRow == Spec => []EnterPlacesWhatIsShown
<1>1. TypeOK /\ LineIsCurrent => EnterPlacesWhatIsShown
  <2> SUFFICES ASSUME TypeOK, LineIsCurrent, Shows, mode = "Line", Len(points) >= 2
               PROVE  IsPrefix(LineBatch(points, settings, MaxPreview), shown.row)
    BY DEF EnterPlacesWhatIsShown
  <2>1. points \in Path /\ cursor \in Nat \cup {NoCursor}
    BY DEF TypeOK, Path
  <2>2. settings.spacing \in Nat \ {0} /\ MaxPreview \in Nat
    BY SettingsAssumption, LimitsAssumption DEF TypeOK, SettingsValues
  <2>3. shown.row = LinePreview
    BY DEF LineIsCurrent
  <2>4. CASE cursor = NoCursor
    <3>1. LinePreview = LineBatch(points, settings, MaxPreview)
      BY <2>4 DEF LinePreview, PreviewPoints
    <3> DEFINE f == LineBatch(points, settings, MaxPreview)
    <3>2. f \in Seq(Batched(settings))
      BY <2>1, <2>2, BatchIs
    <3> HIDE DEF f
    <3>3. IsPrefix(f, f)
      BY <3>2, PrefixIf
    <3> QED
      BY <2>3, <3>1, <3>3 DEF f
  <2>5. CASE cursor # NoCursor
    <3>1. cursor \in Nat /\ PreviewPoints = Append(points, cursor)
      BY <2>1, <2>5 DEF PreviewPoints
    <3>2. Len(Append(points, cursor)) >= 2
      BY <2>1, <3>1 DEF Path
    <3>3. LinePreview = LineBatch(Append(points, cursor), settings, MaxPreview)
      BY <3>1, <3>2 DEF LinePreview
    <3>4. IsPrefix(LineBatch(points, settings, MaxPreview),
                   LineBatch(Append(points, cursor), settings, MaxPreview))
      BY <2>1, <2>2, <3>1, BatchGoesOn
    <3> QED
      BY <2>3, <3>3, <3>4
  <2> QED
    BY <2>4, <2>5
<1> QED
  BY <1>1, SketchTypeCorrect, LineStaysCurrent, PTL
=============================================================================
