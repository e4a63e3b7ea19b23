---------------------------- MODULE ScenePicker ----------------------------
(***************************************************************************)
(* The scene picker: ScenePickerInputControl with its four strategies       *)
(* (prop, flora, decal and lot), the game objects it lights up while the    *)
(* cursor is over them, the stack of decals and lot textures the wheel goes *)
(* through, and the thumbnail the status panel shows.  The world is a grid  *)
(* of points; a cell has CellSize points on a side.                         *)
(***************************************************************************)
EXTENDS Integers, Sequences, FiniteSets, Functions, Ordered

CONSTANTS
  Points,       \* positions [x, z] the cursor can have
  NoPoint,      \* the cursor is not over the terrain
  PropList,     \* the props in the order the game lists them: [id, source, at, days]
  FloraList,    \* the flora in that order: [id, at]
  DecalList,    \* the terrain decals: [id, at, mode]
  Lots,         \* lots: [minX, minZ, maxX, maxZ, facing, objects], in cells
  Days,         \* days of the simulator's year
  CheckBoxes,   \* bound: the combinations of prop sources that get checked
  CellSize, Radius, DecalRadius,
  MaxOffset,    \* bound: cycleOffset_
  MaxRemoved,   \* bound: things that are removed from the city
  NoResult      \* an empty optional

Things == Range(PropList) \cup Range(FloraList) \cup Range(DecalList)
Textures == UNION {{[lot |-> l, object |-> i] : i \in DOMAIN l.objects} : l \in Lots}
Modes == {"prop", "flora", "decal", "lot"}
Sources == <<"City", "Lot", "Street">>

\* The whole of the map, and the rectangles on it.
Plane == [x : Int, z : Int]
Rects == [minX : Int, maxX : Int, minZ : Int, maxZ : Int]

\* The textures on a lot: bases and overlays.
Pieces == [id : Nat, base : BOOLEAN, rect : Rects]

\* What the constants are; a cell belongs to one lot at most, and the things, the
\* textures and the lots are different from each other.
PickerAssumption ==
  /\ Points \subseteq Plane /\ NoPoint \notin Points
  /\ PropList \in Seq([id : Nat, source : Range(Sources), at : Plane, days : SUBSET Days])
  /\ FloraList \in Seq([id : Nat, at : Plane])
  /\ DecalList \in Seq([id : Nat, at : Plane, mode : Nat])
  /\ IsFiniteSet(Lots)
  /\ Lots \subseteq [minX : Int, maxX : Int, minZ : Int, maxZ : Int, facing : Nat, objects : Seq(Pieces)]
  /\ \A l, m \in Lots :
       l # m => \/ l.maxX < m.minX \/ m.maxX < l.minX \/ l.maxZ < m.minZ \/ m.maxZ < l.minZ
  /\ Things \cap Textures = {} /\ Things \cap Lots = {} /\ Textures \cap Lots = {}
  /\ NoResult \notin Things \cup Textures \cup Lots
  /\ CheckBoxes \subseteq SUBSET Range(Sources) \ {{}}
  /\ CellSize \in Nat \ {0} /\ Radius \in Nat /\ DecalRadius \in Nat /\ MaxOffset \in Nat
  /\ MaxRemoved \in Nat

VARIABLES
  inCity,      \* city_ is set
  present,     \* the things that are still in the city
  day,         \* the simulator's day
  lit,         \* the props and flora that are highlighted
  drawn,       \* the draw mode of the decals
  mode,        \* the mode of strategy_, or "none"
  sources,     \* sourceFlags_ of the prop strategy
  active,      \* active_
  cursor,      \* currentCursorWorld_ when cursorValid_
  hovered,     \* hoveredResult_
  mark,        \* hoveredOccupant_ or hoveredDecalId_ of the strategy
  original,    \* hoveredOriginalDrawMode_
  offset,      \* cycleOffset_
  keys,        \* lastCandidateKeys_
  count,       \* candidateCount_ of the decal strategy
  overlay,     \* what the overlay shows: the circle at the cursor, the outlines
  picked, pickWaits, cancelWaits,   \* pickedResult_, pickPending_, cancelPending_
  fresh        \* ghost: the scene is as it was when the hover was found

world == <<inCity, present, day>>
marks == <<lit, drawn, mark, original>>
cycle == <<offset, keys, count>>
waiting == <<picked, pickWaits, cancelWaits>>
pickerVars == <<world, marks, cycle, waiting, mode, sources, active, cursor, hovered, overlay, fresh>>

-----------------------------------------------------------------------------
(* The props and the flora within reach.                                    *)

CellOf(p) == <<p.x \div CellSize, p.z \div CellSize>>

DistSq(p, q) == (p.x - q.x) * (p.x - q.x) + (p.z - q.z) * (p.z - q.z)

\* GetCityProps takes a square around the cursor, GetLotProps and
\* GetStreetProps the cursor's cell.
Collected(p, c) ==
  IF p.source = "City"
  THEN {p.at.x - c.x, c.x - p.at.x, p.at.z - c.z, c.z - p.at.z} \subseteq (-Radius)..Radius
  ELSE CellOf(p.at) = CellOf(c)

\* A prop with dates is seen on its days only.
InSeason(p) == day \in p.days

\* The candidates of the checked sources, City first, then Lot, then Street,
\* without those that are invisible.
PropCandidates(c) ==
  LET from(s) == Picked(PropList, {i \in DOMAIN PropList :
        /\ PropList[i].source = s /\ s \in sources
        /\ PropList[i] \in present /\ Collected(PropList[i], c) /\ InSeason(PropList[i])})
  IN from("City") \o from("Lot") \o from("Street")

FloraCandidates == Picked(FloraList, {i \in DOMAIN FloraList : FloraList[i] \in present})

\* The first of the candidates that is nearest, when it is within the radius.
Nearest(candidates, c) ==
  LET dist(i) == DistSq(candidates[i].at, c)
      best == {i \in DOMAIN candidates :
                 /\ dist(i) <= Radius * Radius
                 /\ \A j \in DOMAIN candidates :
                      dist(i) < dist(j) \/ (dist(i) = dist(j) /\ i <= j)}
  IN IF best = {} THEN NoResult ELSE candidates[CHOOSE i \in best : TRUE]

-----------------------------------------------------------------------------
(* The lot under the cursor and its textures.                               *)

LotsAt(c) ==
  {l \in Lots : /\ CellOf(c)[1] \in l.minX..l.maxX
                /\ CellOf(c)[2] \in l.minZ..l.maxZ}

\* GetLotFrame: the lot's corner, its size and its facing turned by half.
Frame(l) ==
  [x |-> l.minX * CellSize, z |-> l.minZ * CellSize,
   w |-> (l.maxX - l.minX + 1) * CellSize, d |-> (l.maxZ - l.minZ + 1) * CellSize,
   facing |-> (l.facing + 2) % 4]

FaultyWorldToLotLocal(f, c) ==       \* the quarter turns the other way round
  LET dx == c.x - f.x  dz == c.z - f.z IN
  CASE f.facing = 0 -> [x |-> dx, z |-> dz]
    [] f.facing = 1 -> [x |-> f.d - dz, z |-> dx]
    [] f.facing = 2 -> [x |-> f.w - dx, z |-> f.d - dz]
    [] f.facing = 3 -> [x |-> dz, z |-> f.w - dx]

\* From the world to the lot configuration; the caller has checked that the
\* point is on the lot.
WorldToLotLocal(f, c) ==
  LET dx == c.x - f.x  dz == c.z - f.z IN
  CASE f.facing = 0 -> [x |-> dx, z |-> dz]
    [] f.facing = 1 -> [x |-> dz, z |-> f.w - dx]
    [] f.facing = 2 -> [x |-> f.w - dx, z |-> f.d - dz]
    [] f.facing = 3 -> [x |-> f.d - dz, z |-> dx]

\* And back.
LotLocalToWorld(f, p) ==
  LET dx == CASE f.facing = 0 -> p.x
              [] f.facing = 1 -> f.w - p.z
              [] f.facing = 2 -> f.w - p.x
              [] f.facing = 3 -> p.z
      dz == CASE f.facing = 0 -> p.z
              [] f.facing = 1 -> p.x
              [] f.facing = 2 -> f.d - p.z
              [] f.facing = 3 -> f.d - p.x
  IN [x |-> f.x + dx, z |-> f.z + dz]

Within(p, r) == p.x \in r.minX..r.maxX /\ p.z \in r.minZ..r.maxZ

\* The world rectangle with the two points as corners.
Spanning(p, q) ==
  LET lower(a, b) == IF a <= b THEN a ELSE b
      upper(a, b) == IF a <= b THEN b ELSE a
  IN [minX |-> lower(p.x, q.x), maxX |-> upper(p.x, q.x),
      minZ |-> lower(p.z, q.z), maxZ |-> upper(p.z, q.z)]

\* The footprint that is outlined for a texture, and for a lot.
TextureOutline(t) ==
  LET f == Frame(t.lot)  o == t.lot.objects[t.object].rect IN
  Spanning(LotLocalToWorld(f, [x |-> o.minX, z |-> o.minZ]),
           LotLocalToWorld(f, [x |-> o.maxX, z |-> o.maxZ]))

LotOutline(l) ==
  [minX |-> l.minX * CellSize, maxX |-> (l.maxX + 1) * CellSize,
   minZ |-> l.minZ * CellSize, maxZ |-> (l.maxZ + 1) * CellSize]

Area(t) ==
  LET r == t.lot.objects[t.object].rect IN (r.maxX - r.minX) * (r.maxZ - r.minZ)

IsBase(t) == t.lot.objects[t.object].base

\* Overlays before bases, the smaller first, and of two as small the later.
DrawnOver(s, t) ==
  IF IsBase(s) # IsBase(t) THEN IsBase(t)
  ELSE IF Area(s) # Area(t) THEN Area(s) < Area(t)
  ELSE s.object > t.object

\* AppendLotTextureCandidates_: those around the cursor, in that order.
TexturesAt(c) ==
  {t \in Textures :
     /\ t.lot \in LotsAt(c)
     /\ Within(WorldToLotLocal(Frame(t.lot), c), t.lot.objects[t.object].rect)}
TextureCandidates(c) ==
  Sorted(TexturesAt(c), {p \in TexturesAt(c) \X TexturesAt(c) : DrawnOver(p[1], p[2])})

\* AppendDecalCandidates_: by distance, within the radius; of two as near, which
\* std::sort leaves open, the first.
DecalCandidates(c) ==
  LET dist(i) == DistSq(DecalList[i].at, c)
      near == {i \in DOMAIN DecalList :
                 DecalList[i] \in present /\ dist(i) < DecalRadius * DecalRadius}
      order == Sorted(near, {p \in near \X near : \/ dist(p[1]) < dist(p[2])
                                                  \/ dist(p[1]) = dist(p[2]) /\ p[1] < p[2]})
  IN [k \in 1 .. Cardinality(near) |-> DecalList[order[k]]]

Stack(c) == DecalCandidates(c) \o TextureCandidates(c)

\* The key of a candidate: the decal's id, or the number of the texture's
\* object in its lot.
KeyOf(t) == IF t \in Textures THEN <<"object", t.lot.objects[t.object].id>> ELSE <<"decal", t.id>>

-----------------------------------------------------------------------------
(* Picking and the hover.                                                   *)

CandidateIndex(n, k) == (k % n) + 1

\* What strategy_->Pick returns at c with the cycle at k.
PickAt(c, k) ==
  CASE mode = "prop" -> Nearest(PropCandidates(c), c)
    [] mode = "flora" -> Nearest(FloraCandidates, c)
    [] mode = "lot" -> IF LotsAt(c) = {} THEN NoResult ELSE CHOOSE l \in LotsAt(c) : TRUE
    [] mode = "decal" -> IF Stack(c) = <<>> THEN NoResult
                         ELSE Stack(c)[CandidateIndex(Len(Stack(c)), k)]

KeysAt(c) == {KeyOf(t) : t \in Range(Stack(c))}

\* The cycle starts over when the keys of the stack change.
OffsetAt(c, k) == IF mode # "decal" \/ KeysAt(c) = keys THEN k ELSE 0

\* The decal strategy's bookkeeping of a search at c with the cycle at k.
Searched(c, k) ==
  /\ offset' = OffsetAt(c, k)
  /\ IF mode = "decal" THEN keys' = KeysAt(c) /\ count' = Len(Stack(c))
     ELSE UNCHANGED <<keys, count>>

Occupants == Range(PropList) \cup Range(FloraList)
Decals == Range(DecalList)

\* The occupant that was lit goes dark, the new one lights up.
LitFor(new) == (lit \ {mark}) \cup ({new} \cap Occupants)

FaultyRestored == drawn      \* the decal that was marked keeps the mark

\* The decal that was marked gets its own draw mode back, when it still exists.
Restored == [d \in Decals |-> IF d = mark /\ d \in present THEN original ELSE drawn[d]]

\* SetHover and ClearHover of the strategies.
Marked(new) ==
  IF new = mark THEN UNCHANGED marks
  ELSE /\ mark' = new
       /\ lit' = LitFor(new)
       /\ drawn' = [d \in Decals |-> IF d = new THEN 1 ELSE Restored[d]]
       /\ original' = IF new \in Decals THEN Restored[new] ELSE 0

\* Only things that exist on their own are marked, lots and textures are not.
MarkOf(result) == IF result \in Things THEN result ELSE NoResult

\* ClearHover_
HoverCleared == hovered' = NoResult /\ Marked(NoResult)

\* RefreshHover_ with the cursor at c and the cycle at k.
HoverRefreshed(c, k) ==
  IF c = NoPoint THEN HoverCleared /\ offset' = k /\ UNCHANGED <<keys, count, fresh>>
  ELSE LET found == PickAt(c, OffsetAt(c, k)) IN
       /\ hovered' = found /\ Marked(MarkOf(found))
       /\ Searched(c, k)
       /\ fresh' = TRUE

\* BuildOverlay_: a circle at the cursor, and the outline of a texture or a lot.
OutlinesOf(result) ==
  CASE result \in Textures -> {TextureOutline(result)}
    [] result \in Lots -> {LotOutline(result)}
    [] OTHER -> {}

NoOverlay == [circle |-> FALSE, outlines |-> {}]

OverlayBuilt(c) ==
  overlay' = IF c = NoPoint THEN NoOverlay ELSE [circle |-> TRUE, outlines |-> OutlinesOf(hovered')]

-----------------------------------------------------------------------------
(* Input.                                                                  *)

\* OnMouseMove: the terrain may be missed.
MouseMove ==
  /\ active
  /\ \E c \in Points \cup {NoPoint} :
       /\ cursor' = c
       /\ HoverRefreshed(c, offset)
       /\ OverlayBuilt(c)
  /\ UNCHANGED <<world, waiting, mode, sources, active>>

\* Alt and the wheel: one further in the stack, either way, when the last
\* search found more than one.
MouseWheel ==
  /\ active /\ mode = "decal" /\ count > 1
  /\ \E d \in {-1, 1}, c \in {cursor, NoPoint} :
       /\ offset + d \in (-MaxOffset)..MaxOffset
       /\ cursor' = c
       /\ HoverRefreshed(c, offset + d)
       /\ OverlayBuilt(c)
  /\ UNCHANGED <<world, waiting, mode, sources, active>>

FaultyClick ==               \* what the wheel has chosen is forgotten
  /\ active /\ cursor # NoPoint
  /\ LET found == PickAt(cursor, 0) IN
       IF found = NoResult
       THEN HoverRefreshed(cursor, 0) /\ UNCHANGED <<picked, pickWaits>>
       ELSE /\ Searched(cursor, 0)
            /\ picked' = found /\ pickWaits' = TRUE
            /\ HoverCleared /\ UNCHANGED fresh
  /\ UNCHANGED <<world, cancelWaits, mode, sources, active, cursor, overlay>>

\* OnMouseDownL: the hover is found again, at the cursor's last position.
Click ==
  /\ active /\ cursor # NoPoint
  /\ LET found == PickAt(cursor, OffsetAt(cursor, offset)) IN
       IF found = NoResult
       THEN HoverRefreshed(cursor, offset) /\ UNCHANGED <<picked, pickWaits>>
       ELSE /\ Searched(cursor, offset)
            /\ picked' = found /\ pickWaits' = TRUE
            /\ HoverCleared /\ UNCHANGED fresh
  /\ UNCHANGED <<world, cancelWaits, mode, sources, active, cursor, overlay>>

\* OnMouseDownR
RightClick ==
  /\ active
  /\ HoverCleared
  /\ cancelWaits' = TRUE
  /\ UNCHANGED <<world, cycle, picked, pickWaits, mode, sources, active, cursor, overlay, fresh>>

\* OnKeyDown
Escape == RightClick

-----------------------------------------------------------------------------
(* Starting and stopping.                                                   *)

\* Deactivate, which View3D calls when it drops the control.
Deactivated ==
  /\ active' = FALSE /\ overlay' = NoOverlay
  /\ HoverCleared

\* SetStrategy: a new stack, and nothing is lit.
StrategySet(m) ==
  /\ mode' = m /\ offset' = 0 /\ keys' = {} /\ count' = 0
  /\ HoverCleared

\* StartScenePicking_: View3D drops the control that is on screen, the picker
\* itself too, and takes the picker, or it refuses.
StartScenePicking(m) ==
  /\ inCity
  /\ StrategySet(m)
  /\ \/ active' = TRUE /\ overlay' = NoOverlay
     \/ UNCHANGED <<active, overlay>>
  /\ UNCHANGED <<world, waiting, cursor, fresh>>

\* At least one source of props must be checked.
StartPropPicking == sources' \in CheckBoxes /\ StartScenePicking("prop")

StartFloraPicking == sources' = {} /\ StartScenePicking("flora")

StartDecalPicking == sources' = {} /\ StartScenePicking("decal")

StartLotPicking == sources' = {} /\ StartScenePicking("lot")

\* StopXPicking, another tool, and a control of the game.
StopPicking ==
  /\ active /\ Deactivated
  /\ UNCHANGED <<world, cycle, waiting, mode, sources, cursor, fresh>>

\* ProcessPendingActions: a pick goes first, and a cancel beside it waits for
\* the next tick.
PickerTick ==
  /\ pickWaits \/ cancelWaits
  /\ picked' = NoResult /\ pickWaits' = FALSE
  /\ cancelWaits' = (cancelWaits /\ pickWaits)
  /\ IF active THEN Deactivated ELSE UNCHANGED <<active, overlay, hovered, marks>>
  /\ UNCHANGED <<world, cycle, mode, sources, cursor, fresh>>

\* PreCityShutdown_: StopPropPicking and SetCity(nullptr).
PickerCityShutdown ==
  /\ inCity /\ inCity' = FALSE
  /\ Deactivated
  /\ UNCHANGED <<present, day, cycle, waiting, mode, sources, cursor, fresh>>

PickerCityInit ==
  /\ ~inCity /\ inCity' = TRUE
  /\ UNCHANGED <<present, day, marks, cycle, waiting, mode, sources, active, cursor, hovered,
                 overlay, fresh>>

\* PostAppShutdown destroys the control.
PickerAppShutdown ==
  /\ ~inCity
  /\ mode' = "none" /\ sources' = {}
  /\ offset' = 0 /\ keys' = {} /\ count' = 0 /\ cursor' = NoPoint
  /\ picked' = NoResult /\ pickWaits' = FALSE /\ cancelWaits' = FALSE
  /\ UNCHANGED <<world, marks, active, overlay, hovered, fresh>>

\* Something is bulldozed or its plugin removes it.
Removed ==
  /\ Cardinality(Things \ present) < MaxRemoved
  /\ \E t \in present : present' = present \ {t}
  /\ fresh' = FALSE
  /\ UNCHANGED <<inCity, day, marks, cycle, waiting, mode, sources, active, cursor, hovered, overlay>>

DayPasses ==
  /\ day' \in Days \ {day}
  /\ fresh' = FALSE
  /\ UNCHANGED <<inCity, present, marks, cycle, waiting, mode, sources, active, cursor, hovered, overlay>>

PickerInit ==
  /\ inCity = TRUE /\ present = Things /\ day \in Days
  /\ lit = {} /\ drawn = [d \in Decals |-> d.mode] /\ mark = NoResult /\ original = 0
  /\ mode = "none" /\ sources = {} /\ active = FALSE
  /\ cursor = NoPoint /\ hovered = NoResult
  /\ offset = 0 /\ keys = {} /\ count = 0 /\ overlay = NoOverlay
  /\ picked = NoResult /\ pickWaits = FALSE /\ cancelWaits = FALSE
  /\ fresh = TRUE

PickerNext ==
  \/ MouseMove \/ MouseWheel \/ Click \/ RightClick \/ Escape
  \/ StartPropPicking \/ StartFloraPicking \/ StartDecalPicking \/ StartLotPicking
  \/ StopPicking \/ PickerTick
  \/ PickerCityShutdown \/ PickerCityInit \/ PickerAppShutdown \/ Removed \/ DayPasses

PickerSpec == PickerInit /\ [][PickerNext]_pickerVars

-----------------------------------------------------------------------------
(* Properties.                                                             *)

\* Every variable has a value of its type.
PickerTypeOK ==
  /\ inCity \in BOOLEAN /\ present \subseteq Things /\ day \in Days
  /\ lit \subseteq Occupants /\ drawn \in [Decals -> Nat] /\ original \in Nat
  /\ mark \in Things \cup {NoResult}
  /\ hovered \in Things \cup Textures \cup Lots \cup {NoResult}
  /\ mode \in Modes \cup {"none"} /\ sources \in CheckBoxes \cup {{}} /\ active \in BOOLEAN
  /\ cursor \in Points \cup {NoPoint} /\ offset \in Int /\ count \in Nat
  /\ pickWaits \in BOOLEAN /\ cancelWaits \in BOOLEAN /\ fresh \in BOOLEAN
  /\ active => mode # "none" /\ inCity

\* The picker leaves the city as it found it: what it has lit or redrawn is the
\* thing under the cursor and nothing else, through strategy changes, cancels,
\* refused starts and things that vanish while they are lit; off the screen it
\* shows nothing at all.
PickerLeavesNoTrace ==
  /\ lit = {mark} \cap Occupants
  /\ \A d \in Decals \cap present : drawn[d] = IF d = mark THEN 1 ELSE d.mode
  /\ ~active => mark = NoResult /\ hovered = NoResult /\ overlay = NoOverlay

\* The outline on the map is around the cursor, however the lot is turned: the
\* texture was looked up in the lot's space and is outlined in the world's.
OutlineAtCursor ==
  \A r \in OutlinesOf(hovered) \cup overlay.outlines : Within(cursor, r)

\* A click searches again before it picks.  As long as nothing in the city has
\* changed it finds what was lit, at the depth the wheel had reached.
PicksWhatIsLit ==
  [][(picked' # NoResult /\ picked' # picked /\ hovered # NoResult /\ fresh)
       => picked' = hovered]_pickerVars

=============================================================================
