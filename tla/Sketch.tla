------------------------------- MODULE Sketch -------------------------------
(***************************************************************************)
(* The sketch of the paint tool in line and polygon mode: the clicked      *)
(* points, the settings the keys change, and the overlay that previews     *)
(* what Enter will place (BasePainterInputControl, PaintOverlay).          *)
(*                                                                         *)
(* The placements of a line are computed anew whenever the overlay is      *)
(* rebuilt.  Those of a polygon are costly and cached: a flag says that    *)
(* the cache is out of date, and each handler must remember to set it.     *)
(*                                                                         *)
(* Points lie on one axis and in terrain height mode.  A polygon's         *)
(* placements are determined by its vertices and the settings: the values  *)
(* they are computed from stand for them.                                  *)
(***************************************************************************)
EXTENDS LinePlacer, SequencesExt

CONSTANTS
  Spots,          \* coordinates the terrain pick can return
  NoCursor,       \* cursorValid_ is false
  NoFill,         \* no cached placements
  Spacings,       \* settings_.spacingMeters
  Densities,      \* settings_.densityPer100Sqm and densityVariation
  Lifts,          \* settings_.deltaYMeters
  Turns,          \* rotations, 4 in the code
  GridSteps,      \* kGridSteps, in increasing order
  StartSettings,  \* bound: settings a popup asks for; keys lead to others
  MaxPreview,     \* kMaxPreviewPlacements
  MaxPoints       \* bound: points of a sketch

\* snapPointsToGrid, and snapPlacementsToGrid, which never is set alone: the popups
\* clear it in every frame in which points do not snap, and so does Shift+S.
Snaps == {"None", "Points", "Placements"}

ASSUME SpotsAssumption == Spots \subseteq Nat /\ NoCursor \notin Nat
ASSUME SettingsAssumption ==
  /\ Spacings \subseteq Nat \ {0} /\ Lifts \subseteq Int /\ 0 \in Lifts
  /\ GridSteps \in Seq(Nat \ {0}) /\ GridSteps # <<>>
ASSUME LimitsAssumption == Turns \in Nat \ {0} /\ MaxPreview \in Nat /\ MaxPoints \in Nat

VARIABLES
  mode,           \* state_: ActiveLine, ActivePolygon, or Off for any other
  points,         \* collectedPoints_
  cursor,         \* currentCursorWorld_, NoCursor while not cursorValid_
  settings,       \* settings_
  hidden,         \* settings_.previewMode is Hidden
  cache,          \* cachedPolygonPlacements_
  dirty,          \* polygonPreviewDirty_
  shown           \* what overlay_ shows: a row of placements, a filled polygon

vars == <<mode, points, cursor, settings, hidden, cache, dirty, shown>>

SettingsValues ==
  [spacing : Spacings, density : Densities, rotation : 0 .. Turns - 1, lift : Lifts,
   snap : Snaps, grid : DOMAIN GridSteps]

ASSUME StartAssumption == StartSettings \subseteq SettingsValues

Nothing == [row |-> <<>>, fill |-> NoFill]

-----------------------------------------------------------------------------
(* From points to placements.                                              *)

\* SnapCoordinate: the nearest multiple, halves away from zero.
Snapped(x, step) == ((2 * x + step) \div (2 * step)) * step

\* UpdateCursorWorldFromScreen_: the pick hits a spot, or misses all and leaves
\* a cursor that was valid.
Pointed(st) ==
  (IF st.snap = "None" THEN Spots ELSE {Snapped(x, GridSteps[st.grid]) : x \in Spots})
  \cup ({cursor} \ {NoCursor})

\* What every planned placement goes through: it is raised, then snapped.
\* Snapping takes the terrain's height: the raise is lost (SnapWorldToGrid_).
OnGrid(st) == st.snap = "Placements"
Height(st) == IF OnGrid(st) THEN 0 ELSE st.lift
Grid(st)   == IF OnGrid(st) THEN GridSteps[st.grid] ELSE 1
Finished(x, st) ==
  [at |-> Snapped(x, Grid(st)), height |-> Height(st), rotation |-> st.rotation]

\* ExecuteLinePlacement_ and ExecutePolygonPlacement_: what Enter places.
LineBatch(pts, st, limit) ==
  LET row == LinePlacements(pts, st.spacing, limit)
  IN [k \in DOMAIN row |-> Finished(row[k].at, st)]
PolygonBatch(pts, st) ==
  [vertices |-> pts, density |-> st.density, rotation |-> st.rotation,
   height |-> Height(st), grid |-> Grid(st)]

-----------------------------------------------------------------------------
(* The overlay.                                                            *)

\* ShouldShowOutlinePreview_
Shows == mode # "Off" /\ ~hidden

\* A placement under the cursor, before the first click: not snapped.
UnderCursor ==
  IF points = <<>> /\ cursor # NoCursor
  THEN <<[at |-> cursor, height |-> settings.lift, rotation |-> settings.rotation]>>
  ELSE <<>>
PreviewPoints == IF cursor = NoCursor THEN points ELSE Append(points, cursor)
LinePreview ==
  IF Len(PreviewPoints) >= 2 THEN LineBatch(PreviewPoints, settings, MaxPreview) ELSE UnderCursor

\* RebuildPreviewOverlay_, after a handler that left the cache c and flag d.
\* With fewer than three vertices the cache is shown as it is.
Rebuild(c, d) ==
  \/ /\ ~Shows'
     /\ shown' = Nothing
     /\ cache' = c /\ dirty' = d
  \/ /\ Shows' /\ mode' = "Line"
     /\ shown' = [row |-> LinePreview', fill |-> NoFill]
     /\ cache' = c /\ dirty' = d
  \/ /\ Shows' /\ mode' = "Polygon"
     /\ IF Len(points') >= 3 /\ d
        THEN cache' = PolygonBatch(points', settings') /\ dirty' = FALSE
        ELSE cache' = c /\ dirty' = d
     /\ shown' = [row |-> UnderCursor', fill |-> cache']

FaultyClearSketch ==         \* the cache stays
  /\ points' = <<>> /\ cursor' = NoCursor
  /\ UNCHANGED cache /\ dirty' = TRUE
  /\ shown' = Nothing

\* ClearCollectedPoints_
ClearSketch ==
  /\ points' = <<>> /\ cursor' = NoCursor
  /\ cache' = NoFill /\ dirty' = TRUE
  /\ shown' = Nothing

\* SyncPreviewForState_ after a change that leaves the polygon's flag alone, and
\* after one that sets it in polygon mode.
Sync == Rebuild(cache, dirty)
SyncPolygonChanged == Rebuild(cache, dirty \/ mode = "Polygon")

-----------------------------------------------------------------------------
(* Input handlers.                                                         *)

Active == mode # "Off"

\* OnMouseDownL: one more point, where the pick ends up.
Click ==
  /\ Active /\ Len(points) < MaxPoints
  /\ cursor' \in Pointed(settings)
  /\ points' = Append(points, cursor')
  /\ UNCHANGED <<mode, settings, hidden>>
  /\ SyncPolygonChanged

\* OnMouseMove; also G, and a move whose pick finds nothing.
Move ==
  /\ Active
  /\ cursor' \in Pointed(settings) \cup {cursor}
  /\ UNCHANGED <<mode, points, settings, hidden>>
  /\ Sync

\* Backspace
RemovePoint ==
  /\ Active /\ points # <<>>
  /\ points' = Front(points)
  /\ UNCHANGED <<mode, cursor, settings, hidden>>
  /\ SyncPolygonChanged

FaultyRotate ==              \* the polygon's flag is not set
  /\ Active
  /\ settings' = [settings EXCEPT !.rotation = (@ + 1) % Turns]
  /\ UNCHANGED <<mode, points, cursor, hidden>>
  /\ Sync

\* R
Rotate ==
  /\ Active
  /\ settings' = [settings EXCEPT !.rotation = (@ + 1) % Turns]
  /\ UNCHANGED <<mode, points, cursor, hidden>>
  /\ SyncPolygonChanged

FaultyTune ==                \* the overlay is not rebuilt
  /\ Active
  /\ \/ mode = "Line" /\ \E s \in Spacings : settings' = [settings EXCEPT !.spacing = s]
     \/ mode = "Polygon" /\ \E d \in Densities : settings' = [settings EXCEPT !.density = d]
  /\ UNCHANGED <<mode, points, cursor, hidden, cache, dirty, shown>>

\* Minus and plus, with Control in polygon mode too.
Tune ==
  /\ Active
  /\ \/ mode = "Line" /\ \E s \in Spacings : settings' = [settings EXCEPT !.spacing = s]
     \/ mode = "Polygon" /\ \E d \in Densities : settings' = [settings EXCEPT !.density = d]
  /\ UNCHANGED <<mode, points, cursor, hidden>>
  /\ SyncPolygonChanged

\* The brackets and 0: the vertical offset.
Raise ==
  /\ Active
  /\ \E l \in Lifts : settings' = [settings EXCEPT !.lift = l]
  /\ UNCHANGED <<mode, points, cursor, hidden>>
  /\ Sync

\* Shift+S: turning point snapping off turns placement snapping off too.
ToggleSnap ==
  /\ Active
  /\ settings' = [settings EXCEPT !.snap = IF @ = "None" THEN "Points" ELSE "None"]
  /\ UNCHANGED <<mode, points, cursor, hidden>>
  /\ Sync

\* Control and the brackets: the neighbouring grid step, if there is one.
StepGrid ==
  /\ Active
  /\ \E d \in {-1, 1} : /\ settings.grid + d \in DOMAIN GridSteps
                        /\ settings' = [settings EXCEPT !.grid = @ + d]
  /\ UNCHANGED <<mode, points, cursor, hidden>>
  /\ Sync

\* P: of the four preview modes one hides the overlay.
CyclePreviewMode ==
  /\ Active
  /\ hidden' \in IF hidden THEN {FALSE} ELSE BOOLEAN
  /\ UNCHANGED <<mode, points, cursor, settings>>
  /\ Sync

\* Enter on a complete sketch places it, Esc and the right button give it up.
EnterOrEsc ==
  /\ Active
  /\ ClearSketch
  /\ UNCHANGED <<mode, settings, hidden>>

-----------------------------------------------------------------------------
(* The director.                                                           *)

\* SetTypeToPaint and Activate.  An unfinished sketch refuses a new target.  A
\* cursor from before, of direct painting too, is kept unless the type changes.
Start ==
  /\ points = <<>>
  /\ mode' \in {"Off", "Line", "Polygon"}
  /\ hidden' \in BOOLEAN
  /\ settings' \in StartSettings
  /\ cursor' \in {cursor, NoCursor} \cup (IF mode = "Off" THEN Spots ELSE {})
  /\ UNCHANGED points
  /\ Rebuild(NoFill, TRUE)

\* Deactivate: stop, another tool, a delivered cancel, the end of the city.
Leave ==
  /\ mode' = "Off"
  /\ ClearSketch
  /\ UNCHANGED <<settings, hidden>>

Init ==
  /\ mode = "Off" /\ points = <<>> /\ cursor = NoCursor
  /\ settings \in StartSettings
  /\ hidden = FALSE
  /\ cache = NoFill /\ dirty = TRUE /\ shown = Nothing

Next ==
  \/ Click \/ Move \/ RemovePoint
  \/ Rotate \/ Tune \/ Raise \/ ToggleSnap \/ StepGrid \/ CyclePreviewMode
  \/ EnterOrEsc
  \/ Start \/ Leave

Spec == Init /\ [][Next]_vars

-----------------------------------------------------------------------------
(* Properties.                                                             *)

\* A polygon's cache holds three vertices or more; the grid step stays on its
\* list; what is on screen is a row of placements, the cached polygon or both.
TypeOK ==
  /\ mode \in {"Off", "Line", "Polygon"}
  /\ points \in Seq(Nat) /\ Len(points) <= MaxPoints
  /\ cursor \in Nat \cup {NoCursor}
  /\ settings \in SettingsValues
  /\ hidden \in BOOLEAN /\ dirty \in BOOLEAN
  /\ cache # NoFill => Len(cache.vertices) >= 3
  /\ \A k \in DOMAIN shown.row : shown.row[k].rotation \in 0 .. Turns - 1
  /\ shown.fill \in {NoFill, cache}

\* Enter places what the preview shows: the batch is how the preview begins
\* (the preview goes on to the cursor), up to the limit of the preview.
EnterPlacesWhatIsShown ==
  Shows /\ mode = "Line" /\ Len(points) >= 2 =>
    IsPrefix(LineBatch(points, settings, MaxPreview), shown.row)

\* Whenever the flag says that the cached polygon is up to date, it is that of
\* the present vertices, density and rotation.
PolygonCacheCurrent ==
  ~dirty =>
    /\ cache.vertices = points
    /\ cache.density = settings.density /\ cache.rotation = settings.rotation

\* A sketch that is hidden or over leaves nothing on screen, and one that is
\* over leaves nothing in the cache.
NothingLingers ==
  /\ ~Shows => shown = Nothing
  /\ mode = "Off" => points = <<>> /\ cache = NoFill

\* The points without those on the same spot as their predecessor, and the
\* length of the path, both of the first i points and of all.
Kept(pts) ==
  LET kept[i \in 0 .. Len(pts)] ==
        IF i = 0 THEN <<>>
        ELSE IF i > 1 /\ pts[i] = pts[i - 1] THEN kept[i - 1] ELSE Append(kept[i - 1], pts[i])
  IN kept
WithoutRepeats(pts) == Kept(pts)[Len(pts)]
LengthTo(pts) ==
  LET sum[i \in 1 .. Len(pts)] ==
        IF i = 1 THEN 0 ELSE sum[i - 1] + SegmentLength(pts, i - 1)
  IN sum
PathLength(pts) == LengthTo(pts)[Len(pts)]

\* How far along the path a placement is, and all placements of the walk are.
Along(pts, p) == PathLength(SubSeq(pts, 1, p.segment)) + p.pos
Alongs(pts, spacing) ==
  LET row == Walk(pts, spacing) IN [k \in DOMAIN row |-> Along(pts, row[k])]

\* The walk follows the path: placements advance along it and stay short of its
\* end, one segment is evenly filled from its start, and clicking twice on a
\* spot (a segment without length) makes no difference.
LineWalksThePath ==
  mode = "Line" /\ Len(points) >= 2 =>
    LET along == Alongs(points, settings.spacing)
        total == PathLength(points)
        distinct == WithoutRepeats(points)
    IN /\ \A k \in DOMAIN along : along[k] < total /\ (k > 1 => along[k] > along[k - 1])
       /\ total > 0 => along # <<>> /\ along[1] = 0
       /\ Len(distinct) = 2 =>
            /\ \A k \in DOMAIN along : along[k] = (k - 1) * settings.spacing
            /\ Len(along) * settings.spacing >= total
       /\ along = Alongs(distinct, settings.spacing)

\* USAGE.md calls spacing a number of metres: neighbours are that far apart
\* along the path, corners or not.  The code breaks this behind a corner.
EvenSpacing ==
  mode = "Line" =>
    LET along == Alongs(points, settings.spacing)
    IN \A k \in DOMAIN along \ {1} : along[k] - along[k - 1] = settings.spacing

\* USAGE.md says that the vertical offset raises the placed props and the
\* preview, and that the preview is live: the polygon shown is what Enter would
\* place.  The code keeps showing the polygon of before the change.
PolygonPreviewIsPlan ==
  Shows /\ mode = "Polygon" /\ Len(points) >= 3 =>
    shown.fill = PolygonBatch(points, settings)
=============================================================================
