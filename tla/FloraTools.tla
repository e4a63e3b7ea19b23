----------------------------- MODULE FloraTools -----------------------------
(***************************************************************************)
(* The two tools that change the city's flora: the flora painter           *)
(* (FloraPainterInputControl on BasePainterInputControl) and the flora     *)
(* stripper (FloraStripperInputControl).                                   *)
(*                                                                         *)
(* Flora is not like props: the simulator decides where it may stand, so a *)
(* click can be refused, a batch can be thinned out by its own plants, and *)
(* the preview, a real plant, must neither stand where a click would be    *)
(* refused nor be in the way of the click.  The stripper picks within a    *)
(* square and brushes within the circle that is drawn.                     *)
(***************************************************************************)
EXTENDS Integers, Sequences, FiniteSets, Functions, Ordered

CONSTANTS
  FloraOcc,         \* occupants that can exist
  NoPlant,          \* a null occupant pointer
  Kinds,            \* flora types
  NoKind,           \* no type is painted
  Turns,            \* orientations
  Spots,            \* positions [x, z] the terrain pick can return
  NoSpot,           \* the cursor is not valid
  Soil,             \* the spots where the simulator lets a kind grow
  Radius,           \* kPickRadiusMeters
  FloraPolicies,    \* bound: switch policies that are set
  Wild,             \* bound: the flora of a city when it is loaded
  Sprouts,          \* bound: plants that may grow by themselves
  FloraBatches,     \* bound: what Enter can plan: sequences of [kind, at]
  MaxFloraGroups,   \* Undo::kMaxUndoGroups
  MaxFloraDeleted   \* bound: deletions on the stripper's undo stack

Plants == [kind : Kinds, at : Spots, turn : Turns]

\* What the constants are; CityTools assumes it.
FloraAssumption ==
  /\ IsFiniteSet(FloraOcc) /\ NoPlant \notin FloraOcc
  /\ NoKind \notin Kinds /\ NoSpot \notin Spots
  /\ \A s \in Spots : s \in [x : Int, z : Int]
  /\ Soil \in [Kinds -> SUBSET Spots] /\ Radius \in Nat
  /\ DOMAIN Wild \subseteq FloraOcc /\ Range(Wild) \subseteq Plants
  /\ FloraPolicies \subseteq {"Discard", "Commit", "KeepPending"}
  /\ Sprouts \subseteq Plants /\ FloraBatches \subseteq Seq([kind : Kinds, at : Spots])
  /\ MaxFloraGroups \in Nat \ {0} /\ MaxFloraDeleted \in Nat

\* A name that the tools for props or decals use too begins with f here.
VARIABLES
  flora,            \* the flora in the city, by occupant; the preview is one of them
  fLit,             \* the flora with highlight 0x9: pending, or hovered
  fState,           \* state_: Off, Direct, Sketch (line and polygon)
  kind,             \* CurrentDirectTypeID_(), of the type or of the family that is painted
  model,            \* settings_.previewMode shows the model
  fCursor,          \* the painter's currentCursorWorld_
  fPreview,         \* previewOccupant_, whether it is visible
  fUndo,            \* the painter's undoStack_: groups of occupants
  fHovered,         \* hoveredOccupant_
  fDeleted,         \* the stripper's undoStack_
  fBrush,           \* stripMode_ is Brush
  fLeft,            \* leftMouseDown_
  aim,              \* the stripper's currentCursorWorld_
  fScreen,          \* whose control is View3D's current one
  fCancel,          \* the tools whose cancelPending_ is set
  fPolicy,          \* paintSwitchPolicy_
  fLoaded           \* a city is loaded

fPainting == <<fState, kind, model, fCursor, fPreview, fUndo>>
fStripping == <<fHovered, fDeleted, fBrush, fLeft, aim>>
fDirector == <<fScreen, fCancel, fPolicy, fLoaded>>
fVars == <<flora, fLit, fPainting, fStripping, fDirector>>

NoPreview == [occ |-> NoPlant, visible |-> FALSE]
PendingOcc == UNION {Range(fUndo[i]) : i \in DOMAIN fUndo}
FreshFlora == FloraOcc \ (DOMAIN flora \cup PendingOcc \cup {fHovered})
WithoutFlora(c, gone) == Restrict(c, DOMAIN c \ gone)
WithPlant(c, o, p) == [i \in DOMAIN c \cup {o} |-> IF i = o THEN p ELSE c[i]]
Plant(k, s, t) == [kind |-> k, at |-> s, turn |-> t]

-----------------------------------------------------------------------------
(* The painter's preview.                                                  *)

\* IsFloraPlacementValid_: the simulator wants the right soil and a free spot.
\* The preview may be left out of c.
IsPlacementValid(k, s, c) == s \in Soil[k] /\ \A o \in DOMAIN c : c[o].at # s

ShowsModel == fState = "Direct" /\ model

\* DestroyPreviewOccupant_, in the city c.
NoPreviewIn(c) == WithoutFlora(c, {fPreview.occ})
DestroyPreview(c) == fPreview' = NoPreview /\ flora' = NoPreviewIn(c)

FaultyHidePreview(c) == UNCHANGED fPreview /\ flora' = c   \* shown wherever it is

\* UpdatePreviewOccupant_ when it is on no good spot: it stays, but hidden.
HidePreview(c) == fPreview' = [fPreview EXCEPT !.visible = FALSE] /\ flora' = c

\* SyncPreviewForState_ with CreatePreviewOccupant_ and UpdatePreviewOccupant_.
\* The city is c.  The preview that is moved with snapping on, or is of the
\* wrong kind, is a new one; creating or moving it can fail.
SyncFloraPreview(c) ==
  LET keeps == fPreview.occ # NoPlant /\ c[fPreview.occ].kind = kind'
      fits == fCursor' # NoSpot /\ IsPlacementValid(kind', fCursor', NoPreviewIn(c))
  IN \/ ~ShowsModel' /\ DestroyPreview(c)
     \/ /\ ShowsModel' /\ fits
        /\ \E o \in FloraOcc \ (DOMAIN NoPreviewIn(c) \cup PendingOcc'), t \in Turns :
             /\ fPreview' = [occ |-> o, visible |-> TRUE]
             /\ flora' = WithPlant(NoPreviewIn(c), o, Plant(kind', fCursor', t))
     \/ ShowsModel' /\ keeps /\ HidePreview(c)
     \/ ShowsModel' /\ ~(keeps /\ ~fits) /\ DestroyPreview(c)

-----------------------------------------------------------------------------
(* The painter.                                                            *)

Paints == fScreen = "Painter"

\* TrimUndoStack_: the oldest group beyond the limit keeps its plants, unlit.
Excess(us) == IF Len(us) > MaxFloraGroups THEN 1 ELSE 0
Trimmed(us) == SubSeq(us, 1 + Excess(us), Len(us))
Forgotten(us) == IF Excess(us) = 1 THEN Range(us[1]) ELSE {}

\* The group goes on the undo stack, highlighted.
FloraRecorded(group) ==
  LET us == IF group = <<>> THEN fUndo ELSE Append(fUndo, group)
  IN fUndo' = Trimmed(us) /\ fLit' = (fLit \cup Range(group)) \ Forgotten(us)

\* OnMouseDownL in direct mode: PlaceTypeAt_.  The preview goes first; when the
\* simulator refuses the plant it has gone all the same, until the next sync.
Click(s) ==
  /\ Paints /\ fState = "Direct" /\ s # NoSpot
  /\ UNCHANGED <<fState, model, fCursor, fStripping, fDirector>>
  /\ \/ /\ DestroyPreview(flora)
        /\ UNCHANGED <<fLit, kind, fUndo>>
     \/ /\ IsPlacementValid(kind, s, NoPreviewIn(flora))
        /\ \E o \in FreshFlora, t \in Turns :
             LET planted == WithPlant(NoPreviewIn(flora), o, Plant(kind, s, t)) IN
             /\ FloraRecorded(<<o>>)
             /\ kind' \in Kinds
             /\ \/ ~ShowsModel /\ fPreview' = NoPreview /\ flora' = planted
                \/ /\ ShowsModel /\ fCursor # NoSpot
                   /\ IsPlacementValid(kind', fCursor, planted)
                   /\ \E p \in FreshFlora \ {o}, u \in Turns :
                        /\ fPreview' = [occ |-> p, visible |-> TRUE]
                        /\ flora' = WithPlant(planted, p, Plant(kind', fCursor, u))
                \/ ShowsModel /\ fPreview' = NoPreview /\ flora' = planted

FaultyPlanted(batch) ==      \* checks against the city of before the batch
  {i \in DOMAIN batch : IsPlacementValid(batch[i].kind, batch[i].at, flora)}

\* Which placements of a batch get a plant.  Each is checked after those before
\* it have been planted: a spot goes to the first of them that may grow there.
Planted(batch) ==
  LET May(i) == IsPlacementValid(batch[i].kind, batch[i].at, flora)
  IN {i \in DOMAIN batch :
        May(i) /\ \A j \in 1 .. i - 1 : May(j) => batch[j].at # batch[i].at}

\* Enter on a complete sketch: ExecuteLinePlacement_, ExecutePolygonPlacement_.
PlaceSketch(batch) ==
  /\ Paints /\ fState = "Sketch"
  /\ LET which == Planted(batch)
         order == Ascending(which)
     IN
     /\ Cardinality(which) <= Cardinality(FreshFlora)
     /\ \E f \in Injection(which, FreshFlora), t \in Turns :
          /\ FloraRecorded([k \in DOMAIN order |-> f[order[k]]])
          /\ flora' = [o \in DOMAIN flora \cup Range(f) |->
                         IF o \in DOMAIN flora THEN flora[o]
                         ELSE LET i == CHOOSE j \in which : f[j] = o
                              IN Plant(batch[i].kind, batch[i].at, t)]
  /\ fCursor' = NoSpot
  /\ UNCHANGED <<fState, kind, model, fPreview, fStripping, fDirector>>

\* OnMouseMove; a pick that finds nothing leaves a cursor that was valid.
MoveFloraPainter(s) ==
  /\ Paints /\ s # NoSpot
  /\ fCursor' \in {s, fCursor}
  /\ UNCHANGED <<fLit, fState, kind, model, fUndo, fStripping, fDirector>>
  /\ SyncFloraPreview(flora)

\* P
CycleFloraPreview ==
  /\ Paints
  /\ model' = ~model
  /\ UNCHANGED <<fLit, fState, kind, fCursor, fUndo, fStripping, fDirector>>
  /\ SyncFloraPreview(flora)

\* RemoveOccupant_ for some occupants, when the stack becomes us.
Removed(us, gone) ==
  /\ fUndo' = us
  /\ flora' = WithoutFlora(flora, gone) /\ fLit' = fLit \ gone

\* Ctrl+Z and Ctrl+Backspace.  The preview is not synchronised.
UndoFloraPlacement ==
  LET n == Len(fUndo) IN
  /\ Paints /\ fUndo # <<>>
  /\ \/ Removed(SubSeq(fUndo, 1, n - 1), Range(fUndo[n]))
     \/ LET m == Len(fUndo[n]) IN
        /\ m > 1
        /\ Removed([fUndo EXCEPT ![n] = SubSeq(@, 1, m - 1)], {fUndo[n][m]})
  /\ UNCHANGED <<fState, kind, model, fCursor, fPreview, fStripping, fDirector>>

\* Enter without a sketch: CommitPlacements
EnterCommits ==
  /\ Paints
  /\ fUndo' = <<>> /\ fLit' = fLit \ PendingOcc
  /\ UNCHANGED <<flora, fState, kind, model, fCursor, fPreview, fStripping, fDirector>>

\* Esc and the right button; in line mode ClearCollectedPoints_ drops the
\* cursor, and in direct mode as well.
EscInFloraPainter ==
  /\ Paints
  /\ Removed(<<>>, PendingOcc)
  /\ fCursor' = NoSpot /\ fCancel' = fCancel \cup {"Painter"}
  /\ UNCHANGED <<fState, kind, model, fPreview, fStripping, fScreen, fPolicy, fLoaded>>

-----------------------------------------------------------------------------
(* The stripper.                                                           *)

Strips == fScreen = "Stripper"

Dx(p, q) == p.x - q.x
Dz(p, q) == p.z - q.z
DistSq(p, q) == Dx(p, q) * Dx(p, q) + Dz(p, q) * Dz(p, q)

\* BuildSearchBounds_: what GetOccupantsByBBox finds around s.
InBox(s) ==
  IF s = NoSpot THEN {}
  ELSE {o \in DOMAIN flora :
          /\ Dx(flora[o].at, s) \in -Radius .. Radius
          /\ Dz(flora[o].at, s) \in -Radius .. Radius}

\* DeleteFloraInBrush_ leaves out what is farther away than the radius.
InCircle(s) == {o \in InBox(s) : DistSq(flora[o].at, s) <= Radius * Radius}

\* ClearHoveredFlora_
ClearFloraHover == fHovered' = NoPlant /\ fLit' = fLit \ {fHovered}

\* PickNearestFlora_ and SetHoveredFlora_: the nearest in the box.
PickNearestFlora(s) ==
  \/ InBox(s) = {} /\ ClearFloraHover
  \/ \E o \in InBox(s) :
       /\ \A q \in InBox(s) : DistSq(flora[o].at, s) <= DistSq(flora[q].at, s)
       /\ fHovered' = o
       /\ fLit' = IF o = fHovered THEN fLit ELSE (fLit \ {fHovered}) \cup {o}

\* The occupants of order leave, each with an undo record of its own; the
\* simulator may refuse to demolish some of them.
DeleteFlora(order) ==
  \E kept \in SUBSET Range(order) :
    LET gone == Picked(order, {i \in DOMAIN order : order[i] \notin kept})
    IN /\ Len(fDeleted) + Len(gone) <= MaxFloraDeleted
       /\ flora' = WithoutFlora(flora, Range(gone))
       /\ fDeleted' = fDeleted \o [i \in DOMAIN gone |-> flora[gone[i]]]

\* An order in which GetOccupantsByBBox may return the occupants S.
Orders(S) == Bijection(1 .. Cardinality(S), S)

\* OnMouseMove
MoveFloraStripper(s) ==
  /\ Strips
  /\ aim' = s
  /\ IF fBrush
     THEN /\ fHovered' = NoPlant
          /\ \E order \in Orders(IF fLeft THEN InCircle(s) ELSE {}) :
               DeleteFlora(order) /\ fLit' = fLit \ ({fHovered} \cup Range(order))
     ELSE PickNearestFlora(s) /\ UNCHANGED <<flora, fDeleted>>
  /\ UNCHANGED <<fPainting, fBrush, fLeft, fDirector>>

\* OnMouseDownL in brush mode: the button counts even off the terrain.
FloraBrushClick ==
  /\ Strips /\ fBrush
  /\ fLeft' = TRUE
  /\ \E order \in Orders(InCircle(aim)) :
       DeleteFlora(order) /\ fLit' = fLit \ Range(order)
  /\ UNCHANGED <<fPainting, fHovered, fBrush, aim, fDirector>>

\* OnMouseDownL in single mode: DeleteHoveredFlora_.  What the simulator
\* refuses to demolish, or has lost already, is forgotten and not recorded.
FloraSingleClick ==
  /\ Strips /\ ~fBrush /\ aim # NoSpot /\ fHovered # NoPlant
  /\ IF fHovered \in DOMAIN flora THEN DeleteFlora(<<fHovered>>)
     ELSE UNCHANGED <<flora, fDeleted>>
  /\ fHovered' = NoPlant /\ fLit' = fLit \ {fHovered}
  /\ UNCHANGED <<fPainting, fBrush, fLeft, aim, fDirector>>

\* OnMouseUpL
FloraButtonUp ==
  /\ fLeft /\ fLeft' = FALSE
  /\ UNCHANGED <<flora, fLit, fPainting, fHovered, fDeleted, fBrush, aim, fDirector>>

\* B
ToggleFloraMode ==
  /\ Strips
  /\ fBrush' = ~fBrush /\ fLeft' = FALSE
  /\ IF fBrush' THEN ClearFloraHover ELSE PickNearestFlora(aim)
  /\ UNCHANGED <<flora, fPainting, fDeleted, aim, fDirector>>

\* Ctrl+Z: the last record, wherever something else grows by now.
UndoFloraDeletion ==
  /\ Strips /\ fDeleted # <<>>
  /\ \E o \in FreshFlora : flora' = WithPlant(flora, o, fDeleted[Len(fDeleted)])
  /\ fDeleted' = SubSeq(fDeleted, 1, Len(fDeleted) - 1)
  /\ UNCHANGED <<fLit, fPainting, fHovered, fBrush, fLeft, aim, fDirector>>

\* The same when AddNewFloraOccupant fails: the record is gone.
FloraUndoFails ==
  /\ Strips /\ fDeleted # <<>>
  /\ fDeleted' = SubSeq(fDeleted, 1, Len(fDeleted) - 1)
  /\ UNCHANGED <<flora, fLit, fPainting, fHovered, fBrush, fLeft, aim, fDirector>>

\* Esc and the right button
EscInFloraStripper ==
  /\ Strips
  /\ fLeft' = FALSE /\ ClearFloraHover
  /\ fCancel' = fCancel \cup {"Stripper"}
  /\ UNCHANGED <<flora, fPainting, fDeleted, fBrush, aim, fScreen, fPolicy, fLoaded>>

-----------------------------------------------------------------------------
(* The director and the game.                                              *)

\* Deactivate of whatever is on screen, when the painter's policy has left the
\* city c: the stripper delivers a cancel, the painter keeps it.  What the
\* painter painted is set anew by each start.
FloraToolDeactivates(c) ==
  /\ DestroyPreview(c) /\ fState' = "Off"
  /\ fCursor' = IF Paints THEN NoSpot ELSE fCursor
  /\ kind' = NoKind /\ model' = FALSE
  /\ fHovered' = NoPlant /\ fLeft' = FALSE
  /\ UNCHANGED <<fDeleted, fBrush, aim, fPolicy, fLoaded>>

\* ApplySwitchPolicy_
FloraAfterPolicy(discarded) ==
  /\ fUndo' = IF fPolicy = "KeepPending" THEN fUndo ELSE <<>>
  /\ fLit' = (IF fPolicy = "KeepPending" THEN fLit ELSE fLit \ PendingOcc) \ {fHovered}
  /\ FloraToolDeactivates(IF discarded THEN WithoutFlora(flora, PendingOcc) ELSE flora)

\* StartFloraPainting: SetFloraToPaint and Activate.  A painter on screen with
\* a sketch refuses (Sketch has the points; here it may have none).  It asks for
\* the model; P leads to the other previews.
StartFloraPainting(to) ==
  /\ fLoaded
  /\ IF Paints /\ fPolicy # "KeepPending"
     THEN /\ fUndo' = <<>> /\ fLit' = fLit \ PendingOcc
     ELSE /\ UNCHANGED fUndo /\ fLit' = fLit \ {fHovered}
  /\ fState' = to /\ kind' \in Kinds /\ model' = TRUE
  /\ fCursor' \in {fCursor, NoSpot}
  /\ fHovered' = NoPlant /\ fLeft' = FALSE
  /\ fScreen' = "Painter" /\ fCancel' = fCancel \ {"Stripper"}
  /\ UNCHANGED <<fDeleted, fBrush, aim, fPolicy, fLoaded>>
  /\ SyncFloraPreview(IF Paints /\ fPolicy = "Discard" THEN WithoutFlora(flora, PendingOcc)
                      ELSE flora)

\* StartFloraStripping: the painter is replaced under the policy.
StartFloraStripping ==
  /\ fLoaded
  /\ IF Paints THEN FloraAfterPolicy(fPolicy = "Discard")
     ELSE /\ ClearFloraHover /\ fLeft' = FALSE
          /\ UNCHANGED <<flora, fPainting, fDeleted, fBrush, aim, fPolicy, fLoaded>>
  /\ fScreen' = "Stripper" /\ fCancel' = fCancel \ {"Stripper"}

\* StopFloraPainting: CancelAllPlacements, on screen or not.
StopFloraPainting ==
  /\ fLoaded /\ ~Strips
  /\ fUndo' = <<>> /\ fLit' = fLit \ PendingOcc
  /\ FloraToolDeactivates(WithoutFlora(flora, PendingOcc))
  /\ fScreen' = "None" /\ UNCHANGED fCancel

\* StopFloraStripping, the tick that delivers a cancel, another tool, the game:
\* the control on screen is dropped.
FloraToolDropped(t) ==
  /\ fScreen = t
  /\ fLit' = fLit \ {fHovered} /\ UNCHANGED fUndo
  /\ FloraToolDeactivates(flora)
  /\ fScreen' = "None" /\ fCancel' = fCancel \ {"Stripper"}

\* ProcessPendingActions on a tick; a painter that is gone keeps its flag.
FloraTick(t) ==
  /\ t \in fCancel
  /\ fCancel' = fCancel \ {t}
  /\ IF fScreen = t
     THEN /\ fLit' = fLit \ {fHovered} /\ UNCHANGED fUndo
          /\ FloraToolDeactivates(flora) /\ fScreen' = "None"
     ELSE UNCHANGED <<flora, fLit, fPainting, fStripping, fScreen, fPolicy, fLoaded>>

\* PreCityShutdown_
FloraCityShutdown ==
  /\ fLoaded
  /\ fLoaded' = FALSE /\ fScreen' = "None" /\ fCancel' = fCancel \ {"Stripper"}
  /\ fUndo' = <<>> /\ fDeleted' = <<>>
  /\ fLit' = fLit \ (PendingOcc \cup {fHovered})
  /\ fPreview' = NoPreview /\ fState' = "Off"
  /\ fHovered' = NoPlant /\ fLeft' = FALSE /\ fCursor' = NoSpot
  /\ flora' = WithoutFlora(flora, PendingOcc \cup {fPreview.occ})
  /\ kind' = NoKind /\ model' = FALSE
  /\ UNCHANGED <<fBrush, aim, fPolicy>>

\* Another city, or the same one again, is loaded: it has no highlights.
FloraCityInit ==
  /\ ~fLoaded /\ fLoaded' = TRUE
  /\ flora' = Wild /\ fLit' = {}
  /\ UNCHANGED <<fPainting, fStripping, fScreen, fCancel, fPolicy>>

\* The simulator lets a plant die or grow.
Dies(o) ==
  /\ o \in DOMAIN flora \ {fPreview.occ}
  /\ flora' = WithoutFlora(flora, {o}) /\ fLit' = fLit \ {o}
  /\ UNCHANGED <<fPainting, fStripping, fDirector>>
Grows(p) ==
  /\ fLoaded
  /\ IsPlacementValid(p.kind, p.at, flora)
  /\ \E o \in FreshFlora : flora' = WithPlant(flora, o, p)
  /\ UNCHANGED <<fLit, fPainting, fStripping, fDirector>>

-----------------------------------------------------------------------------
FloraInit ==
  /\ flora = Wild /\ fLit = {} /\ fLoaded = TRUE
  /\ fState = "Off" /\ kind = NoKind /\ model = FALSE
  /\ fCursor = NoSpot /\ fPreview = NoPreview /\ fUndo = <<>>
  /\ fHovered = NoPlant /\ fDeleted = <<>>
  /\ fBrush = FALSE /\ fLeft = FALSE /\ aim = NoSpot
  /\ fScreen = "None" /\ fCancel = {}
  /\ fPolicy \in FloraPolicies

FloraPainter ==
  \/ \E s \in Spots : Click(s) \/ MoveFloraPainter(s)
  \/ \E batch \in FloraBatches : PlaceSketch(batch)
  \/ CycleFloraPreview \/ UndoFloraPlacement \/ EnterCommits \/ EscInFloraPainter

FloraStripper ==
  \/ \E s \in Spots \cup {NoSpot} : MoveFloraStripper(s)
  \/ FloraBrushClick \/ FloraSingleClick \/ FloraButtonUp \/ ToggleFloraMode
  \/ UndoFloraDeletion \/ FloraUndoFails \/ EscInFloraStripper

Nature == (\E o \in FloraOcc : Dies(o)) \/ (\E p \in Sprouts : Grows(p))

FloraDirector ==
  \/ \E to \in {"Direct", "Sketch"} : StartFloraPainting(to)
  \/ StartFloraStripping \/ StopFloraPainting
  \/ \E t \in {"Painter", "Stripper"} : FloraToolDropped(t) \/ FloraTick(t)
  \/ FloraCityShutdown \/ FloraCityInit

FloraNext == FloraPainter \/ FloraStripper \/ FloraDirector \/ Nature

FloraSpec == FloraInit /\ [][FloraNext]_fVars

-----------------------------------------------------------------------------
(* Properties.                                                             *)

\* Every variable has a value of its type.
FloraTypeOK ==
  /\ DOMAIN flora \subseteq FloraOcc /\ Range(flora) \subseteq Plants
  /\ fLit \subseteq FloraOcc
  /\ fPreview.occ \in FloraOcc \cup {NoPlant} /\ fHovered \in FloraOcc \cup {NoPlant}
  /\ kind \in Kinds \cup {NoKind}
  /\ {fCursor, aim} \subseteq Spots \cup {NoSpot}
  /\ fUndo \in Seq(Seq(FloraOcc)) /\ Len(fUndo) <= MaxFloraGroups
  /\ fDeleted \in Seq(Plants)
  /\ fState \in {"Off", "Direct", "Sketch"} /\ fScreen \in {"None", "Painter", "Stripper"}
  /\ {model, fPreview.visible, fBrush, fLeft, fLoaded} \subseteq BOOLEAN

\* FloraPainterInputControl.cpp: "Never commit the live preview occupant into
\* the city".  The preview is none of the placements, it is in the city only
\* while the painter shows it, and it is gone before the city is.
PreviewIsNeverPlanted ==
  fPreview.occ # NoPlant =>
    /\ fPreview.occ \in DOMAIN flora /\ fPreview.occ \notin PendingOcc \cup fLit
    /\ Paints /\ ShowsModel /\ fLoaded

\* What a visible preview tells the player: the next click at the cursor plants
\* this kind, here, and the simulator lets it.  A plant that grows at the spot
\* by itself makes it untrue until the next move, nothing else does.
Tells ==
  fPreview.visible =>
    /\ flora[fPreview.occ].kind = kind
    /\ fCursor # NoSpot => flora[fPreview.occ].at = fCursor
    /\ IsPlacementValid(kind, flora[fPreview.occ].at, NoPreviewIn(flora))
PreviewTellsClick ==
  [][Tells \/ fCursor' \in Spots \ {fCursor} => Tells' \/ Nature]_fVars

\* The painter does not crowd: whatever batch is planned, what it plants stands
\* on good soil and alone.
NoCrowd == \A o, q \in PendingOcc \cap DOMAIN flora : o # q => flora[o].at # flora[q].at

\* How many plants p are in the city or on the stripper's undo stack.
FloraTotal(p) ==
  Cardinality({o \in DOMAIN flora : flora[o] = p})
  + Cardinality({i \in DOMAIN fDeleted : fDeleted[i] = p})

\* Stripping and undoing neither lose nor duplicate a plant, whatever the
\* simulator refuses to demolish; a stroke never reaches beyond the circle.
NoPlantLost ==
  [][/\ \/ \A p \in Plants : FloraTotal(p)' = FloraTotal(p)
        \/ FloraUndoFails \/ ~FloraStripper
     /\ \A o \in DOMAIN flora \ DOMAIN flora' :
          fBrush /\ Strips =>
            \/ aim' # NoSpot /\ DistSq(flora[o].at, aim') <= Radius * Radius
            \/ ~FloraStripper]_fVars

\* What the next click deletes is lit, within the square around the cursor, and
\* only while the stripper is on screen in single mode; a held button brushes
\* on screen only.  No other plant is lit than this one and the pending ones.
FloraHoverIsAimed ==
  /\ fHovered # NoPlant =>
       /\ Strips /\ ~fBrush
       /\ fHovered \in DOMAIN flora => fHovered \in InBox(aim) \cap fLit
  /\ fLeft => Strips /\ fBrush
  /\ fLit \subseteq PendingOcc \cup {fHovered}
=============================================================================
