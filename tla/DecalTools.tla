----------------------------- MODULE DecalTools -----------------------------
(***************************************************************************)
(* The three tools that share the terrain decal service: the decal painter *)
(* (DecalPainterInputControl), the decal stripper                          *)
(* (DecalStripperInputControl) and the decal picker (DecalPickStrategy).    *)
(* The service has no highlight: a tool that wants a decal to stand out    *)
(* sets its draw mode to 1 and remembers the mode it had.  Three tools     *)
(* borrow the one field, and each decal must get its own mode back.        *)
(* Distances are left out: any decal may be the nearest one, any set of    *)
(* decals may lie within the brush.                                        *)
(***************************************************************************)
EXTENDS Naturals, Sequences, FiniteSets, Functions

CONSTANTS
  Ids,              \* ids of decals; the service never gives one out twice
  NoDecal,          \* TerrainDecalId{0}
  OwnModes,         \* draw modes of decals that are not highlighted
  MaxUndoGroups,    \* kMaxUndoGroups
  MaxDeleted        \* bound: deletions on the stripper's undo stack

Highlight == 1    \* kPendingDrawMode, and the hover mode

\* What the constants are; CityTools assumes it.
DecalAssumption ==
  /\ IsFiniteSet(Ids) /\ NoDecal \notin Ids
  /\ OwnModes \subseteq Nat \ {Highlight}
  /\ MaxUndoGroups \in Nat \ {0} /\ MaxDeleted \in Nat

\* A name that the tools for props or flora use too begins with d here.
VARIABLES
  decals,           \* the service's decals, by id: mode, and the mode they are to have (own)
  dUndo,            \* the painter's undoStack_: one decal per group
  dPreview,         \* previewDecalId_
  shown,            \* the painter's settings_.previewMode is not Hidden
  template,         \* stateTemplate_.drawMode
  hover,            \* hoveredDecalId_, hoveredOriginalDrawMode_ of stripper and picker
  dDeleted,         \* the stripper's undoStack_
  dBrush,           \* stripMode_ is Brush
  dLeft,            \* leftMouseDown_
  dScreen,          \* the tool whose control is View3D's current one
  dPainting,        \* the director's decalPainting_
  dCancel,          \* the tools whose cancelPending_ is set
  dPolicy,          \* paintSwitchPolicy_
  dLoaded           \* a city is loaded

dPainter == <<dUndo, dPreview, shown, template>>
dStripper == <<dDeleted, dBrush, dLeft>>
dDirector == <<dScreen, dPainting, dCancel, dPolicy, dLoaded>>
dVars == <<decals, dPainter, hover, dStripper, dDirector>>

Hoverers == {"Stripper", "Picker"}
Tools == Hoverers \cup {"Painter"}
Policies == {"Discard", "Commit", "KeepPending"}

NoHover == [id |-> NoDecal, original |-> 0]

-----------------------------------------------------------------------------
(* The service, and what the tools keep of it.                             *)

PendingIds == {dUndo[i].id : i \in DOMAIN dUndo}
HoveredIds == {hover[t].id : t \in Hoverers}
FreshIds == Ids \ (DOMAIN decals \cup PendingIds \cup HoveredIds \cup {dPreview})

InMode(decal, m) == [mode |-> m, own |-> decal.own]

\* GetDecal and ReplaceDecal with another draw mode: nothing if id is gone.
WithMode(c, id, m) == IF id \in DOMAIN c THEN [c EXCEPT ![id] = InMode(c[id], m)] ELSE c

\* RemoveDecal
WithoutDecals(c, gone) == Restrict(c, DOMAIN c \ gone)

\* CreateDecal
WithDecal(c, id, d) == [i \in DOMAIN c \cup {id} |-> IF i = id THEN d ELSE c[i]]

\* RestoreCommittedDrawMode_ for the decals of some groups.
RestoredModes(c, pending) ==
  [id \in DOMAIN c |->
     IF \E p \in pending : p.id = id
     THEN InMode(c[id], (CHOOSE p \in pending : p.id = id).committed)
     ELSE c[id]]

FaultyHovering(t, id) ==     \* remembers the mode before the last hover ends
  /\ hover' = [hover EXCEPT ![t] = [id |-> id, original |-> hover[t].original]]
  /\ decals' = WithMode(WithMode(decals, hover[t].id, hover[t].original), id, Highlight)

\* SetHoveredDecal_ of tool t: the last hovered decal gets its mode back.
Hovering(t, id) ==
  IF id = hover[t].id THEN UNCHANGED <<decals, hover>>
  ELSE LET back == WithMode(decals, hover[t].id, hover[t].original) IN
       /\ hover' = [hover EXCEPT ![t] =
                      [id |-> id,
                       original |-> IF id \in DOMAIN back THEN back[id].mode ELSE 0]]
       /\ decals' = WithMode(back, id, Highlight)

-----------------------------------------------------------------------------
(* The painter.                                                            *)

ShowsPreview == dScreen = "Painter" /\ shown

\* SyncPreviewForState_ when the city holds c: the preview is kept (and moved
\* or replaced in place), created anew, or destroyed.
SyncDecalPreview(c) ==
  \/ /\ ShowsPreview' /\ dPreview # NoDecal
     /\ decals' = c /\ UNCHANGED dPreview
  \/ /\ ShowsPreview'
     /\ \E id \in FreshIds \ DOMAIN c :
          /\ dPreview' = id
          /\ decals' = WithDecal(WithoutDecals(c, {dPreview}), id,
                                 [mode |-> Highlight, own |-> template'])
  \/ /\ dPreview' = NoDecal /\ decals' = WithoutDecals(c, {dPreview})

\* OnMouseDownL: PlaceAtWorld_, AddDecalToUndo_, TrimUndoStack_.
Place ==
  /\ dScreen = "Painter"
  /\ \E id \in FreshIds :
       LET us == Append(dUndo, [id |-> id, committed |-> template])
           excess == IF Len(us) > MaxUndoGroups THEN Len(us) - MaxUndoGroups ELSE 0
           c == WithDecal(decals, id, [mode |-> Highlight, own |-> template])
       IN /\ dUndo' = SubSeq(us, excess + 1, Len(us))
          /\ UNCHANGED <<shown, template, hover, dStripper, dDirector>>
          /\ SyncDecalPreview(RestoredModes(c, {us[i] : i \in 1 .. excess}))

\* OnMouseMove and the keys that turn, mirror or shift the decal.
MoveOrAdjust ==
  /\ dScreen = "Painter"
  /\ UNCHANGED <<dUndo, shown, template, hover, dStripper, dDirector>>
  /\ SyncDecalPreview(decals)

\* P
CycleDecalPreview ==
  /\ dScreen = "Painter"
  /\ shown' \in BOOLEAN
  /\ UNCHANGED <<dUndo, template, hover, dStripper, dDirector>>
  /\ SyncDecalPreview(decals)

\* Ctrl+Z
UndoDecalPlacement ==
  /\ dScreen = "Painter" /\ dUndo # <<>>
  /\ decals' = WithoutDecals(decals, {dUndo[Len(dUndo)].id})
  /\ dUndo' = SubSeq(dUndo, 1, Len(dUndo) - 1)
  /\ UNCHANGED <<dPreview, shown, template, hover, dStripper, dDirector>>

\* The city after CommitPlacements and after CancelAllPlacements; both empty the
\* undo stack.
DecalsCommitted(c) == RestoredModes(c, {dUndo[i] : i \in DOMAIN dUndo})
DecalsCancelled(c) == WithoutDecals(c, PendingIds)

\* Enter
Enter ==
  /\ dScreen = "Painter"
  /\ decals' = DecalsCommitted(decals) /\ dUndo' = <<>>
  /\ UNCHANGED <<dPreview, shown, template, hover, dStripper, dDirector>>

\* Esc and the right button in the painter.
EscInDecalPainter ==
  /\ dScreen = "Painter"
  /\ decals' = DecalsCancelled(decals) /\ dUndo' = <<>>
  /\ dCancel' = dCancel \cup {"Painter"}
  /\ UNCHANGED <<dPreview, shown, template, hover, dStripper>>
  /\ UNCHANGED <<dScreen, dPainting, dPolicy, dLoaded>>

-----------------------------------------------------------------------------
(* The stripper and the picker.                                            *)

\* OnMouseMove of the picker, and of the stripper in single mode.
MoveHovering(t, id) ==
  /\ dScreen = t
  /\ t = "Stripper" => ~dBrush
  /\ Hovering(t, id)
  /\ UNCHANGED <<dPainter, dStripper, dDirector>>

\* The state a deletion is recorded with: without the hover highlight.
Erased(gone) ==
  [id \in gone |->
     IF id = hover["Stripper"].id THEN InMode(decals[id], hover["Stripper"].original)
     ELSE decals[id]]

\* Several deletions, in any order.
DeleteDecals(gone) ==
  /\ Len(dDeleted) + Cardinality(gone) <= MaxDeleted
  /\ \E order \in [1 .. Cardinality(gone) -> gone] :
       /\ \A id \in gone : \E i \in DOMAIN order : order[i] = id
       /\ dDeleted' = dDeleted \o [i \in DOMAIN order |-> Erased(gone)[order[i]]]
  /\ decals' = WithoutDecals(decals, gone)

\* OnMouseDownL in single mode: DeleteHoveredDecal_.
DecalSingleClick ==
  /\ dScreen = "Stripper" /\ ~dBrush
  /\ hover["Stripper"].id # NoDecal
  /\ DeleteDecals({hover["Stripper"].id} \cap DOMAIN decals)
  /\ hover' = [hover EXCEPT !["Stripper"] = NoHover]
  /\ UNCHANGED <<dPainter, dBrush, dLeft, dDirector>>

\* OnMouseDownL and OnMouseMove in brush mode; nothing is hovered then.
BrushStroke(gone) ==
  /\ dScreen = "Stripper" /\ dBrush
  /\ dLeft' \in {dLeft, TRUE}
  /\ gone # {} => dLeft'
  /\ DeleteDecals(gone)
  /\ UNCHANGED <<dPainter, hover, dBrush, dDirector>>

\* OnMouseUpL
DecalButtonUp ==
  /\ dLeft' = FALSE
  /\ UNCHANGED <<decals, dPainter, hover, dDeleted, dBrush, dDirector>>

\* B: the hover ends, or begins at the cursor.
ToggleDecalMode(id) ==
  /\ dScreen = "Stripper"
  /\ dBrush' = ~dBrush /\ dLeft' = FALSE
  /\ Hovering("Stripper", IF dBrush THEN id ELSE NoDecal)
  /\ UNCHANGED <<dPainter, dDeleted, dDirector>>

\* Ctrl+Z: one decal comes back under a new id, in the recorded state.
UndoDecalDeletion ==
  /\ dScreen = "Stripper" /\ dDeleted # <<>>
  /\ \E id \in FreshIds : decals' = WithDecal(decals, id, dDeleted[Len(dDeleted)])
  /\ dDeleted' = SubSeq(dDeleted, 1, Len(dDeleted) - 1)
  /\ UNCHANGED <<dPainter, hover, dBrush, dLeft, dDirector>>

\* Ctrl+Z when CreateDecal fails: the record is gone all the same.
DecalUndoFails ==
  /\ dScreen = "Stripper" /\ dDeleted # <<>>
  /\ dDeleted' = SubSeq(dDeleted, 1, Len(dDeleted) - 1)
  /\ UNCHANGED <<decals, dPainter, hover, dBrush, dLeft, dDirector>>

\* Esc and the right button: the hover ends; what else is held is let go.
EscInHoverer(t) ==
  /\ dScreen = t
  /\ Hovering(t, NoDecal)
  /\ dLeft' = (t = "Picker" /\ dLeft)
  /\ dCancel' = dCancel \cup {t}
  /\ UNCHANGED <<dPainter, dDeleted, dBrush, dScreen, dPainting, dPolicy, dLoaded>>

-----------------------------------------------------------------------------
(* The director and the game.                                              *)

\* ApplySwitchPolicy_
DecalsAfterPolicy ==
  CASE dPolicy = "Discard"     -> DecalsCancelled(decals)
    [] dPolicy = "Commit"      -> DecalsCommitted(decals)
    [] dPolicy = "KeepPending" -> decals
PolicyApplied == dUndo' = IF dPolicy = "KeepPending" THEN dUndo ELSE <<>>

\* ClearHoveredDecal_ of whichever tool hovers.
Unhovered(c) ==
  WithMode(WithMode(c, hover["Stripper"].id, hover["Stripper"].original),
           hover["Picker"].id, hover["Picker"].original)

FaultyDecalToolDropped(c) ==          \* the preview stays
  /\ decals' = Unhovered(c) /\ UNCHANGED dPreview
  /\ hover' = [t \in Hoverers |-> NoHover] /\ dLeft' = FALSE

\* View3D drops the current control: its Deactivate(), when the city holds c.
DecalToolDropped(c) ==
  /\ decals' = WithoutDecals(Unhovered(c), {dPreview}) /\ dPreview' = NoDecal
  /\ hover' = [t \in Hoverers |-> NoHover] /\ dLeft' = FALSE

\* The stripper's Deactivate() also delivers its cancel.
CancelAfterDrop == IF dScreen = "Stripper" THEN dCancel \ {"Stripper"} ELSE dCancel

\* StartDecalPainting while the painter is painting.
RetargetPainting(m) ==
  /\ dPainting /\ dScreen = "Painter"
  /\ template' = m
  /\ PolicyApplied
  /\ UNCHANGED <<shown, hover, dStripper, dDirector>>
  /\ SyncDecalPreview(DecalsAfterPolicy)

\* StartDecalPainting otherwise; View3D may refuse the control.
StartDecalPainting(m) ==
  /\ dLoaded /\ ~(dPainting /\ dScreen = "Painter")
  /\ template' = m
  /\ hover' = [t \in Hoverers |-> NoHover] /\ dLeft' = FALSE
  /\ dCancel' = CancelAfterDrop
  /\ \/ dScreen' = "Painter" /\ dPainting' = TRUE
     \/ dScreen' = "None" /\ UNCHANGED dPainting
  /\ UNCHANGED <<dUndo, shown, dDeleted, dBrush, dPolicy, dLoaded>>
  /\ SyncDecalPreview(Unhovered(decals))

\* Another tool starts: the stripper, the picker, or one that is not modelled
\* here (also when View3D refuses the control).  PrepareForExclusiveActivation_.
OtherToolStarts(t) ==
  /\ dLoaded
  /\ IF dPainting THEN PolicyApplied /\ DecalToolDropped(DecalsAfterPolicy)
                 ELSE UNCHANGED dUndo /\ DecalToolDropped(decals)
  /\ dScreen' = t /\ dPainting' = FALSE
  /\ dCancel' = CancelAfterDrop
  /\ UNCHANGED <<shown, template, dDeleted, dBrush, dPolicy, dLoaded>>

\* StopDecalPainting
StopDecalPainting ==
  /\ dUndo' = <<>>
  /\ IF dScreen = "Painter"
     THEN DecalToolDropped(DecalsCancelled(decals)) /\ dScreen' = "None"
     ELSE /\ decals' = DecalsCancelled(decals)
          /\ UNCHANGED <<dPreview, hover, dLeft, dScreen>>
  /\ dPainting' = FALSE
  /\ UNCHANGED <<shown, template, dDeleted, dBrush, dCancel, dPolicy, dLoaded>>

\* StopDecalStripping, StopDecalPicking; the game makes another control current.
DecalToolLeavesScreen ==
  /\ dScreen # "None"
  /\ DecalToolDropped(decals)
  /\ dScreen' = "None" /\ dCancel' = CancelAfterDrop
  /\ UNCHANGED <<dUndo, shown, template, dDeleted, dBrush, dPainting, dPolicy, dLoaded>>

\* ProcessPendingActions of tool t on a tick: the cancel is delivered.
DecalTick(t) ==
  /\ t \in dCancel
  /\ dCancel' = dCancel \ {t}
  /\ IF dScreen = t
     THEN DecalToolDropped(decals) /\ dScreen' = "None"
     ELSE UNCHANGED <<decals, dPreview, hover, dLeft, dScreen>>
  /\ dPainting' = (dPainting /\ t # "Painter")
  /\ UNCHANGED <<dUndo, shown, template, dDeleted, dBrush, dPolicy, dLoaded>>

\* PreCityShutdown_: both tools stop, the stripper loses the service.
DecalCityShutdown ==
  /\ dLoaded /\ dLoaded' = FALSE
  /\ DecalToolDropped(DecalsCancelled(decals)) /\ dUndo' = <<>>
  /\ dScreen' = "None" /\ dPainting' = FALSE
  /\ dCancel' = CancelAfterDrop
  /\ dDeleted' = <<>>
  /\ UNCHANGED <<shown, template, dBrush, dPolicy>>

\* The city is loaded again with the decals it was saved with.
DecalCityInit ==
  /\ ~dLoaded /\ dLoaded' = TRUE
  /\ UNCHANGED <<decals, dPainter, hover, dStripper, dScreen, dPainting, dCancel, dPolicy>>

\* Something else removes a decal.
DecalVanishes(id) ==
  /\ id \in DOMAIN decals
  /\ decals' = WithoutDecals(decals, {id})
  /\ UNCHANGED <<dPainter, hover, dStripper, dDirector>>

-----------------------------------------------------------------------------
DecalInit ==
  /\ decals = <<>> /\ dUndo = <<>> /\ dDeleted = <<>>
  /\ dPreview = NoDecal /\ shown = TRUE /\ template = 0
  /\ hover = [t \in Hoverers |-> NoHover]
  /\ dBrush = FALSE /\ dLeft = FALSE
  /\ dScreen = "None" /\ dPainting = FALSE /\ dCancel = {} /\ dLoaded = FALSE
  /\ dPolicy \in Policies

DecalPainter ==
  \/ Place \/ MoveOrAdjust \/ CycleDecalPreview \/ UndoDecalPlacement
  \/ Enter \/ EscInDecalPainter
  \/ \E m \in OwnModes : RetargetPainting(m) \/ StartDecalPainting(m)
  \/ StopDecalPainting

DecalHovering ==
  \/ \E t \in Hoverers :
       EscInHoverer(t) \/ \E id \in DOMAIN decals \cup {NoDecal} : MoveHovering(t, id)
  \/ \E id \in DOMAIN decals \cup {NoDecal} : ToggleDecalMode(id)
  \/ DecalSingleClick \/ DecalButtonUp
  \/ \E gone \in SUBSET DOMAIN decals : BrushStroke(gone)
  \/ UndoDecalDeletion \/ DecalUndoFails

DecalDirector ==
  \/ \E t \in Hoverers \cup {"None"} : OtherToolStarts(t)
  \/ \E t \in Tools : DecalTick(t)
  \/ DecalToolLeavesScreen \/ DecalCityShutdown \/ DecalCityInit

DecalNext ==
  \/ DecalPainter \/ DecalHovering \/ DecalDirector
  \/ \E id \in Ids : DecalVanishes(id)

DecalSpec == DecalInit /\ [][DecalNext]_dVars

-----------------------------------------------------------------------------
(* Properties.                                                             *)

\* The draw mode a decal has when the hover over it ends.
Rest(id) ==
  IF \E t \in Hoverers : hover[t].id = id
  THEN hover[CHOOSE t \in Hoverers : hover[t].id = id].original
  ELSE decals[id].mode

\* Every variable has a value of its type.
DecalTypeOK ==
  /\ DOMAIN decals \subseteq Ids
  /\ \A id \in DOMAIN decals : decals[id] \in [mode : Nat, own : Nat]
  /\ dUndo \in Seq([id : Ids, committed : Nat])
  /\ dDeleted \in Seq([mode : Nat, own : Nat])
  /\ dPreview \in Ids \cup {NoDecal} /\ template \in OwnModes \cup {0}
  /\ hover \in [Hoverers -> [id : Ids \cup {NoDecal}, original : Nat]]
  /\ {shown, dBrush, dLeft, dPainting, dLoaded} \subseteq BOOLEAN
  /\ dScreen \in Tools \cup {"None"} /\ dCancel \subseteq Tools /\ dPolicy \in Policies

\* What undo, commit and cancel still reach stands out in the city, whatever
\* the other tools hovered in between, and the undo stack keeps its limit.
PendingDecalsStandOut ==
  /\ Len(dUndo) <= MaxUndoGroups
  /\ \A id \in PendingIds \cap DOMAIN decals : decals[id].mode = Highlight

\* A decal stands out for the hover only while the tool that hovers it is on
\* screen, and then it does.
HoverOnScreen ==
  \A t \in Hoverers : hover[t].id # NoDecal =>
    /\ dScreen = t
    /\ hover[t].id \in DOMAIN decals => decals[hover[t].id].mode = Highlight

\* Nothing provisional outlives its time.  The preview decal is a real decal of
\* the city: it is gone whenever the painter is, and it is never one of the
\* placements.  Between cities no tool keeps a record of the city that was left.
NoDecalLeftBehind ==
  /\ dPreview # NoDecal => ShowsPreview /\ dPreview \notin PendingIds
  /\ ~dLoaded => dUndo = <<>> /\ dDeleted = <<>> /\ dPreview = NoDecal /\ dScreen = "None"

\* Hovering leaves no trace: the mode a decal will have when the hover ends
\* changes when a placement is committed or trimmed, to its own, and not else.
HoverLeavesNoTrace ==
  [][\A id \in DOMAIN decals \cap DOMAIN decals' :
       Rest(id)' = IF id \in PendingIds \ PendingIds' THEN decals'[id].own
                   ELSE Rest(id)]_dVars

\* How many decals in state d are in the city or on the stripper's undo stack.
DecalTotal(d) ==
  Cardinality({id \in DOMAIN decals : InMode(decals[id], Rest(id)) = d})
  + Cardinality({i \in DOMAIN dDeleted : dDeleted[i] = d})

\* Stripping and undoing neither lose nor duplicate a decal, and it comes back
\* in the state it had before it was hovered.
NoDecalLost ==
  [][(\A d \in [mode : OwnModes \cup {Highlight}, own : OwnModes] :
        DecalTotal(d)' = DecalTotal(d))
     \/ DecalUndoFails \/ ~DecalHovering]_dVars

\* docs/USAGE.md: placements are in a "temporary highlighted state": no decal is
\* saved with the city highlighted.
HighlightIsTemporary ==
  ~dLoaded => \A id \in DOMAIN decals : decals[id].mode = decals[id].own
=============================================================================
