------------------------------ MODULE Painter ------------------------------
(***************************************************************************)
(* The prop paint tool: BasePainterInputControl (state machine, undo       *)
(* groups, commit and cancel, sketch, preview synchronisation) with the    *)
(* city side of PropPainterInputControl (placed occupants, the preview     *)
(* occupant) and the director calls that start, stop and replace it.       *)
(*                                                                         *)
(* Every input handler of the control runs to completion on the game's     *)
(* thread, so a handler is one action.  What can happen between handlers   *)
(* is an action too: the frame tick, another tool, the game, the calendar. *)
(***************************************************************************)
EXTENDS Naturals, Sequences

CONSTANTS
  Occ,            \* occupants (props) that can exist in the city
  NoOcc,          \* a null occupant pointer
  Types,          \* prop types that can be painted
  NoType,         \* type id 0
  Palettes,       \* values of settings_.activePalette, {} for a single type
  StartPreviews,  \* bound: preview modes a start asks for (P reaches them all)
  MaxUndoGroups,  \* Undo::kMaxUndoGroups
  MaxGroup,       \* bound: occupants one click or one Enter places
  MaxPoints       \* bound: points of a sketch

ASSUME OccAssumption == NoOcc \notin Occ
ASSUME TypesAssumption == NoType \notin Types /\ Palettes \subseteq SUBSET Types
ASSUME BoundsAssumption ==
  /\ StartPreviews \subseteq {"Outline", "FullModel", "Combined", "Hidden"}
  /\ MaxUndoGroups \in Nat \ {0}
  /\ MaxGroup \in Nat
  /\ MaxPoints \in Nat

VARIABLES
  state,          \* state_
  target,         \* typeToPaint_
  palette,        \* settings_.activePalette
  direct,         \* directPaintTypeID_: the type the next click places
  mode,           \* settings_.mode
  previewMode,    \* settings_.previewMode
  points,         \* collectedPoints_.size()
  preview,        \* previewOccupant_
  previewType,    \* previewOccupantTypeID_
  stale,          \* the preview shows a seasonal member that is out of season
  undoStack,      \* undoStack_: groups of occupants, the newest last
  inCity,         \* occupants that are in the city
  marked,         \* occupants in the city highlighted as pending (0x9)
  cancelPending,  \* cancelPending_
  manager,        \* city_ and propManager_ are set
  current,        \* View3D's current input control is this one
  painting,       \* the director's propPainting_
  policy          \* the director's paintSwitchPolicy_

world     == <<undoStack, inCity, marked>>
previewed == <<preview, previewType, stale>>
chosen    == <<target, palette, direct, mode, previewMode>>
session   == <<cancelPending, manager, current, painting, policy>>
vars      == <<state, chosen, points, previewed, world, session>>

ReadyStates  == {"ReadyNoTarget", "ReadyWithTarget"}
TargetActiveStates == {"ActiveDirect", "ActiveLine", "ActivePolygon"}
ActiveStates == TargetActiveStates \cup {"ActiveNoTarget"}
States       == {"Uninitialized"} \cup ReadyStates \cup ActiveStates
Modes        == {"Direct", "Line", "Polygon"}
PreviewModes == {"Outline", "FullModel", "Combined", "Hidden"}
Policies     == {"Discard", "Commit", "KeepPending"}

ActiveStateForMode(m) ==
  CASE m = "Direct"  -> "ActiveDirect"
    [] m = "Line"    -> "ActiveLine"
    [] m = "Polygon" -> "ActivePolygon"

ReadyState == IF target = NoType THEN "ReadyNoTarget" ELSE "ReadyWithTarget"

\* Input handlers return at once unless the control is active and on top.
TakesInput == state \in TargetActiveStates /\ current

HasPendingSketch == state \in {"ActiveLine", "ActivePolygon"} /\ points > 0

-----------------------------------------------------------------------------
(* Undo groups.                                                            *)

OccupantsOf(us) == {o \in Occ : \E i \in DOMAIN us : \E j \in DOMAIN us[i] : us[i][j] = o}
PendingOcc == OccupantsOf(undoStack)

\* Sequences of distinct occupants that nothing refers to: what one placement
\* loop can add.  A CreateProp or AddCityProp that fails leaves its prop out.
Fresh == Occ \ (inCity \cup PendingOcc)
PlaceResults ==
  {s \in UNION {[1 .. n -> Fresh] : n \in 0 .. MaxGroup} :
     \A i, j \in DOMAIN s : i # j => s[i] # s[j]}

\* TrimUndoStack_: the oldest groups beyond the limit lose their highlight.
Excess(us) == IF Len(us) > MaxUndoGroups THEN Len(us) - MaxUndoGroups ELSE 0
FaultyForgotten(us) == {}   \* trimming leaves the highlight on
Forgotten(us) == {o \in Occ : \E i \in 1 .. Excess(us) : \E j \in DOMAIN us[i] : us[i][j] = o}
FaultyTrimmed(us) == us      \* no limit
Trimmed(us) == SubSeq(us, Excess(us) + 1, Len(us))

\* RemovePropA needs the manager; it removes what is still in the city.
RemoveFrom(place, gone, mgr) == IF mgr THEN place \ gone ELSE place

\* The world after each operation on the undo stack.
FaultyAfterPlacing(s) ==     \* the new occupants are not highlighted
  [stack |-> Append(undoStack, s), city |-> inCity \cup {s[i] : i \in DOMAIN s}, marks |-> marked]

AfterPlacing(s) ==
  LET us == IF s = <<>> THEN undoStack ELSE Append(undoStack, s)
      new == {s[i] : i \in DOMAIN s}
  IN [stack |-> Trimmed(us),
      city  |-> inCity \cup new,
      marks |-> (marked \cup new) \ Forgotten(us)]

AfterRemoving(us, gone) ==
  [stack |-> us,
   city  |-> RemoveFrom(inCity, gone, manager),
   marks |-> RemoveFrom(marked, gone, manager)]

AfterUndo ==
  LET n == Len(undoStack) IN
  AfterRemoving(SubSeq(undoStack, 1, n - 1),
                {undoStack[n][j] : j \in DOMAIN undoStack[n]})

AfterUndoInGroup ==
  LET n == Len(undoStack)
      group == undoStack[n]
      rest == SubSeq(group, 1, Len(group) - 1)
      below == SubSeq(undoStack, 1, n - 1)
  IN AfterRemoving(IF rest = <<>> THEN below ELSE Append(below, rest),
                   {group[Len(group)]})

AfterCancel == AfterRemoving(<<>>, PendingOcc)

AfterCommit == [stack |-> <<>>, city |-> inCity, marks |-> marked \ PendingOcc]

Unaltered == [stack |-> undoStack, city |-> inCity, marks |-> marked]

\* ApplySwitchPolicy_
AfterPolicy ==
  CASE policy = "Discard"     -> AfterCancel
    [] policy = "Commit"      -> AfterCommit
    [] policy = "KeepPending" -> Unaltered

-----------------------------------------------------------------------------
(* The preview occupant.                                                   *)

ShowsModel == state = "ActiveDirect" /\ previewMode \in {"FullModel", "Combined"}

NoPreview == preview' = NoOcc /\ previewType' = NoType /\ stale' = FALSE

\* DestroyPreviewOccupant_, when the city holds w.
DestroyPreview(w) == NoPreview /\ inCity' = RemoveFrom(w, {preview}, manager)

\* SyncPreviewForState_, when the city holds w and the preview's staleness is
\* stl.  A preview of the wrong type is replaced, creating one can fail.
SyncPreview(w, stl) ==
  LET keep == preview # NoOcc /\ previewType = direct' /\ ~stl
      without == RemoveFrom(w, {preview}, manager')
  IN \/ /\ ShowsModel' /\ keep
        /\ inCity' = w
        /\ UNCHANGED <<preview, previewType>>
        /\ stale' = FALSE
     \/ /\ ShowsModel' /\ ~keep /\ manager'
        /\ \E o \in Occ \ (w \cup PendingOcc') :
             preview' = o /\ inCity' = without \cup {o}
        /\ previewType' = direct' /\ stale' = FALSE
     \/ /\ ~(ShowsModel' /\ keep)
        /\ NoPreview
        /\ inCity' = without

\* ResetDirectPaintPicker_ and AdvanceDirectPaintType_: the weighted picker
\* draws any type of the palette; without a palette it is the target.
PickFrom(t, pal) == IF pal = {} THEN {t} ELSE pal

FaultyDeactivate(w) ==       \* the preview is not destroyed
  /\ points' = 0 /\ state' = ReadyState /\ current' = FALSE
  /\ inCity' = w /\ UNCHANGED previewed

\* Deactivate(), called by View3D when it drops the control.
Deactivate(w) ==
  /\ points' = 0
  /\ state' = ReadyState
  /\ DestroyPreview(w)
  /\ current' = FALSE

-----------------------------------------------------------------------------
(* Input handlers.                                                         *)

\* OnMouseDownL in direct mode: PlaceTypeAt_.  Nothing is placed when the
\* terrain pick or every CreateProp fails; then the preview is left alone.
ClickDirect ==
  /\ TakesInput /\ state = "ActiveDirect"
  /\ manager
  /\ \E s \in PlaceResults \ {<<>>} : LET r == AfterPlacing(s) IN
       /\ undoStack' = r.stack /\ marked' = r.marks
       /\ direct' \in PickFrom(target, palette)
       /\ UNCHANGED <<state, target, palette, mode, previewMode, points, session>>
       /\ SyncPreview(r.city, stale)

\* OnMouseDownL in line and polygon mode: one more sketch point.
ClickSketch ==
  /\ TakesInput /\ state \in {"ActiveLine", "ActivePolygon"}
  /\ points < MaxPoints
  /\ points' = points + 1
  /\ UNCHANGED <<state, chosen, previewed, world, session>>

\* OnMouseMove, and the keys that change what the preview looks like but not
\* what is placed (R, G, H, Shift+S, brackets, 0, minus, plus).
MoveOrAdjust ==
  /\ TakesInput
  /\ UNCHANGED <<state, chosen, points, undoStack, marked, session>>
  /\ SyncPreview(inCity, stale)

\* P
CyclePreviewMode ==
  /\ TakesInput
  /\ previewMode' = CASE previewMode = "Outline"   -> "FullModel"
                      [] previewMode = "FullModel" -> "Combined"
                      [] previewMode = "Combined"  -> "Hidden"
                      [] previewMode = "Hidden"    -> "Outline"
  /\ UNCHANGED <<state, target, palette, direct, mode, points, undoStack, marked, session>>
  /\ SyncPreview(inCity, stale)

\* Backspace
RemoveSketchPoint ==
  /\ TakesInput /\ HasPendingSketch
  /\ points' = points - 1
  /\ UNCHANGED <<state, chosen, previewed, world, session>>

\* Ctrl+Z
UndoLastPlacement ==
  /\ TakesInput /\ undoStack # <<>>
  /\ LET r == AfterUndo IN undoStack' = r.stack /\ inCity' = r.city /\ marked' = r.marks
  /\ UNCHANGED <<state, chosen, points, previewed, session>>

\* Ctrl+Backspace
UndoLastPlacementInGroup ==
  /\ TakesInput /\ undoStack # <<>>
  /\ LET r == AfterUndoInGroup IN undoStack' = r.stack /\ inCity' = r.city /\ marked' = r.marks
  /\ UNCHANGED <<state, chosen, points, previewed, session>>

SketchComplete == (state = "ActiveLine" /\ points >= 2) \/ (state = "ActivePolygon" /\ points >= 3)

\* Enter on a complete sketch: the whole batch is one undo group.
PlaceSketch ==
  /\ TakesInput /\ SketchComplete
  /\ \E s \in PlaceResults : LET r == AfterPlacing(s) IN
       /\ (s # <<>> => manager)
       /\ undoStack' = r.stack /\ inCity' = r.city /\ marked' = r.marks
  /\ points' = 0
  /\ UNCHANGED <<state, chosen, previewed, session>>

\* Enter otherwise: CommitPlacements.  An unfinished sketch stays.
EnterCommits ==
  /\ TakesInput /\ ~SketchComplete
  /\ LET r == AfterCommit IN undoStack' = r.stack /\ inCity' = r.city /\ marked' = r.marks
  /\ UNCHANGED <<state, chosen, points, previewed, session>>

\* Esc and the right button: everything pending goes now, leaving paint mode
\* waits for the next tick.
EscOrRightClick ==
  /\ TakesInput
  /\ LET r == AfterCancel IN undoStack' = r.stack /\ inCity' = r.city /\ marked' = r.marks
  /\ points' = 0
  /\ cancelPending' = TRUE
  /\ UNCHANGED <<state, chosen, previewed, manager, current, painting, policy>>

-----------------------------------------------------------------------------
(* The director and the game.                                              *)

\* ProcessPendingActions() on a frame tick: deliver the cancel (onCancel_ drops
\* the control and clears propPainting_), or refresh a stale preview.
Tick ==
  \/ /\ cancelPending /\ current
     /\ cancelPending' = FALSE /\ painting' = FALSE
     /\ Deactivate(inCity)
     /\ UNCHANGED <<chosen, undoStack, marked, manager, policy>>
  \/ /\ cancelPending /\ ~current
     /\ cancelPending' = FALSE /\ painting' = FALSE
     /\ UNCHANGED <<state, chosen, points, previewed, world, manager, current, policy>>
  \/ /\ ~cancelPending /\ preview # NoOcc /\ stale
     /\ UNCHANGED <<state, chosen, points, undoStack, marked, session>>
     /\ SyncPreview(inCity, stale)

\* SetTypeToPaint: new target, settings and picker.
Choose(t, pal, m, pm) ==
  /\ target' = t /\ palette' = pal /\ mode' = m /\ previewMode' = pm
  /\ direct' \in PickFrom(t, pal)
  /\ points' = IF t # target THEN 0 ELSE points

\* StartPropPainting while this control is already painting: the switch policy
\* decides about what is pending, an unfinished sketch blocks the switch.
RetargetPainting(t, pal, m, pm) ==
  /\ painting /\ current /\ ~HasPendingSketch
  /\ manager' = TRUE
  /\ Choose(t, pal, m, pm)
  /\ state' = ActiveStateForMode(m)
  /\ UNCHANGED <<cancelPending, current, painting, policy>>
  /\ LET r == AfterPolicy IN
       /\ undoStack' = r.stack /\ marked' = r.marks
       /\ \/ SyncPreview(r.city, stale \/ t # target)
          \/ SyncPreview(r.city, TRUE)     \* paintSeasonalSets was changed

\* StartPropPainting otherwise: the control becomes View3D's current one.
StartPainting(t, pal, m, pm) ==
  /\ ~(painting /\ current)
  /\ manager' = TRUE
  /\ Choose(t, pal, m, pm)
  /\ state' = ActiveStateForMode(m)
  /\ current' = TRUE /\ painting' = TRUE
  /\ UNCHANGED <<undoStack, marked, cancelPending, policy>>
  /\ SyncPreview(inCity, TRUE)

\* The same when View3D refuses the control.
StartRefused(t, pal, m, pm) ==
  /\ ~(painting /\ current)
  /\ manager' = TRUE
  /\ Choose(t, pal, m, pm)
  /\ state' = "ReadyWithTarget"
  /\ UNCHANGED <<undoStack, marked, cancelPending, current, painting, policy>>
  /\ DestroyPreview(inCity)

\* CancelAllPlacements() and RemoveCurrentViewInputControl().
CancelAndDrop ==
  /\ LET r == AfterCancel IN
       /\ undoStack' = r.stack /\ marked' = r.marks
       /\ IF current THEN Deactivate(r.city)
          ELSE inCity' = r.city /\ points' = 0 /\ UNCHANGED <<state, previewed, current>>
  /\ painting' = FALSE

\* StopPropPainting
StopPainting ==
  /\ state # "Uninitialized"
  /\ CancelAndDrop
  /\ UNCHANGED <<chosen, cancelPending, manager, policy>>

\* PrepareForPaintSwitch_: another tool starts.
ReplacedByTool ==
  /\ painting /\ ~HasPendingSketch
  /\ LET r == AfterPolicy IN
       /\ undoStack' = r.stack /\ marked' = r.marks
       /\ IF current THEN Deactivate(r.city)
          ELSE inCity' = r.city /\ UNCHANGED <<state, points, previewed, current>>
  /\ painting' = FALSE
  /\ UNCHANGED <<chosen, cancelPending, manager, policy>>

\* The game makes another control current: Deactivate() and nothing else.
ReplacedByGame ==
  /\ current
  /\ Deactivate(inCity)
  /\ UNCHANGED <<chosen, undoStack, marked, cancelPending, manager, painting, policy>>

FaultyLeaveCity ==           \* the control is dropped without a cancel
  /\ DestroyPreview(inCity) /\ UNCHANGED <<undoStack, marked>>
  /\ points' = 0
  /\ current' = FALSE /\ painting' = FALSE /\ manager' = FALSE

\* StopPropPainting, then SetCity(nullptr): preview and sketch go before the
\* manager does.  The occupants that stay are what the city is saved with.
LeaveCity ==
  /\ LET r == AfterCancel IN
       undoStack' = r.stack /\ marked' = r.marks /\ DestroyPreview(r.city)
  /\ points' = 0
  /\ current' = FALSE /\ painting' = FALSE /\ manager' = FALSE

\* PreCityShutdown_
CityShutdown ==
  /\ manager
  /\ LeaveCity
  /\ state' = (IF current THEN ReadyState ELSE state)
  /\ UNCHANGED <<chosen, cancelPending, policy>>

\* PostAppShutdown destroys the control; the next start of the game reads the
\* settings again and begins without one.
AppShutdown ==
  /\ state # "Uninitialized"
  /\ LeaveCity
  /\ state' = "Uninitialized"
  /\ target' = NoType /\ palette' = {} /\ direct' = NoType
  /\ mode' = "Direct" /\ previewMode' = "FullModel"
  /\ cancelPending' = FALSE
  /\ policy' \in Policies

\* Something else (another tool, the bulldozer) removes an occupant.
RemovedByOthers(o) ==
  /\ o \in inCity /\ o # preview
  /\ inCity' = inCity \ {o} /\ marked' = marked \ {o}
  /\ UNCHANGED <<state, chosen, points, previewed, undoStack, session>>

\* The simulation date changes the member of a seasonal set that is in season.
DateChanges ==
  /\ preview # NoOcc
  /\ stale' = ~stale
  /\ UNCHANGED <<state, chosen, points, preview, previewType, world, session>>

-----------------------------------------------------------------------------
Init ==
  /\ state = "Uninitialized"
  /\ target = NoType /\ palette = {} /\ direct = NoType
  /\ mode = "Direct" /\ previewMode = "FullModel"
  /\ points = 0
  /\ preview = NoOcc /\ previewType = NoType /\ stale = FALSE
  /\ undoStack = <<>> /\ inCity = {} /\ marked = {}
  /\ cancelPending = FALSE /\ manager = FALSE
  /\ current = FALSE /\ painting = FALSE
  /\ policy \in Policies

Input ==
  \/ ClickDirect \/ ClickSketch \/ MoveOrAdjust \/ CyclePreviewMode
  \/ RemoveSketchPoint \/ UndoLastPlacement \/ UndoLastPlacementInGroup
  \/ PlaceSketch \/ EnterCommits \/ EscOrRightClick

Start ==
  \E t \in Types, pal \in Palettes, m \in Modes, pm \in StartPreviews :
    RetargetPainting(t, pal, m, pm) \/ StartPainting(t, pal, m, pm) \/ StartRefused(t, pal, m, pm)

Director == Tick \/ Start \/ StopPainting \/ ReplacedByTool \/ CityShutdown \/ AppShutdown

Others == ReplacedByGame \/ DateChanges \/ \E o \in Occ : RemovedByOthers(o)

Next == Input \/ Director \/ Others

Spec == Init /\ [][Next]_vars

-----------------------------------------------------------------------------
(* Properties.                                                             *)

\* Every variable has a value of its type.
TypeOK ==
  /\ state \in States
  /\ target \in Types \cup {NoType} /\ direct \in Types \cup {NoType}
  /\ palette \in SUBSET Types
  /\ mode \in Modes /\ previewMode \in PreviewModes
  /\ points \in Nat
  /\ preview \in Occ \cup {NoOcc} /\ previewType \in Types \cup {NoType}
  /\ stale \in BOOLEAN
  /\ undoStack \in Seq(Seq(Occ))
  /\ inCity \in SUBSET Occ /\ marked \in SUBSET Occ
  /\ cancelPending \in BOOLEAN /\ manager \in BOOLEAN
  /\ current \in BOOLEAN /\ painting \in BOOLEAN
  /\ policy \in Policies

\* The undo stack is usable: no more than kMaxUndoGroups groups, no empty
\* group (Ctrl+Z would seem to do nothing), no occupant recorded twice (a
\* second undo would remove something already gone).
UndoStackSound ==
  /\ Len(undoStack) <= MaxUndoGroups
  /\ \A i \in DOMAIN undoStack : undoStack[i] # <<>>
  /\ \A i, k \in DOMAIN undoStack : \A j \in DOMAIN undoStack[i], l \in DOMAIN undoStack[k] :
       undoStack[i][j] = undoStack[k][l] => i = k /\ j = l

\* The highlight tells the truth: the occupants highlighted as pending are the
\* ones undo, cancel and commit still reach, through every order of undoing,
\* trimming, switching tools, leaving the city and removal by others.
HighlightIsPending == marked = PendingOcc \cap inCity

\* The preview occupant is a real city prop, so it must never outlive the mode
\* that shows it or be taken for a painted one: it exists only while this
\* control paints in direct mode with a model preview, shows the type the next
\* click places, and is in the city but on no undo group.
PreviewConfined ==
  preview # NoOcc =>
    /\ ShowsModel /\ current /\ manager
    /\ previewType = direct
    /\ preview \in inCity
    /\ preview \notin PendingOcc

\* The control on screen is one the director knows to be painting, with a
\* target and in the state of its mode: otherwise Stop and the switch policy
\* pass it by.
OnScreenIsPainting ==
  current => /\ painting /\ manager
             /\ target # NoType
             /\ state = ActiveStateForMode(mode)

\* Between cities nothing provisional is left: no highlighted occupant and no
\* preview is saved with the city, no undo record dangles into the next one.
NothingProvisionalSaved ==
  ~manager => preview = NoOcc /\ marked = {} /\ undoStack = <<>> /\ points = 0

Permanent == inCity \ (marked \cup {preview})

\* Nothing the tool does takes a permanent occupant out of the city.
PermanentStays ==
  [][Permanent \subseteq Permanent' \/ \E o \in Occ : RemovedByOthers(o)]_vars

\* An occupant becomes permanent only if it was painted and pending before: a
\* preview is never left behind, a placement is never permanent at once.
OnlyPendingBecomesPermanent == [][Permanent' \ Permanent \subseteq marked]_vars

\* The abstract specification the tool implements.
Abstract == INSTANCE PendingPlacements WITH pending <- marked, permanent <- Permanent
ImplementsPendingPlacements == Abstract!PSpec

\* docs/USAGE.md: "Esc or right-click: cancel all pending placements and leave
\* paint mode".  When the tick delivers the cancel nothing is left pending.
CancelLeavesNothingPending ==
  [][cancelPending /\ painting /\ ~painting' /\ ~cancelPending' => marked' = {}]_vars
=============================================================================
