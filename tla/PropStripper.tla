---------------------------- MODULE PropStripper ----------------------------
(***************************************************************************)
(* The prop stripper: PropStripperInputControl with the props of the city,  *)
(* the hover highlight, single and brush deletion, the undo groups, and the *)
(* director calls that start and stop it.  Distances are abstracted to      *)
(* places: the props at the cursor's place are the ones within the radius,  *)
(* and two props at one place are at the same position.                    *)
(***************************************************************************)
EXTENDS Naturals, Sequences, FiniteSets, Functions

CONSTANTS
  Occ,           \* occupants that can exist
  NoOcc,         \* a null occupant pointer
  Props,         \* what a prop is: [source, type, place]
  SeasonalSet,   \* the types of a seasonal set
  NoPlace,       \* the cursor is not over the terrain
  LoadedCity,    \* the props of a city when it is loaded, by occupant
  Batches,       \* bound: what the paint tool may leave pending at once
  CheckBoxes,    \* bound: the combinations of sources that get checked
  MaxUndo,       \* bound: undo groups
  MaxProps       \* bound: props in the city and on the undo stack

Sources == {"City", "Lot", "Street"}
Places == {p.place : p \in Props}

ASSUME StripperAssumption ==
  /\ IsFiniteSet(Occ)
  /\ NoOcc \notin Occ /\ NoPlace \notin Places
  /\ \A p \in Props : p.source \in Sources
  /\ DOMAIN LoadedCity \subseteq Occ /\ Range(LoadedCity) \subseteq Props
  /\ Batches \subseteq SUBSET Props
  /\ CheckBoxes \subseteq SUBSET Sources
  /\ MaxUndo \in Nat /\ MaxProps \in Nat

VARIABLES
  city,       \* the props in the city, by occupant
  lit,        \* the props in the city that are highlighted
  pending,    \* occupants the paint tool left pending (KeepPending)
  hovered,    \* hoveredOccupant_
  undoStack,  \* undoStack_: groups of deleted props, how many of each kind
  mode,       \* stripMode_
  leftDown,   \* leftMouseDown_
  cursor,     \* currentCursorWorld_, or NoPlace when it is not valid
  sources,    \* enabledSources_
  active,     \* active_, the control is View3D's current one
  cancel,     \* cancelPending_
  manager     \* propManager_ is set

vars == <<city, lit, pending, hovered, undoStack, mode, leftDown, cursor,
          sources, active, cancel, manager>>

-----------------------------------------------------------------------------
(* Hovering, deleting, restoring.                                          *)

\* SetHighlight(0) on o, when l is lit.
Unlit(l, o) == l \ {o}

FaultyClearHover == hovered' = NoOcc /\ UNCHANGED lit   \* the highlight stays on

\* ClearHoveredProp_
ClearHover == hovered' = NoOcc /\ lit' = Unlit(lit, hovered)

\* CollectCandidateProps_ within the radius around place c.
Candidates(c) == {o \in DOMAIN city : city[o].place = c /\ city[o].source \in sources}

\* PickNearestProp_ around place c: the nearest one is any of them.
PickNearest(c) ==
  \/ /\ Candidates(c) = {} /\ ClearHover
  \/ /\ hovered \in Candidates(c) /\ UNCHANGED <<hovered, lit>>
  \/ \E o \in Candidates(c) \ {hovered} :
       hovered' = o /\ lit' = Unlit(lit, hovered) \cup {o}

FaultyRecorded(gone) ==      \* everything comes back as a city prop
  [p \in Props |-> Cardinality({o \in gone : p = [city[o] EXCEPT !.source = "City"]})]

\* DeletedPropInfo of the props that are removed: how many of each kind.
Recorded(gone) == [p \in Props |-> Cardinality({o \in gone : city[o] = p})]

\* The props gone leave the city as one undo group.
Delete(gone) ==
  /\ city' = Restrict(city, DOMAIN city \ gone)
  /\ undoStack' = IF gone = {} THEN undoStack ELSE Append(undoStack, Recorded(gone))

FaultySiblings(o) == {}      \* the other members of the set stay

\* RemoveSeasonalSetSiblings_: other members of the set at the same position.
Siblings(o) ==
  {q \in Candidates(city[o].place) :
     /\ city[o].type \in SeasonalSet /\ city[q].type \in SeasonalSet
     /\ city[q].type # city[o].type}

\* How often p is in the city or on the undo stack.
Total(p) ==
  Cardinality({o \in DOMAIN city : city[o] = p})
  + Cardinality(UNION {{i} \X (1 .. undoStack[i][p]) : i \in DOMAIN undoStack})

\* New occupants for a group: nothing refers to them yet.
Fresh == Occ \ (DOMAIN city \cup pending \cup {hovered})

\* The cities with the props of the records rec re-created as new occupants.
Restored(rec) ==
  {[o \in DOMAIN city \cup DOMAIN g |-> IF o \in DOMAIN city THEN city[o] ELSE g[o]] :
   g \in {h \in UNION {[new -> Props] : new \in SUBSET Fresh} :
            \A p \in Props : Cardinality({o \in DOMAIN h : h[o] = p}) = rec[p]}}

-----------------------------------------------------------------------------
(* Input.                                                                  *)

\* OnMouseMove
Move(c) ==
  /\ active
  /\ cursor' = c
  /\ IF mode = "Brush"
     THEN /\ hovered' = NoOcc
          /\ LET gone == IF leftDown THEN Candidates(c) ELSE {} IN
               /\ Len(undoStack) < MaxUndo \/ gone = {}
               /\ Delete(gone)
               /\ lit' = Unlit(lit, hovered) \ gone
     ELSE PickNearest(c) /\ UNCHANGED <<city, undoStack>>
  /\ UNCHANGED <<pending, mode, leftDown, sources, active, cancel, manager>>

\* OnMouseDownL in brush mode: the button counts even off the terrain.
BrushClick ==
  /\ active /\ mode = "Brush"
  /\ leftDown' = TRUE
  /\ Len(undoStack) < MaxUndo \/ Candidates(cursor) = {}
  /\ Delete(Candidates(cursor)) /\ lit' = lit \ Candidates(cursor)
  /\ UNCHANGED <<pending, hovered, mode, cursor, sources, active, cancel, manager>>

\* OnMouseUpL
ButtonUp ==
  /\ leftDown' = FALSE
  /\ UNCHANGED <<city, lit, pending, hovered, undoStack, mode, cursor, sources,
                 active, cancel, manager>>

\* OnMouseDownL in single mode: DeleteHoveredProp_.  The prop may be gone
\* already; then nothing is recorded.
SingleClick ==
  /\ active /\ mode = "Single"
  /\ cursor # NoPlace /\ hovered # NoOcc
  /\ LET gone == IF hovered \in DOMAIN city THEN {hovered} \cup Siblings(hovered) ELSE {} IN
       /\ Len(undoStack) < MaxUndo
       /\ Delete(gone)
       /\ lit' = lit \ ({hovered} \cup gone)
  /\ hovered' = NoOcc
  /\ UNCHANGED <<pending, mode, leftDown, cursor, sources, active, cancel, manager>>

\* Ctrl+Z when every prop of the last group can be re-created.
UndoLastDeletion ==
  /\ active /\ undoStack # <<>>
  /\ city' \in Restored(undoStack[Len(undoStack)])
  /\ undoStack' = SubSeq(undoStack, 1, Len(undoStack) - 1)
  /\ UNCHANGED <<lit, pending, hovered, mode, leftDown, cursor, sources, active, cancel, manager>>

\* Ctrl+Z when CreateProp, SetPosition or AddXProp fails for some of them: the
\* rest comes back, the group is gone all the same.
UndoPartly ==
  /\ active /\ undoStack # <<>>
  /\ LET group == undoStack[Len(undoStack)] IN
       \E ok \in [Props -> 0 .. Cardinality(Occ)] :
         /\ \A p \in Props : ok[p] <= group[p]
         /\ ok # group /\ city' \in Restored(ok)
  /\ undoStack' = SubSeq(undoStack, 1, Len(undoStack) - 1)
  /\ UNCHANGED <<lit, pending, hovered, mode, leftDown, cursor, sources, active, cancel, manager>>

\* B
ToggleMode ==
  /\ active
  /\ mode' = IF mode = "Single" THEN "Brush" ELSE "Single"
  /\ leftDown' = FALSE
  /\ IF mode = "Single" THEN ClearHover ELSE PickNearest(cursor)
  /\ UNCHANGED <<city, pending, undoStack, cursor, sources, active, cancel, manager>>

\* Esc and the right button.  The left button, if it is down, goes on brushing
\* until the tick.
EscOrRightClick ==
  /\ active
  /\ ClearHover
  /\ cancel' = TRUE
  /\ UNCHANGED <<city, pending, undoStack, mode, leftDown, cursor, sources, active, manager>>

FaultySetEnabledSources(s) ==   \* what is hovered stays hovered
  /\ s # sources
  /\ sources' = s
  /\ leftDown' = FALSE
  /\ UNCHANGED <<city, lit, pending, hovered, undoStack, mode, cursor, active, cancel, manager>>

\* SetEnabledSources from the panel's check boxes.
SetEnabledSources(s) ==
  /\ s # sources
  /\ sources' = s
  /\ ClearHover
  /\ leftDown' = FALSE
  /\ UNCHANGED <<city, pending, undoStack, mode, cursor, active, cancel, manager>>

-----------------------------------------------------------------------------
(* The director and the game.                                              *)

\* StartPropStripping; View3D drops and activates the control if it was current.
Start ==
  /\ manager /\ sources # {}
  /\ active' = TRUE
  /\ leftDown' = FALSE /\ cancel' = FALSE /\ ClearHover
  /\ UNCHANGED <<city, pending, undoStack, mode, cursor, sources, manager>>

FaultyDeactivate ==          \* the button is still held in the next session
  /\ active' = FALSE /\ cancel' = FALSE /\ ClearHover /\ UNCHANGED leftDown

\* Deactivate: also delivers a cancel, whose onCancel_ drops the control.
Deactivate == active' = FALSE /\ leftDown' = FALSE /\ cancel' = FALSE /\ ClearHover

\* StopPropStripping, another tool or the game takes the screen.
Stop ==
  /\ active
  /\ Deactivate
  /\ UNCHANGED <<city, pending, undoStack, mode, cursor, sources, manager>>

\* ProcessPendingActions on a tick.
Tick ==
  /\ cancel
  /\ Deactivate
  /\ UNCHANGED <<city, pending, undoStack, mode, cursor, sources, manager>>

\* A city is loaded.
CityInit ==
  /\ ~manager
  /\ manager' = TRUE /\ city' = LoadedCity
  /\ UNCHANGED <<lit, pending, hovered, undoStack, mode, leftDown, cursor, sources, active, cancel>>

\* PreCityShutdown_: StopPropStripping, SetCity(nullptr); the paint tool
\* cancels, then the city is unloaded.
CityShutdown ==
  /\ manager
  /\ active' = FALSE /\ leftDown' = FALSE /\ cancel' = FALSE
  /\ hovered' = NoOcc /\ lit' = {}
  /\ undoStack' = <<>> /\ manager' = FALSE
  /\ city' = <<>> /\ pending' = {}
  /\ UNCHANGED <<mode, cursor, sources>>

\* The game removes a prop.
RemovedByOthers(o) ==
  /\ o \in DOMAIN city
  /\ city' = Restrict(city, DOMAIN city \ {o})
  /\ lit' = lit \ {o}
  /\ UNCHANGED <<pending, hovered, undoStack, mode, leftDown, cursor, sources, active, cancel, manager>>

\* The paint tool places a batch and is replaced with KeepPending.
Painted(batch) ==
  /\ manager /\ ~active /\ pending = {}
  /\ FoldFunction(+, 0, [p \in Props |-> Total(p)]) + Cardinality(batch) <= MaxProps
  /\ \E f \in Injection(batch, Fresh) :
       /\ city' = [o \in DOMAIN city \cup Range(f) |->
                     IF o \in DOMAIN city THEN city[o] ELSE CHOOSE p \in batch : f[p] = o]
       /\ pending' = Range(f) /\ lit' = lit \cup Range(f)
  /\ UNCHANGED <<hovered, undoStack, mode, leftDown, cursor, sources, active, cancel, manager>>

\* The paint tool commits what it left pending.
Committed ==
  /\ ~active /\ pending # {}
  /\ pending' = {} /\ lit' = lit \ pending
  /\ UNCHANGED <<city, hovered, undoStack, mode, leftDown, cursor, sources, active, cancel, manager>>

-----------------------------------------------------------------------------
Init ==
  /\ city = <<>> /\ lit = {} /\ pending = {}
  /\ hovered = NoOcc /\ undoStack = <<>>
  /\ mode = "Single" /\ leftDown = FALSE /\ cursor = NoPlace
  /\ sources = {"City"}
  /\ active = FALSE /\ cancel = FALSE /\ manager = FALSE

Input ==
  \/ \E c \in Places \cup {NoPlace} : Move(c)
  \/ BrushClick \/ ButtonUp \/ SingleClick
  \/ UndoLastDeletion \/ UndoPartly
  \/ ToggleMode \/ EscOrRightClick
  \/ \E s \in CheckBoxes : SetEnabledSources(s)

Director == Start \/ Stop \/ Tick

Others ==
  \/ CityInit \/ CityShutdown
  \/ \E o \in Occ : RemovedByOthers(o)
  \/ (\E batch \in Batches : Painted(batch)) \/ Committed

Next == Input \/ Director \/ Others

Spec == Init /\ [][Next]_vars

-----------------------------------------------------------------------------
(* Properties.                                                             *)

\* Every variable has a value of its type.
TypeOK ==
  /\ DOMAIN city \subseteq Occ /\ Range(city) \subseteq Props
  /\ lit \subseteq Occ /\ pending \subseteq Occ
  /\ hovered \in Occ \cup {NoOcc}
  /\ Len(undoStack) <= MaxUndo
  /\ undoStack \in Seq([Props -> Nat])
  /\ mode \in {"Single", "Brush"} /\ cursor \in Places \cup {NoPlace}
  /\ sources \subseteq Sources
  /\ {leftDown, active, cancel, manager} \subseteq BOOLEAN

\* The hover highlight is on the hovered prop and on nothing else, through mode
\* and source changes, deletions, restarts and props that vanish: a stray
\* highlight would stay in the city.
HighlightIsHover ==
  /\ lit \subseteq DOMAIN city
  /\ lit \ pending = ({hovered} \cap DOMAIN city) \ pending

\* What the next click deletes is under the cursor, of a source that is
\* checked, and only while the stripper is on screen in single mode.
ClickIsAimed ==
  hovered # NoOcc =>
    /\ active /\ mode = "Single"
    /\ hovered \in DOMAIN city =>
         city[hovered].place = cursor /\ city[hovered].source \in sources

\* A held button brushes in brush mode on screen only: it is never carried into
\* another mode or the next session, where moving the mouse would delete.
HeldMeansBrush == leftDown => active /\ mode = "Brush"

\* Between cities no record of the last city's props is left.
NothingAcrossCities == ~manager => undoStack = <<>> /\ hovered = NoOcc /\ lit = {}

\* What belongs to a brush stroke, a session or a city ends with it.
NothingOutlivesSession == HeldMeansBrush /\ NothingAcrossCities

\* Stripping and undoing neither lose nor duplicate a prop, and it comes back
\* with the source, type and place it had.  Only a prop that the game refuses
\* to re-create is lost.
NothingLost == [][(\A p \in Props : Total(p)' = Total(p)) \/ UndoPartly \/ Others]_vars

\* The members of the seasonal set of source s at place c, when count says how
\* many of each kind there are.  Sets are stacked when one spot has a type twice.
Members(count, c, s) ==
  {p \in Props : p.place = c /\ p.source = s /\ p.type \in SeasonalSet /\ count[p] > 0}
IsWhole(count) ==
  \A c \in Places, s \in Sources :
    Members(count, c, s) = {} \/ {p.type : p \in Members(count, c, s)} = SeasonalSet
IsStacked(count) ==
  \E p, q \in {r \in Props : r.type \in SeasonalSet /\ count[r] > 0} :
    p.type = q.type /\ p.place = q.place /\ (p # q \/ count[p] > 1)

\* A seasonal set stays together: when the sets in the city and on the undo
\* stack are whole and no two are stacked on one spot, stripping and undoing
\* keep them whole, or the place would be empty in some season.
CityCount == Recorded(DOMAIN city)
Whole == IsWhole(CityCount) /\ \A i \in DOMAIN undoStack : IsWhole(undoStack[i])
SetsStayWhole == [][Whole /\ ~IsStacked(CityCount) => Whole' \/ UndoPartly \/ Others]_vars

\* docs/USAGE.md: props that are painted are "placed in a temporary highlighted
\* state" and "still considered pending until you commit them": what the paint
\* tool left pending in the city is highlighted.
PendingIsHighlighted == pending \cap DOMAIN city \subseteq lit
=============================================================================
