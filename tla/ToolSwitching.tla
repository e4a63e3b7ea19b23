--------------------------- MODULE ToolSwitching ---------------------------
(***************************************************************************)
(* Who has the map: SC4PlopAndPaintDirector starting, stopping and          *)
(* replacing its seven tools, with the input controls reduced to what the   *)
(* director sees of them: an unfinished sketch, pending placements, a       *)
(* cancel or a pick that waits for the frame tick.                          *)
(*                                                                         *)
(* View3D keeps one current input control.  Dropping a control calls its    *)
(* Deactivate() before anything else happens.                              *)
(***************************************************************************)
CONSTANTS
  Painters,   \* prop, flora and decal painter
  Sketchers,  \* the painters with a line and a polygon mode: prop and flora
  Strippers,  \* prop, flora and decal stripper
  Picker,     \* the scene picker
  Nobody      \* no tool, or a control of the game

Tools == Painters \cup Strippers \cup {Picker}

ASSUME ToolsAssumption ==
  /\ Sketchers \subseteq Painters
  /\ Painters \cap Strippers = {}
  /\ Picker \notin Painters \cup Strippers
  /\ Nobody \notin Tools

VARIABLES
  city,      \* pCity_ and pView3D_ are set
  flag,      \* propPainting_, floraPainting_, ..., scenePicking_
  current,   \* the tool that is View3D's current input control
  sketch,    \* HasPendingSketch() of the painters
  pending,   \* HasPendingPlacements() of the painters
  cancel,    \* cancelPending_ of the controls
  pick,      \* pickPending_ of the picker
  status,    \* the status panel is shown
  policy     \* paintSwitchPolicy_

vars == <<city, flag, current, sketch, pending, cancel, pick, status, policy>>

Policies == {"Discard", "Commit", "KeepPending"}

-----------------------------------------------------------------------------
(* Deactivate() of the controls that View3D drops.                          *)

\* The painters lose their sketch.
SketchWithout(dropped) == [p \in Painters |-> sketch[p] /\ p \notin dropped]

\* The strippers deliver their cancel, the painters and the picker keep it.
CancelWithout(dropped) == [t \in Tools |-> cancel[t] /\ t \notin dropped \cap Strippers]

\* UpdatePaintPanels_: the status panel follows the control on screen.
PanelsUpdated == status' = (current' \in Painters)

-----------------------------------------------------------------------------
(* Starting and stopping a tool.                                           *)

FaultyCanPrepareFor(t) == TRUE   \* an unfinished sketch does not block

\* PrepareForExclusiveActivation_: no other painter has an unfinished sketch.
CanPrepareFor(t) == \A p \in Painters \ {t} : flag[p] => ~sketch[p]

\* StartXPainting for the painter that is painting already.
Reusing(t) == t \in Painters /\ flag[t] /\ current = t

Others(t) == {u \in Tools \ {t} : flag[u]}

\* ApplySwitchPolicy_ for the painters that are replaced or retargeted:
\* discarding and committing leave nothing pending.
AfterPolicy(affected) ==
  [p \in Painters |-> pending[p] /\ (p \in affected => policy = "KeepPending")]

FaultyOnly(t) == [u \in Tools |-> u = t \/ (flag[u] /\ u \in Strippers)]   \* strippers stay

\* The flags when t is started.
Only(t) == [u \in Tools |-> u = t]

\* What View3D drops when t is started: a painter on screen only gets its new
\* target, every other start drops what is on screen, t itself included.
DroppedFor(t) == IF Reusing(t) THEN {} ELSE {current}

\* StopXStripping updates the panels, and so does a cancel a stripper delivers.
PanelsHear(t) == Others(t) \cap Strippers # {} \/ (current \in Strippers /\ cancel[current])

\* StartXPainting, StartXStripping, StartScenePicking_: the tool is started.
Started(t) ==
  /\ city /\ CanPrepareFor(t)
  /\ Reusing(t) => ~sketch[t]
  /\ pending' = AfterPolicy(Others(t) \cup {u \in {t} : Reusing(t)})
  /\ flag' = Only(t)
  /\ current' = t
  /\ sketch' = SketchWithout(DroppedFor(t)) /\ cancel' = CancelWithout(DroppedFor(t))
  /\ status' = (t \in Painters \/ (status /\ ~PanelsHear(t)))
  /\ UNCHANGED <<city, pick, policy>>

\* The start fails after the other tools were stopped: the control cannot be
\* initialised, no prop source is enabled, View3D refuses the control.
NotStarted(t) ==
  /\ city /\ CanPrepareFor(t) /\ ~Reusing(t)
  /\ pending' = AfterPolicy(Others(t))
  /\ flag' = [u \in Tools |-> flag[u] /\ u = t]
  /\ current' = IF current \in Others(t) THEN Nobody ELSE current
  /\ LET dropped == {current} \cap Others(t) IN
       sketch' = SketchWithout(dropped) /\ cancel' = CancelWithout(dropped)
  /\ \/ status' = (status /\ Others(t) \cap Strippers = {})
     \/ t # Picker /\ PanelsUpdated
  /\ UNCHANGED <<city, pick, policy>>

\* StopXPainting, StopXStripping, StopPropPicking.
Stop(t) ==
  /\ flag' = [flag EXCEPT ![t] = FALSE]
  /\ current' = IF current = t THEN Nobody ELSE current
  /\ pending' = [p \in Painters |-> pending[p] /\ p # t]
  /\ sketch' = [p \in Painters |-> sketch[p] /\ p # t]
  /\ cancel' = CancelWithout({current} \cap {t})
  /\ IF t = Picker THEN UNCHANGED status ELSE PanelsUpdated
  /\ UNCHANGED <<city, pick, policy>>

\* The recent paint keys: ActivateRecentPaint starts the prop or the flora
\* painter from any painter that is neither cancelled nor has a sketch.
QuickSwap(t) ==
  /\ current \in Painters /\ ~cancel[current] /\ ~sketch[current]
  /\ t \in Sketchers
  /\ Started(t)

-----------------------------------------------------------------------------
(* Input of the tool on screen, as far as the director sees it.             *)

\* Esc and the right button: everything pending goes, the rest waits.
Cancel ==
  /\ current \in Tools
  /\ cancel' = [cancel EXCEPT ![current] = TRUE]
  /\ sketch' = [p \in Painters |-> sketch[p] /\ p # current]
  /\ pending' = [p \in Painters |-> pending[p] /\ p # current]
  /\ UNCHANGED <<city, flag, current, pick, status, policy>>

\* A painter's sketch grows, shrinks or is placed by Enter.
SketchChanges ==
  /\ current \in Sketchers
  /\ \E b \in BOOLEAN : sketch' = [sketch EXCEPT ![current] = b]
  /\ \/ UNCHANGED pending
     \/ sketch[current] /\ ~sketch'[current] /\ pending' = [pending EXCEPT ![current] = TRUE]
  /\ UNCHANGED <<city, flag, current, cancel, pick, status, policy>>

\* A click in direct mode, Ctrl+Z, Ctrl+Backspace, Enter.
PendingChanges ==
  /\ current \in Painters
  /\ \/ /\ ~sketch[current] /\ pending' = [pending EXCEPT ![current] = TRUE]
     \/ pending' = [pending EXCEPT ![current] = FALSE]
  /\ UNCHANGED <<city, flag, current, sketch, cancel, pick, status, policy>>

\* A click of the picker on something.
PickClick ==
  /\ current = Picker
  /\ pick' = TRUE
  /\ UNCHANGED <<city, flag, current, sketch, pending, cancel, status, policy>>

-----------------------------------------------------------------------------
(* The frame tick and the game.                                            *)

\* The tools whose onCancel_ the tick calls; a pick ends picking as well.
Due == {t \in Tools : cancel[t] \/ (t = Picker /\ pick)}

FaultyTick ==                \* the cancel of a tool with pending placements waits
  /\ Due # {} /\ \A p \in Painters : ~pending[p]
  /\ cancel' = [t \in Tools |-> FALSE] /\ pick' = FALSE
  /\ flag' = [t \in Tools |-> flag[t] /\ t \notin Due]
  /\ current' = IF current \in Due THEN Nobody ELSE current
  /\ sketch' = SketchWithout({current} \cap Due)
  /\ status' = (status /\ Due \subseteq {Picker})
  /\ UNCHANGED <<city, pending, policy>>

\* ProcessPendingToolActions_: every tool with something pending leaves the
\* screen and loses its flag.  A pick is handled before the picker's cancel,
\* which waits for the next tick.
Tick ==
  /\ Due # {}
  /\ cancel' = [t \in Tools |-> cancel[t] /\ t = Picker /\ pick]
  /\ pick' = FALSE
  /\ flag' = [t \in Tools |-> flag[t] /\ t \notin Due]
  /\ current' = IF current \in Due THEN Nobody ELSE current
  /\ sketch' = SketchWithout({current} \cap Due)
  /\ IF Due \subseteq {Picker} THEN UNCHANGED status
     ELSE status' = (current' \in Painters)
  /\ UNCHANGED <<city, pending, policy>>

\* The game makes a control of its own current; the flag stays.  A stripper
\* delivers its cancel on the way out.
ReplacedByGame ==
  /\ current \in Tools
  /\ current' = Nobody
  /\ sketch' = SketchWithout({current})
  /\ cancel' = CancelWithout({current})
  /\ LET delivered == current \in Strippers /\ cancel[current] IN
       /\ flag' = [flag EXCEPT ![current] = flag[current] /\ ~delivered]
       /\ status' = (status /\ ~delivered)
  /\ UNCHANGED <<city, pending, pick, policy>>

\* PostCityInit_
CityInit ==
  /\ ~city /\ city' = TRUE
  /\ UNCHANGED <<flag, current, sketch, pending, cancel, pick, status, policy>>

\* Every tool is stopped and the view is given back.
AllStopped ==
  /\ flag' = [t \in Tools |-> FALSE]
  /\ current' = Nobody
  /\ sketch' = [p \in Painters |-> FALSE] /\ pending' = [p \in Painters |-> FALSE]
  /\ status' = FALSE
  /\ city' = FALSE

\* PreCityShutdown_: a cancel or a pick that still waits is not forgotten.
CityShutdown ==
  /\ city
  /\ AllStopped
  /\ cancel' = CancelWithout({current})
  /\ UNCHANGED <<pick, policy>>

\* PostAppShutdown destroys the controls; the next start of the game reads the
\* settings again.
AppShutdown ==
  /\ AllStopped
  /\ cancel' = [t \in Tools |-> FALSE] /\ pick' = FALSE
  /\ policy' \in Policies

-----------------------------------------------------------------------------
Init ==
  /\ city = FALSE
  /\ flag = [t \in Tools |-> FALSE] /\ current = Nobody
  /\ sketch = [p \in Painters |-> FALSE] /\ pending = [p \in Painters |-> FALSE]
  /\ cancel = [t \in Tools |-> FALSE] /\ pick = FALSE
  /\ status = FALSE
  /\ policy \in Policies

Input == Cancel \/ SketchChanges \/ PendingChanges \/ PickClick

Director ==
  \/ \E t \in Tools : Started(t) \/ NotStarted(t) \/ (city /\ Stop(t)) \/ QuickSwap(t)
  \/ Tick

Game == ReplacedByGame \/ CityInit \/ CityShutdown \/ AppShutdown

Next == Input \/ Director \/ Game

Spec == Init /\ [][Next]_vars

\* The frame tick service calls ProcessPendingToolActions_() for as long as
\* the plugin is loaded.
FairSpec == Spec /\ WF_vars(Tick)

-----------------------------------------------------------------------------
(* Properties.                                                             *)

\* Every variable has a value of its type.
TypeOK ==
  /\ city \in BOOLEAN /\ pick \in BOOLEAN /\ status \in BOOLEAN
  /\ flag \in [Tools -> BOOLEAN] /\ cancel \in [Tools -> BOOLEAN]
  /\ current \in Tools \cup {Nobody}
  /\ sketch \in [Painters -> BOOLEAN] /\ pending \in [Painters -> BOOLEAN]
  /\ policy \in Policies

\* The director takes no two tools for active at once, through every order of
\* starts that succeed or fail, stops, delayed cancels and city changes:
\* otherwise a start would apply the switch policy to the wrong tool.
OneToolAtMost == \A t, u \in Tools : flag[t] /\ flag[u] => t = u

\* The tool on screen is the one the director takes for active, and there is a
\* city to use it in; otherwise Stop and the next start would pass it by.
OnScreenIsFlagged == current \in Tools => flag[current] /\ city

\* A sketch is never left behind on a painter that is off the screen, where it
\* would block every other tool and no key could finish it.
SketchOnScreen == \A p \in Painters : sketch[p] => current = p

\* Between cities no tool is active and nothing is pending.
NoCityNoTool ==
  ~city => /\ \A t \in Tools : ~flag[t]
           /\ \A p \in Painters : ~pending[p]

\* The map belongs to one tool at most, the one on screen if there is one and
\* with a sketch of no other, and to none without a city.
OneToolInCity == OneToolAtMost /\ NoCityNoTool /\ OnScreenIsFlagged /\ SketchOnScreen

\* The status window is shown all the time a painter is on screen.
StatusShownWhilePainting == current \in Painters => status

\* The map has at most one owner, and no tool takes it from one that sketches.
Active == {t \in Tools : flag[t]}
Owner == IF Active = {} THEN Nobody ELSE CHOOSE t \in Active : TRUE
Abstract == INSTANCE MapOwner WITH
  owner <- Owner, busy <- \E p \in Painters : sketch[p]
ImplementsMapOwner == Abstract!OwnerSpec

\* Esc, the right button and a pick take the tool off the screen, whatever is
\* placed, started, stopped or cancelled before the tick; only a stripper that
\* is started again delivers its cancel to the session before.
CancelLeavesTool ==
  \A t \in Tools : (t \in Due /\ current = t) ~> (current # t \/ t \in Strippers \ Due)
=============================================================================
