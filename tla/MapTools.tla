------------------------------ MODULE MapTools ------------------------------
(***************************************************************************)
(* Who has the map, and what the scene picker does with it: the director's   *)
(* switching of the seven tools (ToolSwitching, where the picker is a cancel  *)
(* and a pick that wait) and the picker in itself (ScenePicker).  They share   *)
(* no variable, so that one moves at a time.                                *)
(***************************************************************************)
EXTENDS ToolSwitching, ScenePicker

VARIABLE
  picking     \* it is the picker that moves

\* What the constants of both are.
ASSUME PartsAssumption == PickerAssumption

sideVars == <<picking, vars, pickerVars>>

SideInit == picking \in BOOLEAN /\ Init /\ PickerInit /\ (picking => policy = "Discard")

SideNext ==
  \/ ~picking /\ Next      /\ UNCHANGED <<picking, pickerVars>>
  \/ picking /\ PickerNext /\ UNCHANGED <<picking, vars>>

SideBySide == SideInit /\ [][SideNext]_sideVars /\ WF_vars(Tick)

-----------------------------------------------------------------------------
\* The picker lights up and redraws the thing under the cursor, nothing else,
\* and nothing once it is off the screen: highlights go dark and decals get their
\* draw mode back whatever made the hover move on, a thing that vanished included.
LitAndRedrawn == PickerTypeOK /\ PickerLeavesNoTrace
=============================================================================
