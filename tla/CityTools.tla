----------------------------- MODULE CityTools -----------------------------
(***************************************************************************)
(* The tools that change what stands in a city: the prop stripper, the      *)
(* decal tools and the flora tools.  Props, decals and flora have a service *)
(* each and share no state of the tools, and two tools are never on screen  *)
(* together (ToolSwitching): one kind of tools moves at a time.             *)
(***************************************************************************)
EXTENDS PropStripper, DecalTools, FloraTools

VARIABLE
  tools       \* the tools that move: props, decals, flora

\* What the constants of each kind of tools are.
ASSUME PartsAssumption == DecalAssumption /\ FloraAssumption

\* Only the decal tools' policy matters when they move.
SideBySideInit ==
  /\ Init /\ DecalInit /\ FloraInit
  /\ tools \in {"props", "decals", "flora"}
  /\ tools # "decals" => dPolicy = "KeepPending"

SideBySideNext ==
  \/ tools = "props"  /\ Next      /\ UNCHANGED <<tools, dVars, fVars>>
  \/ tools = "decals" /\ DecalNext /\ UNCHANGED <<tools, vars, fVars>>
  \/ tools = "flora"  /\ FloraNext /\ UNCHANGED <<tools, vars, dVars>>

sideVars == <<tools, vars, dVars, fVars>>

SideBySide == SideBySideInit /\ [][SideBySideNext]_sideVars

-----------------------------------------------------------------------------
(* Properties of more than one kind of tools.                              *)

\* Decals: the preview, the hover and what a tool keeps of a city end with the
\* tool's time on screen and with the city.  Flora: the preview occupant is never
\* committed, saved or left in the city, and what is lit is of this session, near
\* the cursor.
NothingLeftBehind ==
  /\ DecalTypeOK /\ NoDecalLeftBehind /\ HoverOnScreen
  /\ FloraTypeOK /\ PreviewIsNeverPlanted /\ FloraHoverIsAimed

\* Stripping and undoing neither lose nor duplicate any prop, decal or plant, a
\* stroke stays within its circle, and the mode a decal has when its hover ends is
\* changed by commits only.
NothingIsLost == NothingLost /\ NoDecalLost /\ NoPlantLost /\ HoverLeavesNoTrace
=============================================================================
