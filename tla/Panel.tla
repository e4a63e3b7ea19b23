------------------------------- MODULE Panel -------------------------------
(***************************************************************************)
(* The seasonal sets that the scan detects, and three tabs of the window:   *)
(* the table of props, the families and the decals.  The sets are detected   *)
(* before the game starts.  Each tab has state of its own, calls the         *)
(* repository and the director only with what its own module says, and acts  *)
(* only while it is the one on screen: one part moves at a time.             *)
(***************************************************************************)
EXTENDS SeasonalSets, PropsTable, FamiliesTab, DecalPanel

VARIABLE
  part       \* the part that moves: seasons, or the tab props, families or decals

\* What the constants of each part are.
ASSUME PartsAssumption ==
  SeasonalAssumption /\ PropsTableAssumption /\ FamiliesTabAssumption /\ DecalPanelAssumption

\* Without seasonal sets there are no windows to choose from.
SideBySideInit ==
  /\ part \in {"seasons", "props", "families", "decals"}
  /\ SeasonalInit /\ PropsTableInit /\ FamiliesTabInit /\ DecalPanelInit
  /\ part # "seasons" => \A p \in Scanned : windowOf[p] = NoWindow

sideVars == <<part, seasonalVars, propsTableVars, familiesTabVars, decalPanelVars>>

SideBySideNext ==
  \/ part = "seasons" /\ SeasonalNext
     /\ UNCHANGED <<part, propsTableVars, familiesTabVars, decalPanelVars>>
  \/ part = "seasons" /\ pass = "done" /\ UNCHANGED sideVars   \* it has ended
  \/ part = "props" /\ PropsTableNext
     /\ UNCHANGED <<part, seasonalVars, familiesTabVars, decalPanelVars>>
  \/ part = "families" /\ FamiliesTabNext
     /\ UNCHANGED <<part, seasonalVars, propsTableVars, decalPanelVars>>
  \/ part = "decals" /\ DecalPanelNext
     /\ UNCHANGED <<part, seasonalVars, propsTableVars, familiesTabVars>>

SideBySide == SideBySideInit /\ [][SideBySideNext]_sideVars

-----------------------------------------------------------------------------

\* Props and decals: what was picked on the map is in the list, however it was
\* filtered and whatever tab was on screen.
PickIsListed == PickedIsFound /\ PickIsShown
=============================================================================
