-------------------------- MODULE MCToolSwitching --------------------------
(***************************************************************************)
(* A small instance of ToolSwitching: one painter that sketches, one that   *)
(* does not, two strippers and the picker.                                  *)
(***************************************************************************)
EXTENDS ToolSwitching, TLC

CONSTANTS prop, decal, propStripper, decalStripper, picker

MCPainters == {prop, decal}
MCSketchers == {prop}
MCStrippers == {propStripper, decalStripper}
=============================================================================
