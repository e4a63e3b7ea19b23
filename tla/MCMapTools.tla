----------------------------- MODULE MCMapTools -----------------------------
(* The tools of the map on small instances.                                 *)
EXTENDS MapTools, MCToolSwitching, MCPickerScene

CONSTANTS none, off
=============================================================================
