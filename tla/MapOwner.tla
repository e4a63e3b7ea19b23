------------------------------ MODULE MapOwner ------------------------------
(***************************************************************************)
(* What the director promises about the city view: at most one tool owns   *)
(* the map, and a tool with an unfinished sketch keeps the map until its    *)
(* own input, a stop or the game ends the sketch.  No other tool can take   *)
(* the map away from it.  ToolSwitching implements this specification.      *)
(***************************************************************************)
CONSTANTS
  Tools,    \* the tools
  Nobody    \* no tool owns the map

VARIABLES
  owner,    \* the tool that owns the map, or Nobody
  busy      \* the owner has an unfinished sketch

ovars == <<owner, busy>>

OwnerInit == owner = Nobody /\ busy = FALSE

-----------------------------------------------------------------------------
\* A tool takes the map, from nobody or from a tool that is not busy.
Claim(t) ==
  /\ ~busy
  /\ owner' = t /\ busy' = FALSE

\* The owner works on its sketch, or its sketch is taken down.
Work ==
  /\ owner # Nobody
  /\ busy' \in BOOLEAN
  /\ owner' = owner

\* The map is given up.
Release == owner' = Nobody /\ busy' = FALSE

OwnerNext == (\E t \in Tools : Claim(t)) \/ Work \/ Release

OwnerSpec == OwnerInit /\ [][OwnerNext]_ovars
=============================================================================
