------------------------- MODULE PendingPlacements -------------------------
(***************************************************************************)
(* What a paint tool promises about the city, with no controls, previews,  *)
(* undo stacks or callbacks: an occupant the user paints is pending until  *)
(* it is either withdrawn (undo, cancel) or made permanent (commit), and   *)
(* nothing the tool does takes a permanent occupant away again.  Painter   *)
(* implements this specification.                                          *)
(***************************************************************************)
CONSTANTS Occ   \* the occupants that can be in the city

VARIABLES
  pending,      \* painted, highlighted, can still be undone
  permanent     \* part of the city for good

pvars == <<pending, permanent>>

PInit == pending = {} /\ permanent = {}

-----------------------------------------------------------------------------
\* New occupants appear as pending ones.  The undo history is finite, so a
\* placement may make the occupants it can no longer remember permanent.
Paint(new, forgotten) ==
  /\ new \cap (pending \cup permanent) = {}
  /\ forgotten \subseteq pending
  /\ pending' = (pending \ forgotten) \cup new
  /\ permanent' = permanent \cup forgotten

\* Undo, cancel: some pending occupants leave the city.
Withdraw(gone) ==
  /\ gone \subseteq pending
  /\ pending' = pending \ gone
  /\ permanent' = permanent

\* Commit: everything pending becomes permanent at once.
CommitAll ==
  /\ pending' = {}
  /\ permanent' = permanent \cup pending

\* Another tool or the game removes one occupant.
RemovedByOthers(o) ==
  /\ pending' = pending \ {o}
  /\ permanent' = permanent \ {o}

PNext ==
  \/ \E new, forgotten \in SUBSET Occ : Paint(new, forgotten)
  \/ \E gone \in SUBSET pending : Withdraw(gone)
  \/ CommitAll
  \/ \E o \in Occ : RemovedByOthers(o)

PSpec == PInit /\ [][PNext]_pvars
=============================================================================
