----------------------------- MODULE LinePlacer -----------------------------
(***************************************************************************)
(* LinePlacer::ComputePlacements: how a path of clicked points and a       *)
(* spacing become a row of placements.                                     *)
(*                                                                         *)
(* Lengths are whole units and the path lies on one axis, on which it may  *)
(* turn back; the code walks a path in the plane the same way, by the      *)
(* length of each segment.  Jitter, random rotation and the palette take   *)
(* the next value of generators that are seeded anew for each call, so the *)
(* k-th placement always gets the k-th draws: its index stands for them.   *)
(***************************************************************************)
EXTENDS Integers, Sequences

SegmentLength(points, i) ==
  IF points[i + 1] >= points[i] THEN points[i + 1] - points[i] ELSE points[i] - points[i + 1]

\* How often pos is advanced by spacing, from -carry, until it is not short of
\* the goal any more.
FaultyAdvances(carry, spacing, goal) == (goal + carry + spacing) \div spacing   \* <= goal
Advances(carry, spacing, goal) == (goal + carry + spacing - 1) \div spacing

\* By how much pos overshoots the end of a segment that it enters with carry,
\* and the start of each segment.  A segment without length is passed over.
Overshoot(carry, spacing, len) ==
  IF len = 0 THEN carry ELSE Advances(carry, spacing, len) * spacing - carry - len
CarryFrom(points, spacing) ==
  LET carry[i \in 0 .. Len(points) - 1] ==
        IF i = 0 THEN 0 ELSE Overshoot(carry[i - 1], spacing, SegmentLength(points, i))
  IN carry

\* The placements on segment i, which the walk reaches with carry: where each
\* is, and how far from the segment's start.  The walk starts carry before the
\* segment, and nothing is placed before its start or from its end on.
OnSegment(points, spacing, carry, i) ==
  LET len == SegmentLength(points, i)
      dir == IF points[i + 1] > points[i] THEN 1 ELSE -1
      first == Advances(carry, spacing, 0)
      last == Advances(carry, spacing, len)
      pos(k) == (first + k - 1) * spacing - carry
  IN IF len = 0 THEN <<>>
     ELSE [k \in 1 .. last - first |-> [at |-> points[i] + dir * pos(k), segment |-> i, pos |-> pos(k)]]

\* The placements on the first i segments, and on the whole path.
Walked(points, spacing) ==
  LET walked[i \in 0 .. Len(points) - 1] ==
        IF i = 0 THEN <<>>
        ELSE walked[i - 1] \o OnSegment(points, spacing, CarryFrom(points, spacing)[i - 1], i)
  IN walked
Walk(points, spacing) ==
  IF Len(points) < 2 THEN <<>> ELSE Walked(points, spacing)[Len(points) - 1]

\* The walk stops at the limit.
LinePlacements(points, spacing, limit) ==
  LET row == Walk(points, spacing)
  IN SubSeq(row, 1, IF Len(row) > limit THEN limit ELSE Len(row))
=============================================================================
