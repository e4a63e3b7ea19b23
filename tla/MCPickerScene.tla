--------------------------- MODULE MCPickerScene ---------------------------
(* A map of three by two cells with three lots of one by two cells, the first *)
(* two of one kind and turned alike; a base and two overlays on each.  The    *)
(* cursor is over a lot with two decals within reach, over one with a flora   *)
(* and two props, or beside the map, where there is nothing.                  *)
EXTENDS Integers, Sequences

P(x, z) == [x |-> x, z |-> z]
MCPoints == {P(1, 1), P(5, 0), P(7, 7)}

MCProps == <<
  [id |-> 1, source |-> "City", at |-> P(5, 0), days |-> {1}],
  [id |-> 2, source |-> "Lot", at |-> P(5, 0), days |-> {1, 2}]>>
MCFlora == <<[id |-> 3, at |-> P(5, 1)]>>
MCDecals == <<[id |-> 4, at |-> P(1, 2), mode |-> 0], [id |-> 5, at |-> P(2, 2), mode |-> 2]>>

Object(i, base, x, z, w, d) ==
  [id |-> i, base |-> base, rect |-> [minX |-> x, maxX |-> x + w, minZ |-> z, maxZ |-> z + d]]
Objects == <<Object(1, TRUE, 0, 0, 2, 4), Object(2, FALSE, 1, 0, 1, 2), Object(3, FALSE, 0, 2, 1, 1)>>
Along == <<Object(1, TRUE, 0, 0, 4, 2), Object(2, FALSE, 0, 1, 2, 1), Object(3, FALSE, 2, 0, 1, 1)>>
Lot(x, facing) == [minX |-> x, maxX |-> x, minZ |-> 0, maxZ |-> 1, facing |-> facing,
                   objects |-> IF facing % 2 = 0 THEN Objects ELSE Along]
MCLots == {Lot(0, 1), Lot(1, 1), Lot(2, 2)}
MCBoxes == {{"City"}, {"City", "Lot"}}
=============================================================================
