--------------------------- MODULE MCPropStripper ---------------------------
(* A lot prop to begin with; the paint tool may add a seasonal set of two at *)
(* the same place.                                                          *)
EXTENDS PropStripper, TLC

CONSTANTS o1, o2, o3, o4, here, spring, autumn, bench

Prop(s, t) == [source |-> s, type |-> t, place |-> here]

MCOcc3 == {o1, o2, o3}
MCOcc4 == {o1, o2, o3, o4}
MCProps == {Prop("Lot", bench), Prop("City", spring), Prop("City", autumn)}
MCSet == {spring, autumn}
MCCity == o1 :> Prop("Lot", bench)
MCBatches == {{Prop("City", spring), Prop("City", autumn)}}
MCCheckBoxes == {{"City"}, {"City", "Lot"}}

\* Occupants that are not loaded with the city are interchangeable.
Interchangeable == Permutations(Occ \ DOMAIN LoadedCity)
=============================================================================
