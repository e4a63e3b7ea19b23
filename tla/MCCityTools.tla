---------------------------- MODULE MCCityTools ----------------------------
(* The tools of the city on small instances.                                *)
EXTENDS CityTools, MCPropStripper

CONSTANTS oak, elm

\* The occupants that are not loaded with the city stand for decals and flora too.
MCNew == Occ \ DOMAIN LoadedCity

\* Two spots, each with the kind that grows there; the second lies in the
\* first one's square but not in its circle.
Spot(x, z) == [x |-> x, z |-> z]
MCSpots == {Spot(0, 0), Spot(2, 2)}
MCKinds == {oak, elm}
MCSoil == oak :> {Spot(0, 0)} @@ elm :> {Spot(2, 2)}
MCSprouts == {[kind |-> oak, at |-> Spot(0, 0), turn |-> 0]}
NoFlora == <<>>
Planned(k, x, z) == [kind |-> k, at |-> Spot(x, z)]
MCFloraBatches == {<<Planned(elm, 2, 2), Planned(elm, 0, 0), Planned(elm, 2, 2), Planned(oak, 0, 0)>>}
=============================================================================
