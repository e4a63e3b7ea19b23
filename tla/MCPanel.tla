------------------------------ MODULE MCPanel ------------------------------
(* The parts of the panel on small instances.                               *)
EXTENDS Panel, TLC

CONSTANTS
  bench, lamp, bare, street, unnamed, timed,       \* props, texts, traits
  mine, theirs, game, park,                        \* names, and a text in them
  asphalt, mud, gravel, road, path,                \* textures, and their kinds
  oak, elm, ash, fir, yew                          \* props with a season

\* A bench and a lamp of one name, and a prop without a name.
MCProps == {bench, lamp, bare}
MCInName == bench :> {street} @@ lamp :> {street} @@ bare :> {}
MCLabel == bench :> street @@ lamp :> street @@ bare :> unnamed
MCHas == bench :> {} @@ lamp :> {timed} @@ bare :> {timed}
MCPlace == bench :> 2 @@ lamp :> 2 @@ bare :> 1
MCSize == bench :> 2 @@ lamp :> 1 @@ bare :> 3
MCKey == bench :> 1 @@ lamp :> 2 @@ bare :> 3
BySize(descending) == <<[column |-> "size", descending |-> descending]>>
MCOrders == {<<[column |-> "name", descending |-> TRUE]>>, BySize(FALSE), BySize(TRUE)}

\* One built-in family, and names that a filter tells apart.
MCAutoFamilies == <<[id |-> 7, name |-> game, entries |-> <<bench, lamp>>]>>
MCFound == game :> {park} @@ mine :> {park} @@ theirs :> {}

\* Two decals of one family, two pixels wide and one, and the texture of a lot that
\* the repository has not found, one wide: the grid is empty after it was picked.
MCIds == {asphalt, mud, gravel}
MCKin == asphalt :> road @@ mud :> road @@ gravel :> path
MCWealth == asphalt :> NoId @@ mud :> NoId @@ gravel :> NoId
MCPixels == asphalt :> 2 @@ mud :> 1 @@ gravel :> 1

\* Oak and elm have one stem, and yew has it in another group; ash and fir are
\* named alike, fir less so and in another file.
MCCatalogue == <<oak, elm, ash, fir, yew>>
MCGroup == oak :> 1 @@ elm :> 1 @@ ash :> 1 @@ fir :> 1 @@ yew :> 2
MCInstance == oak :> 5 @@ elm :> 4 @@ ash :> 3 @@ fir :> 2 @@ yew :> 1
MCStem == oak :> 1 @@ elm :> 1 @@ ash :> 2 @@ fir :> 3 @@ yew :> 1
MCLength == oak :> 10 @@ elm :> 10 @@ ash :> 10 @@ fir :> 8 @@ yew :> 10
MCFile == oak :> 1 @@ elm :> 1 @@ ash :> 1 @@ fir :> 2 @@ yew :> 2
Trees == {oak, elm, ash, fir, yew}
MCCommon == [pq \in Trees \X Trees |->
               IF fir \in {pq[1], pq[2]} THEN 4 ELSE IF ash \in {pq[1], pq[2]} THEN 5 ELSE 6]
Win(from, long) == [start |-> from, duration |-> long]
MCWindows == {Win(0, 3), Win(2, 3), Win(4, 4), Win(3, 5), Win(3, 1)}
=============================================================================
