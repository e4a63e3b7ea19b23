-------------------------- MODULE MCFavoritesStore --------------------------
(* Three props, one detected set, one built-in family, a decal and a lot; a  *)
(* cache that misses the second prop.                                       *)
EXTENDS FavoritesStore

CONSTANTS a, b, c, n1, n2

MCAutoSets == <<[name |-> n1, members |-> {a, b}]>>
MCGameFamilies == {{b, c}}
MCCatalogues == {{a, b, c}, {a, c}}
=============================================================================
