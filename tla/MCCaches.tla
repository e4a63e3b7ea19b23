------------------------------ MODULE MCCaches ------------------------------
(* Three files, an exemplar and two cohorts that name the same family; one   *)
(* load order in which a directory is listed twice.  A table of four rows,   *)
(* two of them on screen, and a cache that holds three pictures.             *)
EXTENDS Caches

CONSTANTS p1, p2, p3, x, c, d, k1, k2, k3, k4

MCFamilyOf == [t \in Cohorts |-> "family"]
MCContents == {<<>>, <<x>>, <<c>>, <<d, x, c>>}
MCOrders == {<<>>, <<p1, p2, p3>>, <<p1, p2, p1>>}
MCDamaged == {<<p2, c>>, <<p3, x>>}

MCRows == <<k1, k2, k3, k4>>
MCHeaders == {{k1, k2, k3, k4}}
=============================================================================
