---------------------------- MODULE MCDecalTools ----------------------------
(* Three decals of one draw mode, neither the highlight nor the default 0.   *)
EXTENDS DecalTools, TLC

CONSTANTS d1, d2, d3

MCIds == {d1, d2, d3}

Interchangeable == Permutations(Ids)
=============================================================================
