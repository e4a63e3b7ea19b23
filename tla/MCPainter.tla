----------------------------- MODULE MCPainter -----------------------------
(* Small instances of Painter for TLC.                                     *)
EXTENDS Painter, TLC

CONSTANTS o1, o2, o3, o4, t1, t2

Occ3 == {o1, o2, o3}
Occ4 == {o1, o2, o3, o4}
Types1 == {t1}
Types2 == {t1, t2}
ModelOnly == {"FullModel"}
SingleType == {{}}
PalettesUsed == {{}, {t1, t2}}

\* Occupants and types are interchangeable.
Interchangeable == Permutations(Occ) \cup Permutations(Types)
=============================================================================
