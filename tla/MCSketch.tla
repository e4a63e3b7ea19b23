------------------------------ MODULE MCSketch ------------------------------
(* Small instances of Sketch for TLC.                                      *)
EXTENDS Sketch

StartAt(snaps) ==
  [spacing : {CHOOSE x \in Spacings : \A y \in Spacings : x <= y}, density : {1},
   rotation : {0}, lift : {0}, snap : snaps, grid : {1}]

TwoSpots == {0, 5}
FiveSpots == 0 .. 4
TwoSpacings == {2, 3}
OneDensity == {1}
TwoDensities == {1, 2}
NoLift == {0}
TwoLifts == {0, 1}
OneStep == <<1>>
TwoSteps == <<1, 2>>
StartUnsnapped == StartAt({"None"})
StartAny == StartAt(Snaps)
=============================================================================
