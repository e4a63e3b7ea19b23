CONSTANTS
  p1 = p1
  p2 = p2
  p3 = p3
  x = x
  c = c
  d = d
  Bad = Bad
  None = None
  Paths = {p1, p2, p3}
  Exemplars = {x}
  Cohorts = {c, d}
  FamilyOf <- MCFamilyOf
  Contents <- MCContents
  Orders <- MCOrders
  Damaged <- MCDamaged
  Rows <- MCRows
  Headers <- MCHeaders
  k1 = k1  k2 = k2  k3 = k3  k4 = k4
  Height = 2  Margin = 1  MaxSize = 3  MaxLoad = 1
  Layouts = {"table", "whole", "grid"}  MaxGen = 1
SPECIFICATION FairSideBySide
CHECK_DEADLOCK FALSE
INVARIANTS
  LastFileWins
PROPERTIES
  FrozenWhileRead ScanComesToAnEnd
  PicturesStay PicturesShown
