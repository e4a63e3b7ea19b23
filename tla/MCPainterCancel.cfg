CONSTANTS
  o1 = o1
  o2 = o2
  o3 = o3
  o4 = o4
  t1 = t1
  t2 = t2
  NoOcc = NoOcc
  NoType = NoType
  Occ <- Occ3
  Types <- Types1
  Palettes <- SingleType
  StartPreviews <- ModelOnly
  MaxUndoGroups = 2
  MaxGroup = 1
  MaxPoints = 2
SPECIFICATION Spec
PROPERTIES
  CancelLeavesNothingPending
