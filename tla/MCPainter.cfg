CONSTANTS
  o1 = o1
  o2 = o2
  o3 = o3
  o4 = o4
  t1 = t1
  t2 = t2
  NoOcc = NoOcc
  NoType = NoType
  Occ <- Occ4
  Types <- Types2
  Palettes <- PalettesUsed
  StartPreviews <- ModelOnly
  MaxUndoGroups = 2
  MaxGroup = 2
  MaxPoints = 3
SPECIFICATION Spec
SYMMETRY Interchangeable
INVARIANTS
  UndoStackSound
  HighlightIsPending
  PreviewConfined
  NothingProvisionalSaved
PROPERTIES
  ImplementsPendingPlacements
