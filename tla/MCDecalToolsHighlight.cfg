CONSTANTS
  d1 = d1
  d2 = d2
  d3 = d3
  NoDecal = NoDecal
  Ids <- MCIds
  OwnModes = {2}
  MaxUndoGroups = 1
  MaxDeleted = 2
SPECIFICATION DecalSpec
SYMMETRY Interchangeable
INVARIANT HighlightIsTemporary
