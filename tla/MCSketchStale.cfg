CONSTANTS
  NoCursor = NoCursor
  NoFill = NoFill
  Spots <- TwoSpots
  Spacings <- TwoSpacings
  Densities <- OneDensity
  Lifts <- TwoLifts
  GridSteps <- TwoSteps
  StartSettings <- StartUnsnapped
  Turns = 2
  MaxPreview = 3
  MaxPoints = 3
SPECIFICATION Spec
INVARIANTS
  PolygonPreviewIsPlan
