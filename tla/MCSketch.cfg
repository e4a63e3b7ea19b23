CONSTANTS
  NoCursor = NoCursor
  NoFill = NoFill
  Spots <- TwoSpots
  Spacings <- TwoSpacings
  Densities <- TwoDensities
  Lifts <- TwoLifts
  GridSteps <- TwoSteps
  StartSettings <- StartAny
  Turns = 2
  MaxPreview = 3
  MaxPoints = 3
SPECIFICATION Spec
INVARIANTS
  EnterPlacesWhatIsShown
  PolygonCacheCurrent
  NothingLingers
  LineWalksThePath
