CONSTANTS
  NoCursor = NoCursor
  NoFill = NoFill
  Spots <- FiveSpots
  Spacings <- TwoSpacings
  Densities <- OneDensity
  Lifts <- NoLift
  GridSteps <- OneStep
  StartSettings <- StartUnsnapped
  Turns = 2
  MaxPreview = 3
  MaxPoints = 3
SPECIFICATION Spec
INVARIANTS
  EvenSpacing
