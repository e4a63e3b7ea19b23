CONSTANTS
  o1 = o1  o2 = o2  o3 = o3  o4 = o4
  here = here  spring = spring  autumn = autumn  bench = bench
  NoOcc = NoOcc  NoPlace = NoPlace
  Occ <- MCOcc4  Props <- MCProps  SeasonalSet <- MCSet  LoadedCity <- MCCity
  Batches <- MCBatches  CheckBoxes <- MCCheckBoxes  MaxUndo = 2  MaxProps = 3
  Ids <- MCNew  NoDecal = NoDecal  OwnModes = {2}
  MaxUndoGroups = 1  MaxDeleted = 2
  oak = oak  elm = elm
  FloraOcc <- MCNew  NoPlant = NoPlant  Kinds <- MCKinds  NoKind = NoKind  Turns = {0}
  Spots <- MCSpots  NoSpot = NoSpot  Soil <- MCSoil  Radius = 2
  Wild <- NoFlora  Sprouts <- MCSprouts  FloraBatches <- MCFloraBatches
  FloraPolicies = {"KeepPending"}  MaxFloraGroups = 1  MaxFloraDeleted = 1
SPECIFICATION SideBySide
SYMMETRY Interchangeable
INVARIANTS
  HighlightIsHover ClickIsAimed NothingOutlivesSession
  PendingDecalsStandOut NothingLeftBehind NoCrowd
PROPERTIES
  NothingIsLost SetsStayWhole PreviewTellsClick
