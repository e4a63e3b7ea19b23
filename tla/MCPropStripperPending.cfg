CONSTANTS
  o1 = o1
  o2 = o2
  o3 = o3
  o4 = o4
  here = here
  spring = spring
  autumn = autumn
  bench = bench
  NoOcc = NoOcc
  NoPlace = NoPlace
  Occ <- MCOcc4
  Props <- MCProps
  SeasonalSet <- MCSet
  LoadedCity <- MCCity
  Batches <- MCBatches
  CheckBoxes <- MCCheckBoxes
  MaxUndo = 2
  MaxProps = 3
SPECIFICATION Spec
SYMMETRY Interchangeable
INVARIANTS
  PendingIsHighlighted
