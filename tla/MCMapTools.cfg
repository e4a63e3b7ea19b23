CONSTANTS
  prop = prop
  decal = decal
  propStripper = propStripper
  decalStripper = decalStripper
  picker = picker
  Nobody = Nobody
  Picker = picker
  Painters <- MCPainters
  Sketchers <- MCSketchers
  Strippers <- MCStrippers
  none = none  off = off
  Points <- MCPoints  NoPoint = off  NoResult = none
  PropList <- MCProps  FloraList <- MCFlora  DecalList <- MCDecals
  Lots <- MCLots  Days = {1, 2}  CheckBoxes <- MCBoxes
  CellSize = 2  Radius = 1  DecalRadius = 2  MaxOffset = 1  MaxRemoved = 1
SPECIFICATION SideBySide
INVARIANTS
  OneToolInCity LitAndRedrawn OutlineAtCursor
PROPERTIES
  ImplementsMapOwner CancelLeavesTool
  PicksWhatIsLit
