CONSTANTS
  bench = bench  lamp = lamp  bare = bare  street = street  unnamed = unnamed
  timed = timed  mine = mine  theirs = theirs  game = game  park = park
  asphalt = asphalt  mud = mud  gravel = gravel  road = road  path = path
  oak = oak  elm = elm  ash = ash  fir = fir  yew = yew
\* PropsTable
  Props <- MCProps  NoProp = NoProp  Texts = {street, unnamed}  NoText = NoText
  InName <- MCInName  Label <- MCLabel  Traits = {timed}  Has <- MCHas
  Place <- MCPlace  SizeOf <- MCSize  Key <- MCKey  MaxSize = 2  SizeEdges = {0, 2}
  Orders <- MCOrders  PaintStyles = {"direct", "line"}
\* FamiliesTab
  FamilyProps = {bench, lamp}  AutoFamilies <- MCAutoFamilies  FamilyNames = {mine, theirs}
  Found <- MCFound  NoSearch = NoText  MaxRecents = 2  MaxFamilies = 2  MaxId = 2
\* DecalPanel
  Ids <- MCIds  NoId = NoId  Textures = {asphalt, mud}  Kin <- MCKin  Wealth <- MCWealth  Pixels <- MCPixels
  Unit = 4  DecalStyles = {1}  Plain = 1  Names = {mine}  NoName = NoName
  Edges = {1, 3}  MinDrag = 2  MaxPresets = 1
\* SeasonalSets
  Catalogue <- MCCatalogue  Group <- MCGroup  Instance <- MCInstance  Stem <- MCStem
  Length <- MCLength  Common <- MCCommon  File <- MCFile  Windows <- MCWindows
  NoWindow = NoWindow  Year = 8  MinSeasonDays = 2  MaxSetMembers = 3
  MinYearCoverageDays = 5  MaxRescueOverlapDays = 1  MaxUnexplained = 1  MinPrefix = 4
SPECIFICATION SideBySide
INVARIANTS
  EachInOnePlace NothingLeftThatFits
  TableIsCurrent PickIsListed NewestIsPainted OneDecalAtATime
PROPERTIES
  ActsOnWhatIsListed WindowOnPixels
