CONSTANTS
  a = a
  b = b
  c = c
  n1 = n1
  n2 = n2
  NoFile = NoFile
  Broken = Broken
  Props = {a, b, c}
  Others = {lot}
  Decals = {decal}
  Names = {n1, n2}
  AutoSets <- MCAutoSets
  GameFamilies <- MCGameFamilies
  Catalogues <- MCCatalogues
  MaxRecents = 2
  Room = 3
  MaxId = 2
SPECIFICATION Spec
INVARIANTS
  CuratedSound
  StacksFollowSets
PROPERTIES
  SurvivesRestart
