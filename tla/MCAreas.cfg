CONSTANTS
  r1 = r1
  r2 = r2
  Players = {p1, p2}
  ResRefs = {r1}
  InitialAreas <- SameAreas
  MaxAreas = 3
  Explorers = {}
  Placeables = {k1, k2}
  Word = 8
  NoPlayer = NoPlayer
  NoResRef = NoResRef
  NoRow = NoRow
  NoPlaceable = NoPlaceable
SPECIFICATION Spec
SYMMETRY Symmetry
INVARIANTS TypeOK CountsExact CharacterInLoadedArea NoDanglingArea OneContainer
PROPERTIES NoAreaDestroyedUnderPlayers
