CONSTANTS
  r1 = r1
  r2 = r2
  Players = {p1}
  ResRefs = {r1, r2}
  InitialAreas <- TwoAreas
  MaxAreas = 3
  Explorers = {p1}
  Placeables = {}
  Word = 8
  NoPlayer = NoPlayer
  NoResRef = NoResRef
  NoRow = NoRow
  NoPlaceable = NoPlaceable
SPECIFICATION Spec
INVARIANTS SavedMapIsOwn
