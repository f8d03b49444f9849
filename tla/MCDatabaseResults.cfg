CONSTANTS
  h1 = h1
  h2 = h2
  h3 = h3
  p1 = p1
  p2 = p2
  d1 = d1
  d2 = d2
  DbResults = {h1, h2, h3}
  Pointers = {p1, p2}
  NULL = NULL
  Delayed = {d1, d2}
  MaxRows = 1
  MaxScripts = 3
SPECIFICATION Spec
INVARIANT ResultsHeld
PROPERTY RowsOfNewest
SYMMETRY MCSymmetry
