CONSTANTS
  Objects = {o1, o2, o3}
  Top = 1
  Period = 3
  MaxEvents = 1
  MaxRequests = 0
  NoObject = NoObject
SPECIFICATION Spec
SYMMETRY Symmetry
INVARIANTS TypeOK ResumesDueLevel
PROPERTIES OncePerRound RoundCovers
