CONSTANTS
  Objects = {o1, o2, o3}
  Tags = {plain, p_tag}
  PTags = {p_tag}
  OBJECT_INVALID = 4
  LastId = 6
  NoObject = NoObject
  NoTag = NoTag
SPECIFICATION Spec
SYMMETRY Symmetry
INVARIANTS TypeOK FoundUnderId TagsExact
PROPERTIES IdsNotReused
