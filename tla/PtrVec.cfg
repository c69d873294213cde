SPECIFICATION Spec
CONSTANTS
  Ptr = {p, q}
  UNSET = UNSET
  InitCaps = {0, 1, 3}
  MaxLength = 9
INVARIANTS
  TypeOK
  IndicesName
  GrowthBounded
PROPERTIES
  StableSlots
CHECK_DEADLOCK FALSE
