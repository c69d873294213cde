CONSTANTS
  MaxObjects = 16
  MaxDumped = 2
SPECIFICATION Spec
INVARIANTS
  TypeOK
  OneOwner
  NoMisuse
  AllFreed
PROPERTIES
  Termination
CHECK_DEADLOCK FALSE
