SPECIFICATION Spec
CONSTANTS
  Name = {x, f}
  Constructors = {"array"}
  Magic = {f}
  MaxNames = 2
  MaxVars = 2
  MaxTypes = 7
  MaxScopes = 3
INVARIANT
  UnknownTypeReported
CHECK_DEADLOCK FALSE
