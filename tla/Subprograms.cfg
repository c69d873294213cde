CONSTANTS
  NONE = NONE
  Name = {x, y}
  FirstBucket = {x}
  LastBucket = {y}
  Reserved = {y}
  Saved = 1
  MaxBlocks = 3
  MaxStatements = 2
  MaxFormals = 2
  MaxVars = 5
SPECIFICATION Spec
INVARIANTS
  TypeOK
  RuleReturn
  RuleNonlocal
  SlotsDistinct
  DisplayFilled
  OffsetsDistinct
  Assembles
  
PROPERTIES
  SlotsStable
CHECK_DEADLOCK FALSE
