SPECIFICATION Spec
CONSTANTS
  Name = {x, f}
  Constructors = {"array"}
  Magic = {f}
  MaxNames = 2
  MaxVars = 3
  MaxTypes = 7
  MaxScopes = 3
INVARIANTS
  TypeOK
  TablesName
  TypesAcyclic
  ChainNested
  DeclaredStays
PROPERTIES
  ImplementsShadowStacks
CHECK_DEADLOCK FALSE
