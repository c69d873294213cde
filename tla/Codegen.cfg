SPECIFICATION Spec
CONSTANTS
  Clobbers = {1, 8}
  MaxHeldLeaky = 5
  MaxHeld = 15
  Shallow = 3
  MaxPending = 7
  MaxCompares = 1
  MaxLeaks = 2
  MaxLoops = 2
INVARIANTS
  TypeOK
  OperandsIntact
  OwnedOnce
  Balanced
CHECK_DEADLOCK FALSE
