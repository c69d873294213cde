SPECIFICATION Spec
CONSTANTS
  NIL = NIL
  INNER = INNER
  Addr = {a1, a2, a3}
  Elt = {x, y}
INVARIANTS
  TypeOK
  WellLinked
  WalksAgree
  ReleasedOnce
PROPERTIES
  ImplementsSeqList
CHECK_DEADLOCK FALSE
