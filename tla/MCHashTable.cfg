SPECIFICATION Spec
CONSTANTS
  k1 = k1
  k2 = k2
  k3 = k3
  Key = {k1, k2, k3}
  Val = {v1, none}
  MISSING = none
  NumBuckets = 2
  Hash <- MCHash
  MaxInserts = 5
INVARIANTS
  TypeOK
  OneEntryPerKey
  ValuesConserved
PROPERTIES
  ImplementsKeyMap
CHECK_DEADLOCK FALSE
