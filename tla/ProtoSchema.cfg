SPECIFICATION Spec
CONSTANTS
  Lua = {l1, l2}
  TypeName = {"M", "E"}
  FieldName = {"a", "b"}
  Number = {0, 1, 2}
  File <- MCFile
  MaxFields = 4
  MaxLoads = 3
CHECK_DEADLOCK FALSE
INVARIANTS
  NoFreedReachable
  NoFieldLost
