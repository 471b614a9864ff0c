SPECIFICATION Spec
CONSTANTS
  Keys = {0, 1, 2, 3, 4, 5, 8, 9}
  MinSize = 4
  Multiplier = 1
  MaxSize = 16
INVARIANTS
  LookupRight
  IterationComplete
