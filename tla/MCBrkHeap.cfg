SPECIFICATION Spec
CONSTANTS
  Start = 16
  Limit = 260
  Sizes <- MCSizes
INVARIANTS BlocksKept BreakTight
PROPERTY HeapSpec
