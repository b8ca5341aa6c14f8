SPECIFICATION Spec
CONSTANTS
  Execs = {e1, e2}
  Ids = {i1, i2}
  Streams = {out}
  MaxOut = 1
  Cap = 0
  FaultSets <- MCFaultSets
SYMMETRY Symmetry
INVARIANTS NothingLeft LeftoversExplained RunsAwaited
PROPERTY OnlyOwnDeleted
