SPECIFICATION Spec
CONSTANTS
  Execs = {e1}
  Ids = {i1}
  Streams = {out, err}
  MaxOut = 1
  Cap = 1
  FaultSets <- MCNoFaults
INVARIANT OutputComplete
