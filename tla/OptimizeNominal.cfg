SPECIFICATION Spec
CONSTANTS
  Streams = {s1}
  MaxIterations = 2
CHECK_DEADLOCK FALSE
INVARIANT NominalPathCompletes
