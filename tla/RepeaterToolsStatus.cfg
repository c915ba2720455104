SPECIFICATION Spec
CONSTANTS
  Ids = {"r1"}
  MaxSpawns = 2
INVARIANT StatusTruthful
CHECK_DEADLOCK FALSE
