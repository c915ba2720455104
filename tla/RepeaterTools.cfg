SPECIFICATION MCSpec
CONSTANTS
  Ids = {"r1"}
  MaxSpawns = 3
INVARIANTS
  LiveIsRegistered
  ShutdownIsThorough
PROPERTIES
  StopEndsProcess
  ShutdownEnds
CHECK_DEADLOCK FALSE
