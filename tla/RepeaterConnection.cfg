SPECIFICATION MCFairSpec
CONSTANTS
  ManagerGivesUp = TRUE
  AsDaemon = TRUE
  MaxAttempts = 4
  MaxWaiting = 2
INVARIANTS
  NoLeakedTimer
  RetriesOnlyWhenDown
  RetryPending
  ClosedIsQuiet
  CleanStop
PROPERTIES
  RefinesLifecycle
  ClosedExits
  Reconnects
