SPECIFICATION MCSpec
CONSTANTS
  ManagerGivesUp = FALSE
  AsDaemon = FALSE
  MaxAttempts = 4
  MaxWaiting = 2
INVARIANT
  PendingReconnectHasSocket
