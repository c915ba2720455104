SPECIFICATION MCSpec
CONSTANTS
  MaxDepth = 3
  LiveStatuses = {"pending", "processing"}
  FinishedStatuses = {"completed", "failed"}
INVARIANTS
  ExitCodeJustified
PROPERTIES
  EndsInTime
  EndsWithJob
